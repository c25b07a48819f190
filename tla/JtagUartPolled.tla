----------------------------- MODULE JtagUartPolled -----------------------------
(***************************************************************************)
(* The driver of the JTAG UART as hello_world_bsp builds it (its           *)
(* small-drivers option): no ring, no interrupt and no timeout, the        *)
(* program polls the core.                                                 *)
(***************************************************************************)
EXTENDS UartCore

CONSTANTS MaxTx, MaxCount     \* bounds: bytes written in all, in one call

VARIABLES
    pc, left, moved, nonblock,  \* the program and the locals of its call
    result,                     \* what the last call returned
    put,                        \* history: bytes given to the core
    got                         \* history: bytes read

appVars == <<pc, left, moved, nonblock, result, put, got>>
vars    == <<coreVars, appVars>>

Init == /\ CoreInit(FALSE)
        /\ pc = "main" /\ left = 0 /\ moved = 0 /\ nonblock = FALSE
        /\ result = "none" /\ put = 0 /\ got = <<>>

Call(p, n, nb) ==
    /\ pc = "main"
    /\ pc' = p /\ left' = n /\ nonblock' = nb /\ moved' = 0
    /\ UNCHANGED <<coreVars, result, put, got>>

Return(res) == pc' = "main" /\ result' = res /\ UNCHANGED <<left, moved>>

\* altera_avalon_jtag_uart_write(): it returns count, having written them all.
Write(count) == put + count <= MaxTx /\ Call("wPoll", count, FALSE)

CanWrite == WSPACE # 0

WritePoll == /\ pc = "wPoll"
             /\ IF left = 0 THEN Return("bytes")
                ELSE /\ CanWrite /\ pc' = "wPut"
                     /\ UNCHANGED <<result, left, moved>>
             /\ UNCHANGED <<coreVars, nonblock, put, got>>

WritePut == /\ pc = "wPut"
            /\ WriteData(put + 1)
            /\ put' = put + 1
            /\ left' = left - 1
            /\ pc' = "wPoll"
            /\ UNCHANGED <<moved, nonblock, result, got>>

\* altera_avalon_jtag_uart_read(): with data, go on until there is none.
Read(space, nb) == Call("rTake", space, nb)

IgnoreEmpty(valid) == nonblock                                      \* mutant
StopsAt(valid)     == ~valid /\ (moved > 0 \/ nonblock)

ReadTake ==
    LET valid == rfifo # <<>> IN
    /\ pc = "rTake" /\ left > 0
    /\ ReadData
    /\ got' = IF valid THEN Append(got, Head(rfifo)) ELSE got
    /\ left' = IF valid THEN left - 1 ELSE left
    /\ moved' = IF valid THEN moved + 1 ELSE moved
    /\ pc' = IF StopsAt(valid) THEN "rEnd" ELSE "rTake"
    /\ UNCHANGED <<nonblock, result, put>>

ReadEnd == /\ pc = "rEnd" \/ (pc = "rTake" /\ left = 0)
           /\ Return(IF moved > 0 THEN "bytes"
                     ELSE IF nonblock THEN "EWOULDBLOCK" ELSE "EIO")
           /\ UNCHANGED <<coreVars, nonblock, put, got>>

CallStep == WritePoll \/ WritePut \/ ReadTake \/ ReadEnd

NewCall == \E n \in 0..MaxCount : Write(n) \/ \E nb \in BOOLEAN : Read(n, nb)

Takes == HostTakes /\ UNCHANGED appVars

Next == CallStep \/ NewCall \/ (HostStep /\ UNCHANGED appVars)

Spec == Init /\ [][Next]_vars /\ WF_vars(CallStep) /\ WF_vars(Takes)

-----------------------------------------------------------------------------

\* Without rings too nothing is lost or reordered: the space write() polled is
\* still there when it writes, and read() keeps every byte it takes out.
PolledInOrder == /\ seen \o wfifo = [i \in 1..put |-> i]
                 /\ got \o rfifo = [i \in 1..sent |-> i]

\* A write ends if the host stays, but without a host it never gives up; a
\* read that has taken a byte ends whatever the host does.
PolledCallEnds == /\ pc \in {"wPoll", "wPut"} ~> (pc = "main" \/ host # "open")
                  /\ pc = "rTake" /\ moved > 0 ~> pc = "main"
=============================================================================
