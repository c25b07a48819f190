-------------------------------- MODULE JtagUart --------------------------------
(***************************************************************************)
(* The interrupt-driven driver of the JTAG UART (drivers/src/              *)
(* altera_avalon_jtag_uart_*.c): two ring buffers between the one thread   *)
(* of the program and the interrupt handler.  The program is interrupted   *)
(* between any two accesses to shared memory, except where it disables     *)
(* interrupts; the handlers run to their end, while the host goes on.      *)
(***************************************************************************)
EXTENDS UartCore, FiniteSetsExt

CONSTANTS
    BUF_LEN,          \* slots of a ring buffer (2048)
    DEFAULT_TIMEOUT,  \* seconds without a sign of the host (10)
    INT_MAX,
    Calls,            \* the calls the program makes
    MaxTx,            \* bound: bytes the program writes
    MaxCount          \* bound: bytes of one call

ASSUME DriverAssumption ==
    /\ BUF_LEN \in Nat \ {0, 1}
    /\ DEFAULT_TIMEOUT \in Nat \ {0, 1} /\ INT_MAX \in Nat
    /\ DEFAULT_TIMEOUT < INT_MAX - 1
    /\ Calls \subseteq {"write", "read", "close", "ioctl"}
    /\ MaxTx \in Nat /\ MaxCount \in Nat

VARIABLES
    tx_buf, tx_in, tx_out,  \* ring of bytes to send
    rx_buf, rx_in, rx_out,  \* ring of bytes received
    re, we,                 \* irq_enable, the copy of the enable bits
    host_inactive,          \* seconds since the host was last active
    timeout,
    pc,                     \* where the program is
    left, moved, nonblock,  \* count or space, ptr - start, O_NONBLOCK
    in, out, n,             \* locals of write() and read()
    result,                 \* what the last call returned
    isr,                    \* where the interrupt handler is
    wi, space, avail,       \* its locals: WI, WSPACE and RAVAIL as read
    valid, byte,            \* and the last read of the data register
    accepted,               \* history: bytes put in the transmit ring
    got                     \* history: the bytes the program has read

txRing  == <<tx_buf, tx_in, tx_out>>
rxRing  == <<rx_buf, rx_in, rx_out>>
enables == <<re, we>>
watch   == <<host_inactive, timeout>>
drvVars == <<txRing, rxRing, enables, watch>>
locals  == <<left, moved, nonblock, in, out, n>>
appData == <<locals, result, accepted, got>>
appVars == <<pc, appData>>
isrData == <<wi, space, avail, valid, byte>>
isrVars == <<isr, isrData>>
vars    == <<coreVars, drvVars, appVars, isrVars>>

Slot == 0..BUF_LEN-1

Locals(l, m, nb, i, o, k) ==
    left' = l /\ moved' = m /\ nonblock' = nb /\ in' = i /\ out' = o /\ n' = k

IrqLocals(w, s, a, v, b) ==
    wi' = w /\ space' = s /\ avail' = a /\ valid' = v /\ byte' = b

\* altera_avalon_jtag_uart_init(): a timeout of INT_MAX records that the
\* alarm could not be started.
Init == /\ CoreInit(TRUE)
        /\ tx_buf = [i \in Slot |-> 0] /\ tx_in = 0 /\ tx_out = 0
        /\ rx_buf = [i \in Slot |-> 0] /\ rx_in = 0 /\ rx_out = 0
        /\ re = TRUE /\ we = FALSE
        /\ host_inactive = 0
        /\ timeout \in {DEFAULT_TIMEOUT, INT_MAX}
        /\ pc = "main" /\ left = 0 /\ moved = 0 /\ nonblock = FALSE
        /\ in = 0 /\ out = 0 /\ n = 0 /\ result = "none"
        /\ accepted = 0 /\ got = <<>>
        /\ isr = "idle" /\ wi = FALSE /\ space = 0 /\ avail = FALSE
        /\ valid = FALSE /\ byte = 0

Wrap(i) == i % BUF_LEN

\* The program runs only while no handler does.
At(p) == isr = "idle" /\ pc = p

-----------------------------------------------------------------------------
(* altera_avalon_jtag_uart_write() *)

Write(count, nb) ==
    /\ At("main") /\ "write" \in Calls
    /\ accepted + count <= MaxTx
    /\ pc' = "wLook"
    /\ Locals(count, 0, nb, 0, 0, 0)
    /\ result' = "none"
    /\ UNCHANGED <<coreVars, drvVars, isrVars, accepted, got>>

\* Slots that can be filled from in on without a wrap; one stays free.
WholeRoom(i, o) == BUF_LEN - i                                      \* mutant
Room(i, o)      == IF i < o THEN o - 1 - i
                   ELSE IF o > 0 THEN BUF_LEN - i ELSE BUF_LEN - 1 - i

WriteLook ==
    /\ At("wLook")
    /\ Locals(left, moved, nonblock, tx_in, tx_out,
              Min({Room(tx_in, tx_out), left}))
    /\ pc' = IF n' = 0 THEN "wKick" ELSE "wCopy"
    /\ UNCHANGED <<coreVars, drvVars, isrVars, result, accepted, got>>

\* memcpy() of the next n bytes of the stream.
WriteCopy ==
    /\ At("wCopy")
    /\ tx_buf' = [i \in Slot |-> IF i \in in .. in + n - 1
                                 THEN accepted + 1 + (i - in)
                                 ELSE tx_buf[i]]
    /\ pc' = "wPublish"
    /\ UNCHANGED <<coreVars, tx_in, tx_out, rxRing, enables, watch, isrVars,
                   appData>>

WritePublish ==
    /\ At("wPublish")
    /\ tx_in' = Wrap(in + n)
    /\ accepted' = accepted + n
    /\ Locals(left - n, moved + n, nonblock, in, out, n)
    /\ pc' = "wLook"
    /\ UNCHANGED <<coreVars, tx_buf, tx_out, rxRing, enables, watch, isrVars,
                   result, got>>

\* With interrupts disabled: let the handler transmit.
Kick(on) ==
    /\ At("wKick")
    /\ we' = on
    /\ WriteControl(re, on, FALSE)
    /\ pc' = IF left = 0 \/ nonblock THEN "return" ELSE "wSpin"
    /\ UNCHANGED <<txRing, rxRing, re, watch, isrVars, appData>>

KickIfBlocked == Kick(we \/ left > 0)                           \* mutant
WriteKick     == Kick(TRUE)

\* The spin loops of write() and read() wait for the index to move.
MovedOnly(then, now) == now # then                                  \* mutant
SpinOver(then, now)  == now # then \/ host_inactive >= timeout

WriteSpin ==
    /\ At("wSpin")
    /\ SpinOver(out, tx_out)
    /\ pc' = "wCheck"
    /\ UNCHANGED <<coreVars, drvVars, isrVars, appData>>

WriteCheck ==
    /\ At("wCheck")
    /\ pc' = IF host_inactive > 0 THEN "return" ELSE "wLook"
    /\ UNCHANGED <<coreVars, drvVars, isrVars, appData>>

\* The last lines of both write() and read().
Return ==
    /\ At("return")
    /\ result' = IF moved > 0 THEN "bytes"
                 ELSE IF nonblock THEN "EWOULDBLOCK" ELSE "EIO"
    /\ Locals(0, 0, FALSE, 0, 0, 0)
    /\ pc' = "main"
    /\ UNCHANGED <<coreVars, drvVars, isrVars, accepted, got>>

-----------------------------------------------------------------------------
(* altera_avalon_jtag_uart_read() *)

Read(room, nb) ==
    /\ At("main") /\ "read" \in Calls
    /\ pc' = IF room = 0 THEN "return" ELSE "rLook"
    /\ Locals(room, 0, nb, 0, 0, 0)
    /\ result' = "none"
    /\ UNCHANGED <<coreVars, drvVars, isrVars, accepted, got>>

\* Bytes that can be taken from out on without a wrap.
FullAtEqual(i, o) == IF i > o THEN i - o ELSE BUF_LEN - o            \* mutant
Stored(i, o) == IF i >= o THEN i - o ELSE BUF_LEN - o

\* Return what there is, or wait for the first byte.
NotEnabled(m) ==                                                    \* mutant
    IF m > 0 \/ nonblock THEN "return" ELSE "rSpin"
AfterRead(m) ==
    IF m > 0 THEN "rEnable"
    ELSE IF nonblock THEN "return" ELSE "rSpin"

ReadLook ==
    /\ At("rLook")
    /\ Locals(left, moved, nonblock, rx_in, rx_out,
              Min({Stored(rx_in, rx_out), left}))
    /\ pc' = IF n' = 0 THEN AfterRead(moved) ELSE "rCopy"
    /\ UNCHANGED <<coreVars, drvVars, isrVars, result, accepted, got>>

\* memcpy() into the caller's buffer.
ReadCopy ==
    /\ At("rCopy")
    /\ got' = got \o [k \in 1..n |-> rx_buf[out + k - 1]]
    /\ pc' = "rPublish"
    /\ UNCHANGED <<coreVars, drvVars, isrVars, locals, result, accepted>>

ReadPublish ==
    /\ At("rPublish")
    /\ rx_out' = Wrap(out + n)
    /\ Locals(left - n, moved + n, nonblock, in, out, n)
    /\ pc' = IF left > n THEN "rLook" ELSE AfterRead(moved + n)
    /\ UNCHANGED <<coreVars, txRing, rx_buf, rx_in, enables, watch, isrVars,
                   result, accepted, got>>

ReadSpin ==
    /\ At("rSpin")
    /\ SpinOver(in, rx_in)
    /\ pc' = "rCheck"
    /\ UNCHANGED <<coreVars, drvVars, isrVars, appData>>

ReadCheck ==
    /\ At("rCheck")
    /\ pc' = IF in = rx_in THEN "return" ELSE "rLook"
    /\ UNCHANGED <<coreVars, drvVars, isrVars, appData>>

\* With interrupts disabled: there is room in the ring again.
ReadEnable ==
    /\ At("rEnable")
    /\ re' = TRUE
    /\ WriteControl(TRUE, we, FALSE)
    /\ pc' = "return"
    /\ UNCHANGED <<txRing, rxRing, we, watch, isrVars, appData>>

-----------------------------------------------------------------------------
(* altera_avalon_jtag_uart_close() and _ioctl() *)

Close(nb) ==
    /\ At("main") /\ "close" \in Calls
    /\ pc' = "cWait"
    /\ Locals(0, 0, nb, 0, 0, 0)
    /\ result' = "none"
    /\ UNCHANGED <<coreVars, drvVars, isrVars, accepted, got>>

CloseWait ==
    /\ At("cWait")
    /\ LET waiting == tx_out # tx_in /\ host_inactive < timeout IN
        /\ waiting => nonblock
        /\ result' = IF waiting THEN "EWOULDBLOCK" ELSE "closed"
    /\ Locals(0, 0, FALSE, 0, 0, 0)
    /\ pc' = "main"
    /\ UNCHANGED <<coreVars, drvVars, isrVars, accepted, got>>

\* TIOCSTIMEOUT: a time outside the range means for ever.
SetTimeout(t) ==
    /\ At("main") /\ "ioctl" \in Calls
    /\ timeout # INT_MAX
    /\ timeout' = IF t >= 2 /\ t < INT_MAX THEN t ELSE INT_MAX - 1
    /\ UNCHANGED <<coreVars, txRing, rxRing, enables, host_inactive, isrVars,
                   appVars>>

-----------------------------------------------------------------------------
(* altera_avalon_jtag_uart_irq() *)

IrqEnter == /\ isr = "idle" /\ av_irq
            /\ isr' = "control"
            /\ UNCHANGED <<coreVars, drvVars, appVars, isrData>>

IrqControl ==
    /\ isr = "control"
    /\ IF RI \/ WI THEN IrqLocals(WI, WSPACE, TRUE, FALSE, 0)
       ELSE IrqLocals(FALSE, 0, FALSE, FALSE, 0)
    /\ isr' = IF RI THEN "rx" ELSE IF WI THEN "tx" ELSE "idle"
    /\ UNCHANGED <<coreVars, drvVars, appVars>>

\* The next slot of the receive ring is free.
AlwaysRoom == TRUE                                                  \* mutant
RxRoom     == Wrap(rx_in + 1) # rx_out

IrqRxTake ==
    /\ isr = "rx" /\ RxRoom
    /\ ReadData
    /\ IrqLocals(wi, space, avail, rfifo # <<>>,
                 IF rfifo = <<>> THEN 0 ELSE Head(rfifo))
    /\ isr' = "rxWord"
    /\ UNCHANGED <<drvVars, appVars>>

IrqRxStore ==
    /\ isr = "rxWord"
    /\ IrqLocals(wi, space, RAVAIL, FALSE, 0)
    /\ IF valid
       THEN /\ rx_buf' = [rx_buf EXCEPT ![rx_in] = byte]
            /\ rx_in' = Wrap(rx_in + 1)
            /\ isr' = "rx"
       ELSE /\ isr' = "rxEnd"
            /\ UNCHANGED <<rx_buf, rx_in>>
    /\ UNCHANGED <<coreVars, txRing, rx_out, enables, watch, appVars>>

IrqRxFull == /\ isr = "rx" /\ ~RxRoom
             /\ isr' = "rxEnd"
             /\ UNCHANGED <<coreVars, drvVars, appVars, isrData>>

IrqRxEnd ==
    /\ isr = "rxEnd"
    /\ IF avail
       THEN re' = FALSE /\ WriteControl(FALSE, we, FALSE)
       ELSE UNCHANGED <<coreVars, re>>
    /\ isr' = IF wi THEN "tx" ELSE "control"
    /\ UNCHANGED <<txRing, rxRing, we, watch, appVars, isrData>>

IrqTxByte ==
    /\ isr = "tx" /\ space > 0 /\ tx_out # tx_in
    /\ WriteData(tx_buf[tx_out])
    /\ tx_out' = Wrap(tx_out + 1)
    /\ IrqLocals(wi, space - 1, avail, valid, byte)
    /\ UNCHANGED <<tx_buf, tx_in, rxRing, enables, watch, appVars, isr>>

IrqTxEnd ==
    /\ isr = "tx" /\ ~(space > 0 /\ tx_out # tx_in)
    /\ IF space > 0
       THEN we' = FALSE /\ WriteControl(re, FALSE, FALSE)
       ELSE UNCHANGED <<coreVars, we>>
    /\ isr' = "control"
    /\ UNCHANGED <<txRing, rxRing, re, watch, appVars, isrData>>

\* The count stops short of the two values of timeout that mean for ever.
Inactive(h) == IF h < INT_MAX - 2 THEN h + 1 ELSE h

\* altera_avalon_jtag_uart_timeout(), called by the tick handler each second.
Timeout ==
    /\ isr = "idle" /\ timeout # INT_MAX
    /\ IF ac
       THEN /\ WriteControl(re, we, TRUE)
            /\ host_inactive' = 0
       ELSE /\ host_inactive' = Inactive(host_inactive)
            /\ UNCHANGED coreVars
    /\ UNCHANGED <<txRing, rxRing, enables, timeout, appVars, isrVars>>

-----------------------------------------------------------------------------

Host == HostStep /\ UNCHANGED <<drvVars, appVars, isrVars>>

CallStep == \/ WriteLook \/ WriteCopy \/ WritePublish \/ WriteKick
            \/ WriteSpin \/ WriteCheck
            \/ ReadLook \/ ReadCopy \/ ReadPublish \/ ReadSpin \/ ReadCheck
            \/ ReadEnable \/ CloseWait \/ Return

NewCall == \/ \E c \in 0..MaxCount, nb \in BOOLEAN : Write(c, nb) \/ Read(c, nb)
           \/ \E nb \in BOOLEAN : Close(nb)
           \/ \E t \in 0..INT_MAX : SetTimeout(t)

IrqStep == \/ IrqEnter \/ IrqControl \/ IrqRxTake \/ IrqRxStore \/ IrqRxFull
           \/ IrqRxEnd \/ IrqTxByte \/ IrqTxEnd

Next == CallStep \/ NewCall \/ IrqStep \/ Timeout \/ Host

\* The processor goes on, the timer ticks, and an open host polls and drains.
Fairness == /\ WF_vars(CallStep) /\ WF_vars(IrqStep) /\ WF_vars(Timeout)
            /\ WF_vars(HostTakes /\ UNCHANGED <<drvVars, appVars, isrVars>>)
            /\ WF_vars(HostPauses /\ UNCHANGED <<drvVars, appVars, isrVars>>)

Spec == Init /\ [][Next]_vars /\ Fairness

-----------------------------------------------------------------------------

Upto(k) == [i \in 1..k |-> i]

\* The bytes between two indices of a ring.
Ring(buf, o, i) ==
    [k \in 1..Wrap(i + BUF_LEN - o) |-> buf[Wrap(o + k - 1)]]

\* Between its publishing steps the transmit path loses, doubles and reorders
\* nothing: what the host has seen, the FIFO and the ring are together the
\* bytes the program has put in, whatever the handler does between the copy
\* and the new tx_in, and where the ring wraps.
TxConserved == seen \o wfifo \o Ring(tx_buf, tx_out, tx_in) = Upto(accepted)

\* The same for the receive path, with the byte that is in the handler's hand
\* and the bytes read() has copied and not yet given back.
RxConserved ==
    LET from == IF pc = "rPublish" THEN Wrap(rx_out + n) ELSE rx_out IN
    got \o Ring(rx_buf, from, rx_in)
        \o (IF valid THEN <<byte>> ELSE <<>>) \o rfifo = Upto(sent)

\* The handler never writes to a full FIFO: the space it read still holds.
NoOverflow == ~woverflow

\* Bytes in the transmit ring are never left without the write interrupt,
\* although the handler turns it off and write() publishes before its kick.
PendingTxArmed ==
    isr = "idle" /\ tx_in # tx_out =>
        we \/ pc \in {"wLook", "wCopy", "wPublish", "wKick"}

\* The receive interrupt is off only while there are bytes that make the next
\* read() return and turn it on, or while a read() is about to.
MaskedRxWakes ==
    isr = "idle" /\ ~re =>
        \/ rx_in # rx_out
        \/ pc \in {"rPublish", "rEnable"} \/ (pc = "rLook" /\ moved > 0)

\* No wake-up is lost between the look at a ring and the loop that waits for its
\* index: as long as that has not moved, the core itself has the enable, and
\* not only the driver's copy of it.
SpinnersWake ==
    isr = "idle" => /\ pc = "wSpin" /\ tx_out = out => ien_AE
                    /\ pc = "rSpin" /\ rx_in = in => ien_AF

\* Neither direction is ever left without the interrupt that would wake it,
\* though program and handler change both enables in one word.
InterruptsArmed == PendingTxArmed /\ MaskedRxWakes /\ SpinnersWake

Tx == INSTANCE ByteChannel WITH
        Capacity <- BUF_LEN - 1 + FIFO_LEN, in <- accepted, out <- seen

\* The transmit path is a first-in first-out channel with a ring and a FIFO of
\* room, from the caller of write() to the host.
ImplementsTx == Tx!Spec

Rx == INSTANCE ByteChannel WITH
        Capacity <- BUF_LEN - 1 + FIFO_LEN, in <- sent, out <- got

\* So is the receive path, from the host to the caller of read(): the copy is
\* the step that takes bytes out, although their slots are given back later.
ImplementsRx == Rx!Spec

Unreachable == host # "open" /\ timeout >= INT_MAX - 1

Reading == pc \in {"rLook", "rCopy", "rPublish", "rSpin", "rCheck", "rEnable"}

\* write() and close() return: no wake-up is lost between the handler and a
\* spin loop.  With the host away this takes the timeout, and with no timeout
\* set it waits for the host.
WriteEnds == (pc # "main" /\ ~Reading) ~> (pc = "main" \/ Unreachable)

\* read() returns once there is a byte for it, even if the handler had masked
\* the receive interrupt.
ReadEnds == (Reading /\ Len(got) < sent) ~> (~Reading \/ Unreachable)

\* Every byte that write() has accepted reaches the host, if it stays: as the
\* program writes no more than MaxTx, both buffers are empty in the end.
EveryByteSent == Len(seen) < accepted ~> (Len(seen) = accepted \/ host # "open")
=============================================================================
