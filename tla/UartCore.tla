-------------------------------- MODULE UartCore --------------------------------
(***************************************************************************)
(* The JTAG UART of the system, as the processor and the host at the other *)
(* end of the cable see it (first_nios2_system_jtag_uart.v): two FIFOs,    *)
(* two interrupt enables, an activity flag.  A byte is its position in the *)
(* stream, so that order and loss can be told.  The host is external; it   *)
(* opens its terminal once and closes it once.                             *)
(***************************************************************************)
EXTENDS Naturals, SequencesExt

CONSTANTS
    FIFO_LEN,      \* bytes in each FIFO (64 in the source)
    AE_LEVEL,      \* write FIFO almost empty: this many bytes or fewer (8)
    AF_LEVEL,      \* read FIFO almost full: this many free or fewer (8)
    MaxRx          \* bound: bytes the host sends

ASSUME CoreAssumption ==
    /\ FIFO_LEN \in Nat \ {0} /\ MaxRx \in Nat
    /\ AE_LEVEL \in 0..FIFO_LEN-1 /\ AF_LEVEL \in 0..FIFO_LEN-1

VARIABLES
    wfifo, rfifo,     \* the FIFOs: to the host and from it
    ien_AE, ien_AF,   \* the interrupt enables of the control register
    pause_irq,        \* the host paused with bytes in the read FIFO
    ac,               \* the host was active since software cleared it
    woverflow,        \* the last byte written found the FIFO full
    host,             \* "absent", then "open", then "gone"
    seen,             \* history: the bytes the host has taken
    sent              \* history: how many bytes the host has sent

coreVars == <<wfifo, rfifo, ien_AE, ien_AF, pause_irq, ac, woverflow, host,
              seen, sent>>

\* After reset, with the interrupt enable software has written.
CoreInit(re) ==
    /\ wfifo = <<>> /\ rfifo = <<>> /\ seen = <<>> /\ sent = 0
    /\ ien_AE = FALSE /\ ien_AF = re /\ pause_irq = FALSE
    /\ ac = FALSE /\ woverflow = FALSE
    /\ host \in {"absent", "open"}

\* The fields of the control register.
WholeFifo == FIFO_LEN                                               \* mutant
WSPACE == FIFO_LEN - Len(wfifo)
WI     == ien_AE /\ Len(wfifo) <= AE_LEVEL
RI     == ien_AF /\ (pause_irq \/ FIFO_LEN - Len(rfifo) <= AF_LEVEL)
av_irq == WI \/ RI

\* RAVAIL of the data register, sampled a cycle after the byte is taken.
RAVAIL == rfifo # <<>>

\* A write of the control register.
WriteControl(re, we, clearAc) ==
    /\ ien_AF' = re
    /\ ien_AE' = we
    /\ ac' = (ac /\ ~clearAc)
    /\ UNCHANGED <<wfifo, rfifo, pause_irq, woverflow, host, seen, sent>>

\* A write of the data register: a byte that finds the FIFO full is dropped.
WriteData(b) ==
    /\ woverflow' = (Len(wfifo) = FIFO_LEN)
    /\ wfifo' = IF Len(wfifo) = FIFO_LEN THEN wfifo ELSE Append(wfifo, b)
    /\ UNCHANGED <<rfifo, ien_AE, ien_AF, pause_irq, ac, host, seen, sent>>

\* First cycle of a read of the data register: take a byte if there is one.
ReadData ==
    /\ rfifo' = IF rfifo = <<>> THEN <<>> ELSE Tail(rfifo)
    /\ pause_irq' = FALSE
    /\ UNCHANGED <<wfifo, ien_AE, ien_AF, ac, woverflow, host, seen, sent>>

-----------------------------------------------------------------------------

HostTakes == /\ host = "open" /\ wfifo # <<>>
             /\ seen' = Append(seen, Head(wfifo))
             /\ wfifo' = Tail(wfifo)
             /\ UNCHANGED <<rfifo, ien_AE, ien_AF, pause_irq, ac, woverflow,
                            host, sent>>

\* The host sends only while the core says there is room (t_dav).
HostSends == /\ host = "open" /\ Len(rfifo) < FIFO_LEN /\ sent < MaxRx
             /\ rfifo' = Append(rfifo, sent + 1)
             /\ sent' = sent + 1
             /\ ac' = TRUE
             /\ UNCHANGED <<wfifo, ien_AE, ien_AF, pause_irq, woverflow, host,
                            seen>>

\* The host polls and has nothing more to send for now.
HostPauses == /\ host = "open"
              /\ pause_irq' = (pause_irq \/ rfifo # <<>>)
              /\ ac' = TRUE
              /\ UNCHANGED <<wfifo, rfifo, ien_AE, ien_AF, woverflow, host,
                             seen, sent>>

HostOpens == /\ host = "absent" /\ host' = "open"
             /\ UNCHANGED <<wfifo, rfifo, ien_AE, ien_AF, pause_irq, ac,
                            woverflow, seen, sent>>

HostLeaves == /\ host = "open" /\ host' = "gone"
              /\ UNCHANGED <<wfifo, rfifo, ien_AE, ien_AF, pause_irq, ac,
                             woverflow, seen, sent>>

HostStep == HostTakes \/ HostSends \/ HostPauses \/ HostOpens \/ HostLeaves
=============================================================================
