----------------------------- MODULE JtagUart_proofs -----------------------------
(***************************************************************************)
(* Proofs about the driver of the JTAG UART, for rings and FIFOs of any    *)
(* length, any thresholds and any timeout.                                 *)
(***************************************************************************)
EXTENDS JtagUart, SequenceTheorems, TLAPS

Frame == UNCHANGED <<drvVars, appVars, isrVars>>

\* The lesser of two numbers, as the driver's "if (n > count) n = count".
LEMMA MinOfTwo ==
    ASSUME NEW a \in Nat, NEW b \in Nat
    PROVE  /\ Min({a, b}) \in Nat /\ Min({a, b}) <= a /\ Min({a, b}) <= b
           /\ Min({a, b}) = a \/ Min({a, b}) = b
<1>1. \E x \in {a, b} : \A y \in {a, b} : x <= y
  OBVIOUS
<1>2. /\ Min({a, b}) \in {a, b}
      /\ \A y \in {a, b} : Min({a, b}) <= y
  BY <1>1, Zenon DEF Min
<1>3. QED
  BY <1>2

\* An index that has moved less than a ring's length wraps at most once.
LEMMA WrapOnce ==
    ASSUME NEW i \in 0..(2 * BUF_LEN - 1)
    PROVE  Wrap(i) = IF i < BUF_LEN THEN i ELSE i - BUF_LEN
<1>1. BUF_LEN \in Nat \ {0}
  BY DriverAssumption
<1>2. QED
  BY <1>1 DEF Wrap

-----------------------------------------------------------------------------
(* Neither interrupt is off while it is needed.                            *)

\* The types of the indices and of the locals of a call.
Typed == /\ tx_in \in Slot /\ tx_out \in Slot
         /\ rx_in \in Slot /\ rx_out \in Slot
         /\ in \in Slot /\ out \in Slot
         /\ left \in Nat /\ moved \in Nat /\ n \in 0..BUF_LEN
         /\ sent \in Nat

\* What a call has in its locals while it moves bytes.
CallOK == /\ pc \in {"wCopy", "wPublish", "rCopy", "rPublish"} =>
                 n > 0 /\ n <= left
          /\ pc \in {"rLook", "rSpin", "rCheck"} => left > 0

Base == Typed /\ CallOK

(* An index that has been advanced is a slot of the ring.                  *)
LEMMA WrapSlot == ASSUME NEW i \in 0..(2 * BUF_LEN - 1) PROVE Wrap(i) \in Slot
  BY WrapOnce, DriverAssumption DEF Slot

(* The slots are numbers, and the ring has room for at least one byte.     *)
LEMMA SlotNumbers == /\ BUF_LEN \in Nat /\ BUF_LEN >= 2 /\ 0 \in Slot
                     /\ \A i \in Slot : i \in Nat /\ i < BUF_LEN
  BY DriverAssumption DEF Slot

USE DEF coreVars, drvVars, appVars, appData, locals, isrVars, isrData, txRing,
        rxRing, enables, watch, Locals, IrqLocals

(* The driver starts with its types right.                                 *)
LEMMA InitBase == Init => Base
  BY SlotNumbers DEF Init, CoreInit, Base, Typed, CallOK

(* A step of write(), read() or close() keeps the types.                   *)
LEMMA CallStepBase == Base /\ CallStep => Base'
<1> SUFFICES ASSUME Base, CallStep PROVE Base'
  OBVIOUS
<1> USE SlotNumbers DEF Base, Typed, CallOK, At
<1>1. CASE WriteLook
  <2>1. Room(tx_in, tx_out) \in 0..BUF_LEN
    BY DEF Room
  <2> DEFINE k == Min({Room(tx_in, tx_out), left})
  <2>2. k \in Nat /\ k <= left /\ k <= BUF_LEN
    BY <2>1, MinOfTwo
  <2>3. /\ n' = k /\ in' = tx_in /\ out' = tx_out /\ left' = left
        /\ pc' \in {"wKick", "wCopy"} /\ (pc' = "wCopy" => n' # 0)
        /\ moved' = moved /\ UNCHANGED <<coreVars, drvVars, isrVars, accepted>>
    BY <1>1 DEF WriteLook
  <2> HIDE DEF k
  <2>4. QED
    BY <2>2, <2>3
<1>2. CASE WriteCopy
  BY <1>2 DEF WriteCopy
<1>3. CASE WritePublish
  BY <1>3, WrapSlot DEF WritePublish
<1>4. CASE WriteKick
  BY <1>4 DEF WriteKick, Kick, WriteControl
<1>5. CASE WriteSpin \/ WriteCheck
  BY <1>5 DEF WriteSpin, WriteCheck
<1>6. CASE ReadLook
  <2>1. Stored(rx_in, rx_out) \in 0..BUF_LEN
    BY DEF Stored
  <2> DEFINE k == Min({Stored(rx_in, rx_out), left})
  <2>2. k \in Nat /\ k <= left /\ k <= BUF_LEN
    BY <2>1, MinOfTwo
  <2>3. /\ n' = k /\ in' = rx_in /\ out' = rx_out /\ left' = left
        /\ pc' \in {"rEnable", "return", "rSpin", "rCopy"}
        /\ (pc' = "rCopy" => n' # 0) /\ left > 0
        /\ moved' = moved /\ UNCHANGED <<coreVars, drvVars, isrVars, accepted>>
    BY <1>6 DEF ReadLook, AfterRead
  <2> HIDE DEF k
  <2>4. QED
    BY <2>2, <2>3
<1>7. CASE ReadCopy
  BY <1>7 DEF ReadCopy
<1>8. CASE ReadPublish
  BY <1>8, WrapSlot DEF ReadPublish, AfterRead
<1>9. CASE ReadSpin \/ ReadCheck
  BY <1>9 DEF ReadSpin, ReadCheck
<1>10. CASE ReadEnable
  BY <1>10 DEF ReadEnable, WriteControl
<1>11. CASE CloseWait
  BY <1>11 DEF CloseWait
<1>12. CASE Return
  BY <1>12 DEF Return
<1>13. QED
  BY <1>1, <1>2, <1>3, <1>4, <1>5, <1>6, <1>7, <1>8, <1>9, <1>10, <1>11,
     <1>12, Zenon DEF CallStep

(* A call keeps the types.                                                 *)
LEMMA NewCallBase == Base /\ NewCall => Base'
<1> SUFFICES ASSUME Base, NewCall PROVE Base'
  OBVIOUS
<1> USE SlotNumbers, DriverAssumption DEF Base, Typed, CallOK, At
<1>1. CASE \E c \in 0..MaxCount, nb \in BOOLEAN : Write(c, nb) \/ Read(c, nb)
  <2> PICK c \in 0..MaxCount, nb \in BOOLEAN : Write(c, nb) \/ Read(c, nb)
    BY <1>1, Zenon
  <2> QED
    BY DEF Write, Read
<1>2. CASE \E nb \in BOOLEAN : Close(nb)
  BY <1>2 DEF Close
<1>3. CASE \E t \in 0..INT_MAX : SetTimeout(t)
  BY <1>3 DEF SetTimeout
<1>4. QED
  BY <1>1, <1>2, <1>3, Zenon DEF NewCall

(* A step of the interrupt handler keeps the types.                        *)
LEMMA IrqStepBase == Base /\ IrqStep => Base'
<1> SUFFICES ASSUME Base, IrqStep PROVE Base'
  OBVIOUS
<1> USE SlotNumbers DEF Base, Typed, CallOK
<1>1. CASE IrqEnter \/ IrqRxFull
  BY <1>1 DEF IrqEnter, IrqRxFull
<1>2. CASE IrqControl
  BY <1>2 DEF IrqControl
<1>3. CASE IrqRxTake
  BY <1>3 DEF IrqRxTake, ReadData
<1>4. CASE IrqRxStore
  BY <1>4, WrapSlot DEF IrqRxStore
<1>5. CASE IrqRxEnd
  BY <1>5 DEF IrqRxEnd, WriteControl
<1>6. CASE IrqTxByte
  BY <1>6, WrapSlot DEF IrqTxByte, WriteData
<1>7. CASE IrqTxEnd
  BY <1>7 DEF IrqTxEnd, WriteControl
<1>8. QED
  BY <1>1, <1>2, <1>3, <1>4, <1>5, <1>6, <1>7, Zenon DEF IrqStep

(* The timeout and the host touch nothing the types speak of.              *)
LEMMA OtherBase == Base /\ (Timeout \/ Host) => Base'
<1> SUFFICES ASSUME Base, Timeout \/ Host PROVE Base'
  OBVIOUS
<1> USE SlotNumbers DEF Base, Typed, CallOK
<1>1. CASE Timeout
  BY <1>1 DEF Timeout, WriteControl
<1>2. CASE Host
  BY <1>2 DEF Host, HostStep, HostTakes, HostSends, HostPauses, HostOpens,
     HostLeaves
<1>3. QED
  BY <1>1, <1>2

-----------------------------------------------------------------------------

\* Bytes wait in the transmit ring only with the interrupt on or before a kick.
TxArmed == tx_in # tx_out => we \/ pc \in {"wLook", "wCopy", "wPublish", "wKick"}

\* The reader is about to turn the receive interrupt on.
WillEnable == pc \in {"rPublish", "rEnable"} \/ (pc = "rLook" /\ moved > 0)

\* Where the handler has to find or leave a byte in the receive ring.
RxArmed == /\ ~re => rx_in # rx_out \/ WillEnable
           /\ pause_irq => rfifo # <<>>
           /\ rfifo \in Seq(Nat)
           /\ isr = "rx" => rx_in # rx_out \/ rfifo # <<>>
           /\ isr = "rxWord" => RxRoom /\ (rx_in # rx_out \/ valid)
           /\ isr = "rxEnd" => rx_in # rx_out

(* At the start both rings are empty and no interrupt is owed.             *)
LEMMA InitArmed == Init => TxArmed /\ RxArmed
  BY DEF Init, CoreInit, TxArmed, RxArmed

(* No step leaves a byte in the transmit ring without the write interrupt. *)
LEMMA TxArmedStep == TxArmed /\ [Next]_vars => TxArmed'
<1> SUFFICES ASSUME TxArmed, [Next]_vars PROVE TxArmed'
  OBVIOUS
<1> USE DEF TxArmed, At
<1>1. CASE WriteLook \/ WriteCopy \/ WritePublish
  BY <1>1 DEF WriteLook, WriteCopy, WritePublish
<1>2. CASE WriteKick
  BY <1>2 DEF WriteKick, Kick
<1>3. CASE WriteSpin \/ WriteCheck \/ CloseWait \/ Return
  BY <1>3 DEF WriteSpin, WriteCheck, CloseWait, Return
<1>4. CASE ReadLook \/ ReadCopy \/ ReadPublish \/ ReadSpin \/ ReadCheck \/ ReadEnable
  BY <1>4 DEF ReadLook, ReadCopy, ReadPublish, ReadSpin, ReadCheck, ReadEnable
<1>5. CASE NewCall
  BY <1>5 DEF NewCall, Write, Read, Close, SetTimeout
<1>6. CASE IrqEnter \/ IrqControl \/ IrqRxTake \/ IrqRxStore \/ IrqRxFull \/ IrqRxEnd
  BY <1>6 DEF IrqEnter, IrqControl, IrqRxTake, IrqRxStore, IrqRxFull, IrqRxEnd
<1>7. CASE IrqTxByte
  BY <1>7 DEF IrqTxByte
<1>8. CASE IrqTxEnd
  BY <1>8 DEF IrqTxEnd
<1>9. CASE Timeout \/ Host \/ UNCHANGED vars
  BY <1>9 DEF Timeout, Host, vars
<1>10. QED
  BY <1>1, <1>2, <1>3, <1>4, <1>5, <1>6, <1>7, <1>8, <1>9, Zenon
     DEF Next, CallStep, IrqStep

(* No step leaves the receive interrupt off with nothing to turn it on.    *)
LEMMA RxArmedStep == Base /\ RxArmed /\ [Next]_vars => RxArmed'
<1> SUFFICES ASSUME Base, RxArmed, [Next]_vars PROVE RxArmed'
  OBVIOUS
<1> USE DEF RxArmed, WillEnable, RxRoom, At
<1>1. CASE \/ WriteLook \/ WriteCopy \/ WritePublish \/ WriteSpin \/ WriteCheck
           \/ CloseWait
  BY <1>1 DEF WriteLook, WriteCopy, WritePublish, WriteSpin, WriteCheck,
     CloseWait
<1>2. CASE WriteKick
  BY <1>2 DEF WriteKick, Kick, WriteControl
<1>3. CASE Return
  BY <1>3 DEF Return
<1>4. CASE ReadLook
  <2>1. rx_in = rx_out => Stored(rx_in, rx_out) = 0
    BY SlotNumbers DEF Stored, Base, Typed
  <2>2. rx_in = rx_out => Min({Stored(rx_in, rx_out), left}) = 0
    BY <2>1, MinOfTwo DEF Base, Typed
  <2>3. rx_in = rx_out => n' = 0
    BY <1>4, <2>2, Zenon DEF ReadLook
  <2>4. rx_in = rx_out /\ moved > 0 => pc' = "rEnable"
    BY <1>4, <2>3 DEF ReadLook, AfterRead
  <2>5. QED
    BY <1>4, <2>4 DEF ReadLook
<1>5. CASE ReadCopy
  BY <1>5 DEF ReadCopy
<1>6. CASE ReadPublish
  BY <1>6 DEF ReadPublish, AfterRead, Base, Typed, CallOK
<1>7. CASE ReadSpin \/ ReadCheck
  BY <1>7 DEF ReadSpin, ReadCheck
<1>8. CASE ReadEnable
  BY <1>8 DEF ReadEnable, WriteControl
<1>9. CASE NewCall
  BY <1>9 DEF NewCall, Write, Read, Close, SetTimeout
<1>10. CASE IrqEnter
  BY <1>10 DEF IrqEnter
<1>11. CASE IrqControl
  <2>1. RI => rfifo # <<>>
    BY CoreAssumption DEF RI
  <2>2. QED
    BY <1>11, <2>1 DEF IrqControl
<1>12. CASE IrqRxTake
  <2>1. rfifo # <<>> => valid'
    BY <1>12, Zenon DEF IrqRxTake
  <2>2. rfifo' \in Seq(Nat) /\ pause_irq' = FALSE
    BY <1>12 DEF IrqRxTake, ReadData
  <2>3. isr' = "rxWord" /\ RxRoom /\ UNCHANGED <<rx_in, rx_out, re, pc, moved>>
    BY <1>12 DEF IrqRxTake
  <2>4. rx_in # rx_out \/ rfifo # <<>>
    BY <1>12 DEF IrqRxTake
  <2>5. QED
    BY <2>1, <2>2, <2>3, <2>4
<1>13. CASE IrqRxStore
  BY <1>13 DEF IrqRxStore
<1>14. CASE IrqRxFull
  <2>1. Wrap(rx_in + 1) # rx_in
    BY WrapOnce, SlotNumbers DEF Base, Typed
  <2>2. QED
    BY <1>14, <2>1 DEF IrqRxFull
<1>15. CASE IrqRxEnd
  BY <1>15 DEF IrqRxEnd, WriteControl
<1>16. CASE IrqTxByte
  BY <1>16 DEF IrqTxByte, WriteData
<1>17. CASE IrqTxEnd
  BY <1>17 DEF IrqTxEnd, WriteControl
<1>18. CASE Timeout
  BY <1>18 DEF Timeout, WriteControl
<1>19. CASE Host
  <2>1. UNCHANGED <<rx_in, rx_out, re, pc, moved, isr, valid>>
    BY <1>19 DEF Host
  <2>2. CASE HostSends
    BY <2>1, <2>2 DEF HostSends, Base, Typed
  <2>3. CASE HostPauses
    <3>1. pause_irq' => pause_irq \/ rfifo # <<>>
      BY <2>3, Zenon DEF HostPauses
    <3>2. QED
      BY <2>1, <2>3, <3>1 DEF HostPauses
  <2>4. CASE HostTakes \/ HostOpens \/ HostLeaves
    BY <2>1, <2>4 DEF HostTakes, HostOpens, HostLeaves
  <2>5. QED
    BY <1>19, <2>2, <2>3, <2>4 DEF Host, HostStep
<1>20. CASE UNCHANGED vars
  BY <1>20 DEF vars
<1>21. QED
  BY <1>1, <1>2, <1>3, <1>4, <1>5, <1>6, <1>7, <1>8, <1>9, <1>10, <1>11,
     <1>12, <1>13, <1>14, <1>15, <1>16, <1>17, <1>18, <1>19, <1>20, Zenon
     DEF Next, CallStep, IrqStep

-----------------------------------------------------------------------------
(* The transmit ring.                                                      *)

\* How far slot i is from index o, and what the ring holds.
Behind(i, o) == IF i >= o THEN i - o ELSE i - o + BUF_LEN
Pending      == Behind(tx_in, tx_out)
Drained      == Len(seen) + Len(wfifo)

\* The FIFO holds what follows the bytes the host has seen, and the handler's
\* count of its space is not too high.
FifoInv == /\ seen \in Seq(Nat) /\ wfifo \in Seq(Nat) /\ Len(wfifo) <= FIFO_LEN
           /\ \A i \in 1..Len(seen) : seen[i] = i
           /\ \A i \in 1..Len(wfifo) : wfifo[i] = Len(seen) + i
           /\ isr \in {"rx", "rxWord", "rxEnd", "tx"} =>
                  space \in Nat /\ space + Len(wfifo) <= FIFO_LEN
           /\ woverflow = FALSE

\* The ring holds what follows the FIFO, and what write() has copied behind it
\* fits.
RingInv == /\ accepted = Drained + Pending
           /\ tx_buf \in [Slot -> Nat]
           /\ \A i \in Slot : Behind(i, tx_out) < Pending =>
                  tx_buf[i] = Drained + 1 + Behind(i, tx_out)
           /\ pc \in {"wCopy", "wPublish"} =>
                  /\ in = tx_in /\ in + n <= BUF_LEN
                  /\ n <= BUF_LEN - 1 - Pending
           /\ pc = "wPublish" =>
                  \A i \in in .. in + n - 1 : tx_buf[i] = accepted + 1 + (i - in)

TxInv == Base /\ FifoInv /\ RingInv

(* The FIFO and the transmit ring start empty.                             *)
LEMMA InitTx == Init => FifoInv /\ RingInv
<1> SUFFICES ASSUME Init PROVE FifoInv /\ RingInv
  OBVIOUS
<1>1. FifoInv
  BY CoreAssumption DEF Init, CoreInit, FifoInv
<1>2. Drained = 0
  BY DEF Drained, Init, CoreInit
<1>3. RingInv
  BY <1>2, SlotNumbers DEF RingInv, Init, Pending, Behind
<1>4. QED
  BY <1>1, <1>3

(* The quantities of the transmit invariant are numbers.                   *)
LEMMA TxNumbers ==
    ASSUME TxInv
    PROVE  /\ Drained \in Nat /\ Pending \in 0 .. BUF_LEN - 1
           /\ accepted = Drained + Pending /\ accepted \in Nat
<1>1. Drained \in Nat
  <2>1. seen \in Seq(Nat) /\ wfifo \in Seq(Nat)
    BY DEF TxInv, FifoInv
  <2>2. QED
    BY <2>1 DEF Drained
<1>2. Pending \in 0 .. BUF_LEN - 1
  <2>1. tx_in \in Slot /\ tx_out \in Slot
    BY DEF TxInv, Base, Typed
  <2>2. QED
    BY <2>1, SlotNumbers DEF Pending, Behind
<1>3. accepted = Drained + Pending
  BY DEF TxInv, RingInv
<1>4. QED
  BY <1>1, <1>2, <1>3, SlotNumbers

(* The oldest byte of the ring is the next one of the stream.              *)
LEMMA RingHead ==
    ASSUME TxInv, tx_out # tx_in
    PROVE  tx_buf[tx_out] = Drained + 1
<1>1. Behind(tx_out, tx_out) = 0 /\ Pending > 0
  BY SlotNumbers DEF Behind, Pending, TxInv, Base, Typed
<1>2. Drained \in Nat
  BY DEF Drained, TxInv, FifoInv
<1>3. QED
  BY <1>1, <1>2, SlotNumbers DEF TxInv, RingInv, Base, Typed

(* No step puts more into the FIFO than it holds.                          *)
LEMMA FifoStep == TxInv /\ [Next]_vars => FifoInv'
<1> SUFFICES ASSUME TxInv, [Next]_vars PROVE FifoInv'
  OBVIOUS
<1> USE DEF FifoInv, TxInv
<1>1. CASE UNCHANGED <<seen, wfifo, woverflow, space, isr>>
  BY <1>1
<1>2. CASE CallStep \/ NewCall \/ Timeout \/ UNCHANGED vars
  <2>1. UNCHANGED <<seen, wfifo, woverflow, space, isr>>
    BY <1>2 DEF CallStep, WriteLook, WriteCopy, WritePublish, WriteKick, Kick,
       WriteSpin, WriteCheck, ReadLook, ReadCopy, ReadPublish, ReadSpin,
       ReadCheck, ReadEnable, CloseWait, Return, NewCall, Write, Read, Close,
       SetTimeout, Timeout, WriteControl, vars
  <2>2. QED
    BY <2>1, <1>1
<1>3. CASE IrqEnter
  BY <1>3 DEF IrqEnter
<1>4. CASE IrqControl
  BY <1>4, CoreAssumption DEF IrqControl, WSPACE
<1>5. CASE IrqRxTake \/ IrqRxStore \/ IrqRxFull
  BY <1>5 DEF IrqRxTake, IrqRxStore, IrqRxFull, ReadData
<1>6. CASE IrqRxEnd
  BY <1>6 DEF IrqRxEnd, WriteControl
<1>7. CASE IrqTxByte
  <2>1. tx_buf[tx_out] = Len(seen) + Len(wfifo) + 1 /\ tx_buf[tx_out] \in Nat
    BY <1>7, RingHead DEF IrqTxByte, Drained, RingInv, Base, Typed
  <2>2. Len(wfifo) # FIFO_LEN /\ space > 0 /\ isr = "tx"
    BY <1>7, CoreAssumption DEF IrqTxByte
  <2>3. /\ wfifo' = Append(wfifo, tx_buf[tx_out]) /\ woverflow' = FALSE
        /\ seen' = seen /\ isr' = isr /\ space' = space - 1
    BY <1>7, <2>2 DEF IrqTxByte, WriteData
  <2> DEFINE b == tx_buf[tx_out]
  <2>4. b \in Nat /\ b = Len(seen) + Len(wfifo) + 1
    BY <2>1
  <2>5. /\ wfifo' = Append(wfifo, b) /\ wfifo' \in Seq(Nat)
        /\ Len(wfifo') = Len(wfifo) + 1
    BY <2>3, <2>4
  <2> HIDE DEF b
  <2>6. ASSUME NEW i \in 1..Len(wfifo') PROVE wfifo'[i] = Len(seen) + i
    <3>1. CASE i = Len(wfifo) + 1
      BY <2>4, <2>5, <3>1
    <3>2. CASE i \in 1..Len(wfifo)
      <4>1. wfifo'[i] = wfifo[i]
        BY <2>4, <2>5, <3>2
      <4>2. QED
        BY <4>1, <3>2
    <3>3. QED
      BY <2>5, <3>1, <3>2
  <2>7. space' \in Nat /\ space' + Len(wfifo') <= FIFO_LEN
    BY <2>2, <2>3, <2>5, CoreAssumption
  <2>8. QED
    BY <2>2, <2>3, <2>5, <2>6, <2>7, CoreAssumption
<1>8. CASE IrqTxEnd
  BY <1>8 DEF IrqTxEnd, WriteControl
<1>9. CASE Host
  <2>1. CASE HostTakes
    <3>1. /\ wfifo # <<>> /\ seen' = Append(seen, Head(wfifo))
          /\ wfifo' = Tail(wfifo) /\ UNCHANGED <<woverflow, isr, space>>
      BY <1>9, <2>1 DEF Host, HostTakes
    <3>2. Head(wfifo) = Len(seen) + 1
      BY <3>1
    <3>3. QED
      BY <3>1, <3>2, CoreAssumption
  <2>2. CASE HostSends \/ HostPauses \/ HostOpens \/ HostLeaves
    BY <1>9, <2>2 DEF Host, HostSends, HostPauses, HostOpens, HostLeaves
  <2>3. QED
    BY <1>9, <2>1, <2>2 DEF Host, HostStep
<1>10. QED
  BY <1>2, <1>3, <1>4, <1>5, <1>6, <1>7, <1>8, <1>9, Zenon DEF Next, IrqStep

(* Only the handler's transmit loop takes bytes out of the ring.           *)
LEMMA DrainedStep ==
    ASSUME TxInv, [Next]_vars
    PROVE  Drained' = IF IrqTxByte THEN Drained + 1 ELSE Drained
<1> USE DEF Drained
<1>1. seen \in Seq(Nat) /\ wfifo \in Seq(Nat)
  BY DEF TxInv, FifoInv
<1>2. CASE IrqTxByte
  <2>1. tx_buf[tx_out] \in Nat
    BY DEF TxInv, RingInv, Base, Typed
  <2>2. Len(wfifo) # FIFO_LEN
    BY <1>1, <1>2, CoreAssumption DEF IrqTxByte, TxInv, FifoInv
  <2>3. wfifo' = Append(wfifo, tx_buf[tx_out]) /\ seen' = seen
    BY <1>2, <2>2 DEF IrqTxByte, WriteData
  <2>4. QED
    BY <1>1, <1>2, <2>1, <2>3
<1>3. CASE Host /\ HostTakes
  <2>1. /\ wfifo # <<>> /\ seen' = Append(seen, Head(wfifo))
        /\ wfifo' = Tail(wfifo) /\ isr' = isr /\ tx_out' = tx_out /\ tx_in' = tx_in
    BY <1>3 DEF Host, HostTakes
  <2>2. ~IrqTxByte
    <3>1. space' = space
      BY <1>3 DEF Host
    <3>2. ~(space' = space - 1 /\ space > 0 /\ isr = "tx")
      BY <3>1 DEF TxInv, FifoInv
    <3>3. QED
      BY <3>2 DEF IrqTxByte
  <2>3. QED
    BY <1>1, <2>1, <2>2
<1>4. CASE ~IrqTxByte /\ ~(Host /\ HostTakes)
  <2>1. UNCHANGED <<seen, wfifo>>
    BY <1>4, Zenon DEF Next, CallStep, WriteLook, WriteCopy, WritePublish, WriteKick, Kick,
       WriteSpin, WriteCheck, ReadLook, ReadCopy, ReadPublish, ReadSpin,
       ReadCheck, ReadEnable, CloseWait, Return, NewCall, Write, Read, Close,
       SetTimeout, Timeout, WriteControl, vars, IrqStep, IrqEnter, IrqControl,
       IrqRxTake, IrqRxStore, IrqRxFull, IrqRxEnd, IrqTxEnd, ReadData, Host,
       HostStep, HostSends, HostPauses, HostOpens, HostLeaves
  <2>2. QED
    BY <1>4, <2>1
<1>5. QED
  BY <1>2, <1>3, <1>4

\* The ring and what has been copied behind it, left alone by a step.
RingFrame == /\ UNCHANGED <<tx_in, tx_out, tx_buf, accepted, in, n>>
             /\ pc' \in {"wCopy", "wPublish"} => pc' = pc

(* Steps that leave the ring alone keep its invariant.                     *)
LEMMA RingFrames ==
    ASSUME TxInv, RingFrame, Drained' = Drained
    PROVE  RingInv'
<1>1. Pending' = Pending
  BY DEF RingFrame, Pending, Behind
<1>2. \A i \in Slot : Behind(i, tx_out)' = Behind(i, tx_out)
  BY DEF RingFrame, Behind
<1>3. QED
  BY <1>1, <1>2 DEF RingFrame, TxInv, RingInv

(* The same for a step that leads out of the copying part of write().      *)
LEMMA RingAway ==
    ASSUME TxInv, UNCHANGED <<tx_in, tx_out, tx_buf, accepted>>,
           pc' \notin {"wCopy", "wPublish"}, Drained' = Drained
    PROVE  RingInv'
<1>1. Pending' = Pending /\ \A i \in Slot : Behind(i, tx_out)' = Behind(i, tx_out)
  BY DEF Pending, Behind
<1>2. QED
  BY <1>1 DEF TxInv, RingInv

(* write() finds room for the bytes it copies: behind the ring, before the
   next wrap and with a slot to spare.                                     *)
LEMMA LookRing ==
    ASSUME TxInv, WriteLook, Drained' = Drained
    PROVE  RingInv'
<1> DEFINE k == Min({Room(tx_in, tx_out), left})
<1>1. Room(tx_in, tx_out) \in Nat /\ left \in Nat
  BY SlotNumbers DEF TxInv, Base, Typed, Room
<1>2. k \in Nat /\ k <= Room(tx_in, tx_out)
  BY <1>1, MinOfTwo
<1>3. /\ in' = tx_in /\ n' = k /\ pc' \in {"wCopy", "wKick"}
      /\ UNCHANGED <<tx_in, tx_out, tx_buf, accepted>>
  BY DEF WriteLook
<1> HIDE DEF k
<1>4. Pending' = Pending /\ \A i \in Slot : Behind(i, tx_out)' = Behind(i, tx_out)
  BY <1>3 DEF Pending, Behind
<1>5. tx_in + k <= BUF_LEN /\ k <= BUF_LEN - 1 - Pending
  BY <1>2, SlotNumbers DEF Pending, Behind, Room, TxInv, Base, Typed
<1>6. QED
  BY <1>3, <1>4, <1>5 DEF TxInv, RingInv

(* The copy does not touch a byte that is still to be sent.                *)
LEMMA CopyRing ==
    ASSUME TxInv, WriteCopy, Drained' = Drained
    PROVE  RingInv'
<1> USE SlotNumbers DEF TxInv, Base, Typed, CallOK
<1>1. pc = "wCopy" /\ pc' = "wPublish"
  BY DEF WriteCopy, At
<1>2. UNCHANGED <<tx_in, tx_out, accepted, in, n>>
  BY DEF WriteCopy
<1>3. Pending' = Pending /\ \A i \in Slot : Behind(i, tx_out)' = Behind(i, tx_out)
  BY <1>2 DEF Pending, Behind
<1>4. accepted \in Nat /\ Drained \in Nat /\ Pending \in Nat
  BY TxNumbers
<1>5. /\ in = tx_in /\ in + n <= BUF_LEN /\ n <= BUF_LEN - 1 - Pending
  BY <1>1 DEF RingInv
<1>6. tx_buf' = [i \in Slot |-> IF i \in in .. in + n - 1
                                THEN accepted + 1 + (i - in) ELSE tx_buf[i]]
  BY DEF WriteCopy
<1>7. tx_buf' \in [Slot -> Nat]
  BY <1>4, <1>6 DEF RingInv
<1>8. \A i \in Slot : Behind(i, tx_out) < Pending => i \notin in .. in + n - 1
  BY <1>5 DEF Behind, Pending
<1>9. \A i \in Slot : Behind(i, tx_out) < Pending => tx_buf'[i] = tx_buf[i]
  BY <1>6, <1>8
<1>10. \A i \in in .. in + n - 1 : i \in Slot
  BY <1>5 DEF Slot
<1>11. \A i \in in .. in + n - 1 : tx_buf'[i] = accepted + 1 + (i - in)
  BY <1>6, <1>10
<1>12. QED
  BY <1>1, <1>2, <1>3, <1>5, <1>7, <1>9, <1>11 DEF RingInv

(* The new tx_in puts exactly the copied bytes at the end of the ring.     *)
LEMMA PublishRing ==
    ASSUME TxInv, WritePublish, Drained' = Drained
    PROVE  RingInv'
<1> USE SlotNumbers DEF TxInv, Base, Typed, CallOK
<1>1. pc = "wPublish" /\ pc' = "wLook"
  BY DEF WritePublish, At
<1>2. /\ UNCHANGED <<tx_out, tx_buf>> /\ accepted' = accepted + n
      /\ tx_in' = Wrap(in + n)
  BY DEF WritePublish
<1>3. /\ in = tx_in /\ in + n <= BUF_LEN /\ n <= BUF_LEN - 1 - Pending
      /\ \A i \in in .. in + n - 1 : tx_buf[i] = accepted + 1 + (i - in)
  BY <1>1 DEF RingInv
<1>4. tx_in' = IF tx_in + n < BUF_LEN THEN tx_in + n ELSE 0
  BY <1>2, <1>3, WrapOnce
<1>5. Pending' = Pending + n /\ \A i \in Slot : Behind(i, tx_out)' = Behind(i, tx_out)
  BY <1>2, <1>3, <1>4 DEF Pending, Behind
<1>6. accepted = Drained + Pending /\ Drained \in Nat /\ Pending \in Nat
  BY TxNumbers
<1>7. ASSUME NEW i \in Slot, Behind(i, tx_out) < Pending + n
      PROVE  tx_buf[i] = Drained + 1 + Behind(i, tx_out)
  <2>1. CASE Behind(i, tx_out) < Pending
    BY <2>1 DEF RingInv
  <2>2. CASE ~(Behind(i, tx_out) < Pending)
    <3>1. i \in in .. in + n - 1 /\ Behind(i, tx_out) = Pending + (i - in)
      BY <1>3, <1>7, <2>2 DEF Behind, Pending
    <3>2. QED
      BY <1>3, <1>6, <3>1
  <2>3. QED
    BY <2>1, <2>2
<1>8. QED
  <2>1. accepted' = Drained' + Pending'
    BY <1>2, <1>3, <1>5, <1>6
  <2>2. tx_buf' \in [Slot -> Nat]
    BY <1>2 DEF RingInv
  <2>3. \A i \in Slot : Behind(i, tx_out)' < Pending' =>
            tx_buf'[i] = Drained' + 1 + Behind(i, tx_out)'
    BY <1>2, <1>5, <1>7
  <2>4. QED
    BY <1>1, <2>1, <2>2, <2>3 DEF RingInv

(* The byte the handler sends is the one at tx_out and no other.           *)
LEMMA SendRing ==
    ASSUME TxInv, IrqTxByte, Drained' = Drained + 1
    PROVE  RingInv'
<1> USE SlotNumbers DEF TxInv, Base, Typed
<1>1. UNCHANGED <<tx_in, tx_buf, accepted, in, n, pc>> /\ tx_out' = Wrap(tx_out + 1)
  BY DEF IrqTxByte
<1>2. tx_out' = IF tx_out + 1 < BUF_LEN THEN tx_out + 1 ELSE 0
  BY <1>1, WrapOnce
<1>3. Pending' = Pending - 1 /\ Pending \in Nat /\ Pending > 0
  BY <1>1, <1>2 DEF Pending, Behind, IrqTxByte
<1>4. Drained \in Nat
  BY DEF Drained, FifoInv
<1>5. ASSUME NEW i \in Slot, Behind(i, tx_out)' < Pending - 1
      PROVE  /\ Behind(i, tx_out) < Pending
             /\ Behind(i, tx_out)' = Behind(i, tx_out) - 1
             /\ Behind(i, tx_out) \in Nat
  <2>1. i # tx_out
    BY <1>1, <1>2, <1>3, <1>5 DEF Behind, Pending
  <2>2. Behind(i, tx_out)' = Behind(i, tx_out) - 1
    BY <1>2, <2>1 DEF Behind
  <2>3. Behind(i, tx_out) \in Nat
    BY DEF Behind
  <2>4. QED
    BY <1>3, <1>5, <2>2, <2>3
<1>6. ASSUME NEW i \in Slot, Behind(i, tx_out)' < Pending'
      PROVE  tx_buf'[i] = Drained' + 1 + Behind(i, tx_out)'
  <2>1. tx_buf[i] = Drained + 1 + Behind(i, tx_out)
    BY <1>3, <1>5, <1>6 DEF RingInv
  <2>2. QED
    BY <1>1, <1>3, <1>4, <1>5, <1>6, <2>1
<1>7. accepted' = Drained' + Pending'
  BY <1>1, <1>3, <1>4 DEF RingInv
<1>8. QED
  BY <1>1, <1>3, <1>6, <1>7 DEF RingInv

(* Every step keeps the ring's contents in order.                          *)
LEMMA RingStep == TxInv /\ [Next]_vars => RingInv'
<1> SUFFICES ASSUME TxInv, [Next]_vars PROVE RingInv'
  OBVIOUS
<1>1. CASE IrqTxByte
  BY <1>1, DrainedStep, SendRing
<1>2. CASE ~IrqTxByte
  <2>1. Drained' = Drained
    BY <1>2, DrainedStep
  <2>2. CASE WriteLook
    BY <2>1, <2>2, LookRing
  <2>3. CASE WriteCopy
    BY <2>1, <2>3, CopyRing
  <2>4. CASE WritePublish
    BY <2>1, <2>4, PublishRing
  <2>5. CASE WriteKick \/ WriteSpin \/ WriteCheck
    <3>1. RingFrame
      BY <2>5 DEF RingFrame, WriteKick, Kick, WriteSpin, WriteCheck
    <3>2. QED
      BY <2>1, <3>1, RingFrames
  <2>6. CASE ReadLook \/ ReadCopy \/ ReadPublish \/ ReadSpin \/ ReadCheck \/ ReadEnable
    <3>1. /\ UNCHANGED <<tx_in, tx_out, tx_buf, accepted>>
          /\ pc' \notin {"wCopy", "wPublish"}
      BY <2>6 DEF ReadLook, ReadCopy, ReadPublish, ReadSpin, ReadCheck,
         ReadEnable, AfterRead
    <3>2. QED
      BY <2>1, <3>1, RingAway
  <2>7. CASE CloseWait \/ Return \/ NewCall
    <3>1. /\ UNCHANGED <<tx_in, tx_out, tx_buf, accepted>>
          /\ pc' \notin {"wCopy", "wPublish"}
      BY <2>7 DEF CloseWait, Return, NewCall, Write, Read, Close, SetTimeout, At
    <3>2. QED
      BY <2>1, <3>1, RingAway
  <2>8. CASE IrqStep \/ Timeout \/ Host \/ UNCHANGED vars
    <3>1. RingFrame
      BY <1>2, <2>8 DEF RingFrame, IrqStep, IrqEnter, IrqControl, IrqRxTake,
         IrqRxStore, IrqRxFull, IrqRxEnd, IrqTxEnd, Timeout, Host, vars
    <3>2. QED
      BY <2>1, <3>1, RingFrames
  <2>9. QED
    BY <2>2, <2>3, <2>4, <2>5, <2>6, <2>7, <2>8, Zenon DEF Next, CallStep
<1>3. QED
  BY <1>1, <1>2

(* The two halves together: the inductive invariant of the transmit path.  *)
LEMMA BaseStep == Base /\ [Next]_vars => Base'
<1>1. Base /\ UNCHANGED vars => Base'
  BY DEF Base, Typed, CallOK, vars
<1>2. QED
  BY <1>1, CallStepBase, NewCallBase, IrqStepBase, OtherBase, Zenon DEF Next

LEMMA TxInvariant == Spec => []TxInv
<1>1. Init => TxInv
  BY InitBase, InitTx DEF TxInv
<1>2. TxInv /\ [Next]_vars => TxInv'
  BY BaseStep, FifoStep, RingStep DEF TxInv
<1>3. QED
  BY <1>1, <1>2, PTL DEF Spec

(* The handler never overflows the FIFO, for any FIFO, ring and threshold. *)
THEOREM NeverOverflows == Spec => []NoOverflow
<1>1. TxInv => NoOverflow
  BY DEF TxInv, FifoInv, NoOverflow
<1>2. QED
  BY <1>1, TxInvariant, PTL

(* No byte in the transmit ring is left without the write interrupt.       *)
LEMMA TxStaysArmed == Spec => []PendingTxArmed
<1>1. TxArmed => PendingTxArmed
  BY DEF TxArmed, PendingTxArmed
<1>2. QED
  BY <1>1, InitArmed, TxArmedStep, PTL DEF Spec

(* The receive interrupt is never left off with nothing to turn it on.     *)
LEMMA RxWakes == Spec => []MaskedRxWakes
<1>1. Base /\ RxArmed => MaskedRxWakes
  BY DEF RxArmed, MaskedRxWakes, WillEnable
<1>2. Spec => [](Base /\ RxArmed)
  <2>1. Init => Base /\ RxArmed
    BY InitBase, InitArmed
  <2>2. Base /\ RxArmed /\ [Next]_vars => (Base /\ RxArmed)'
    BY BaseStep, RxArmedStep
  <2>3. QED
    BY <2>1, <2>2, PTL DEF Spec
<1>3. QED
  BY <1>1, <1>2, PTL

\* The core has the enables the driver believes it has, and what made a loop
\* spin is still in its locals: a ring with no room, or with no byte.
SpinInv == /\ ien_AE = we /\ ien_AF = re
           /\ pc = "wSpin" \/ (pc = "wKick" /\ left > 0) =>
                  in = tx_in /\ Room(in, out) = 0
           /\ pc = "rSpin" => in = out /\ out = rx_out

(* No step changes an enable in one place only, or what a loop waits on but
   the index itself.                                                       *)
LEMMA SpinStep == Base /\ SpinInv /\ [Next]_vars => SpinInv'
<1> SUFFICES ASSUME Base, SpinInv, [Next]_vars PROVE SpinInv'
  OBVIOUS
<1> USE DEF SpinInv, At, WriteControl
<1>1. CASE WriteLook
  <2>1. Room(tx_in, tx_out) \in Nat /\ left \in Nat
    BY SlotNumbers DEF Room, Base, Typed
  <2>2. Min({Room(tx_in, tx_out), left}) = 0 /\ left > 0 => Room(tx_in, tx_out) = 0
    BY <2>1, MinOfTwo
  <2>3. /\ in' = tx_in /\ out' = tx_out /\ tx_in' = tx_in /\ left' = left
        /\ pc' \in {"wKick", "wCopy"}
        /\ pc' = "wKick" => Min({Room(tx_in, tx_out), left}) = 0
        /\ UNCHANGED <<ien_AE, ien_AF, re, we>>
    BY <1>1 DEF WriteLook, coreVars
  <2>4. Room(in', out') = Room(tx_in, tx_out)
    BY <2>3
  <2>5. QED
    BY <2>2, <2>3, <2>4
<1>2. CASE ReadLook
  <2>1. Stored(rx_in, rx_out) \in Nat /\ left \in Nat
        /\ (Stored(rx_in, rx_out) = 0 => rx_in = rx_out)
    BY SlotNumbers DEF Stored, Base, Typed
  <2>2. pc = "rLook" /\ left > 0
    BY <1>2 DEF ReadLook, Base, CallOK
  <2>3. Min({Stored(rx_in, rx_out), left}) = 0 => rx_in = rx_out
    BY <2>1, <2>2, MinOfTwo
  <2>4. /\ in' = rx_in /\ out' = rx_out /\ rx_out' = rx_out
        /\ pc' \in {"rEnable", "return", "rSpin", "rCopy"}
        /\ pc' = "rSpin" => Min({Stored(rx_in, rx_out), left}) = 0
        /\ UNCHANGED <<ien_AE, ien_AF, re, we>>
    BY <1>2 DEF ReadLook, AfterRead
  <2>5. QED
    BY <2>3, <2>4
<1>3. CASE WriteCopy \/ WritePublish \/ WriteSpin \/ WriteCheck \/ CloseWait \/ Return
  BY <1>3 DEF WriteCopy, WritePublish, WriteSpin, WriteCheck, CloseWait, Return
<1>4. CASE WriteKick
  <2>1. left \in Nat /\ (left # 0 => left > 0)
    BY DEF Base, Typed
  <2>2. QED
    BY <1>4, <2>1 DEF WriteKick, Kick
<1>5. CASE ReadPublish
  <2>1. moved + n > 0
    BY <1>5 DEF ReadPublish, Base, Typed, CallOK
  <2>2. QED
    BY <1>5, <2>1 DEF ReadPublish, AfterRead
<1>6. CASE ReadCopy \/ ReadSpin \/ ReadCheck \/ ReadEnable
  BY <1>6 DEF ReadCopy, ReadSpin, ReadCheck, ReadEnable
<1>7. CASE NewCall
  BY <1>7 DEF NewCall, Write, Read, Close, SetTimeout
<1>8. CASE IrqEnter \/ IrqControl \/ IrqRxTake \/ IrqRxStore \/ IrqRxFull
  BY <1>8 DEF IrqEnter, IrqControl, IrqRxTake, IrqRxStore, IrqRxFull, ReadData
<1>9. CASE IrqRxEnd \/ IrqTxByte \/ IrqTxEnd
  BY <1>9 DEF IrqRxEnd, IrqTxByte, IrqTxEnd, WriteData
<1>10. CASE Timeout \/ UNCHANGED vars
  BY <1>10 DEF Timeout, vars
<1>11. CASE Host
  BY <1>11 DEF Host, HostStep, HostTakes, HostSends, HostPauses, HostOpens,
     HostLeaves
<1>12. QED
  BY <1>1, <1>2, <1>3, <1>4, <1>5, <1>6, <1>7, <1>8, <1>9, <1>10, <1>11, Zenon
     DEF Next, CallStep, IrqStep

(* A loop that waits for an index is woken: the ring it found full is still
   full and armed, or the one it found empty still empty.                  *)
LEMMA SpinnersStayAwake == Spec => []SpinnersWake
<1>1. ASSUME Base, TxArmed, RxArmed, SpinInv PROVE SpinnersWake
  <2>1. ASSUME pc = "wSpin", tx_out = out PROVE ien_AE
    <3>1. tx_in # tx_out
      BY <1>1, <2>1, SlotNumbers DEF SpinInv, Room, Base, Typed
    <3>2. we
      BY <1>1, <2>1, <3>1 DEF TxArmed
    <3>3. QED
      BY <1>1, <3>2 DEF SpinInv
  <2>2. ASSUME pc = "rSpin", rx_in = in PROVE ien_AF
    <3>1. rx_in = rx_out
      BY <1>1, <2>2 DEF SpinInv
    <3>2. re
      BY <1>1, <2>2, <3>1 DEF RxArmed, WillEnable
    <3>3. QED
      BY <1>1, <3>2 DEF SpinInv
  <2>3. QED
    BY <2>1, <2>2 DEF SpinnersWake
<1>2. Init => SpinInv
  BY DEF Init, CoreInit, SpinInv
<1>3. QED
  BY <1>1, <1>2, InitBase, InitArmed, BaseStep, TxArmedStep, RxArmedStep,
     SpinStep, PTL DEF Spec

(* Both directions keep the interrupt that wakes them, and so does a call that
   spins, whatever program and handler write to the word of both enables.  *)
THEOREM BothStayArmed == Spec => []InterruptsArmed
<1>1. PendingTxArmed /\ MaskedRxWakes /\ SpinnersWake => InterruptsArmed
  BY DEF InterruptsArmed
<1>2. QED
  BY <1>1, TxStaysArmed, RxWakes, SpinnersStayAwake, PTL

(* Every step of the driver, the handler, the timer and the host is a call
   of the channel's writer, of its reader, or neither.                     *)
LEMMA TxSteps ==
    ASSUME TxInv, TxInv', [Next]_vars
    PROVE  [Tx!Put \/ Tx!Get]_<<accepted, seen>>
<1>1. CASE WritePublish
  <2>1. accepted' = accepted + n /\ seen' = seen /\ n \in 1 .. BUF_LEN
    BY <1>1 DEF WritePublish, At, TxInv, Base, Typed, CallOK
  <2>2. n \in 1 .. BUF_LEN - 1
    <3>1. n <= BUF_LEN - 1 - Pending
      BY <1>1 DEF WritePublish, At, TxInv, RingInv
    <3>2. QED
      BY <2>1, <3>1, TxNumbers, SlotNumbers
  <2>3. accepted' = Len(seen') + Len(wfifo') + Pending'
    BY DEF TxInv, RingInv, Drained
  <2>4. Pending' <= BUF_LEN - 1 /\ Pending' \in Nat
    BY SlotNumbers DEF TxInv, Base, Typed, Pending, Behind
  <2>5. Len(wfifo') <= FIFO_LEN /\ Len(wfifo') \in Nat /\ Len(seen') \in Nat
    BY DEF TxInv, FifoInv
  <2>6. accepted' - Len(seen) <= BUF_LEN - 1 + FIFO_LEN
    BY <2>1, <2>3, <2>4, <2>5, SlotNumbers, CoreAssumption
  <2>7. n \in 1 .. BUF_LEN - 1 + FIFO_LEN
    BY <2>2, SlotNumbers, CoreAssumption
  <2>8. QED
    BY <2>1, <2>6, <2>7 DEF Tx!Put
<1>2. CASE Host /\ HostTakes
  <2>1. /\ wfifo # <<>> /\ seen' = Append(seen, Head(wfifo))
        /\ accepted' = accepted
    BY <1>2 DEF Host, HostTakes
  <2>2. Head(wfifo) = Len(seen) + 1 /\ seen \in Seq(Nat) /\ Len(wfifo) > 0
    BY <2>1 DEF TxInv, FifoInv
  <2>3. seen' = seen \o [i \in 1 .. 1 |-> Len(seen) + i]
    BY <2>1, <2>2
  <2>4. 1 \in 1 .. (accepted - Len(seen))
    <3>1. Len(wfifo) \in Nat /\ Len(seen) \in Nat
      BY DEF TxInv, FifoInv
    <3>2. accepted = Len(seen) + Len(wfifo) + Pending /\ Pending \in Nat
      BY TxNumbers, SlotNumbers DEF Drained
    <3>3. QED
      BY <2>2, <3>1, <3>2
  <2>5. QED
    BY <2>1, <2>3, <2>4 DEF Tx!Get
<1>3. CASE ~WritePublish /\ ~(Host /\ HostTakes)
  <2>1. UNCHANGED <<accepted, seen>>
    BY <1>3, Zenon DEF Next, CallStep, WriteLook, WriteCopy, WriteKick, Kick,
       WriteSpin, WriteCheck, ReadLook, ReadCopy, ReadPublish, ReadSpin,
       ReadCheck, ReadEnable, CloseWait, Return, NewCall, Write, Read, Close,
       SetTimeout, Timeout, WriteControl, vars, IrqStep, IrqEnter, IrqControl,
       IrqRxTake, IrqRxStore, IrqRxFull, IrqRxEnd, IrqTxByte, IrqTxEnd,
       ReadData, WriteData, Host, HostStep, HostSends, HostPauses, HostOpens,
       HostLeaves
  <2>2. QED
    BY <2>1, Zenon
<1>4. QED
  BY <1>1, <1>2, <1>3

(* The transmit path of the driver and the core is a first-in first-out
   channel of BUF_LEN - 1 + FIFO_LEN bytes.                                *)
THEOREM TransmitIsChannel == Spec => ImplementsTx
<1>1. Init => Tx!Init
  BY DEF Init, CoreInit, Tx!Init
<1>2. TxInv /\ TxInv' /\ [Next]_vars => [Tx!Put \/ Tx!Get]_<<accepted, seen>>
  BY TxSteps
<1>3. QED
  BY <1>1, <1>2, TxInvariant, PTL DEF Spec, ImplementsTx, Tx!Spec

\* Sequence s is the part of the stream after its first d bytes.
Follows(s, d) == s \in Seq(Nat) /\ \A i \in 1..Len(s) : s[i] = d + i

(* Parts of the stream that meet make a part of the stream.                *)
LEMMA FollowsConcat ==
    ASSUME NEW s, NEW t, NEW d \in Nat, Follows(s, d), Follows(t, d + Len(s))
    PROVE  Follows(s \o t, d) /\ Len(s \o t) = Len(s) + Len(t)
<1>1. s \in Seq(Nat) /\ t \in Seq(Nat)
  BY DEF Follows
<1>2. /\ s \o t \in Seq(Nat) /\ Len(s \o t) = Len(s) + Len(t)
      /\ \A i \in 1 .. Len(s) + Len(t) :
             (s \o t)[i] = IF i <= Len(s) THEN s[i] ELSE t[i - Len(s)]
  BY <1>1, ConcatProperties, Zenon
<1> DEFINE both == s \o t
<1> HIDE DEF both
<1>3. ASSUME NEW i \in 1..Len(both) PROVE both[i] = d + i
  <2>1. both[i] = IF i <= Len(s) THEN s[i] ELSE t[i - Len(s)]
    BY <1>2 DEF both
  <2>2. CASE i <= Len(s)
    BY <1>1, <2>1, <2>2 DEF Follows
  <2>3. CASE i > Len(s)
    <3>1. i - Len(s) \in 1..Len(t)
      BY <1>1, <1>2, <2>3 DEF both
    <3>2. t[i - Len(s)] = d + Len(s) + (i - Len(s))
      BY <3>1 DEF Follows
    <3>3. QED
      BY <1>1, <2>1, <2>3, <3>2
  <2>4. QED
    BY <1>1, <2>2, <2>3
<1>4. QED
  BY <1>2, <1>3 DEF both, Follows

(* A part that starts at the first byte is all there is up to its end.     *)
LEMMA FollowsStart == ASSUME NEW s, Follows(s, 0) PROVE s = Upto(Len(s))
<1>1. s \in Seq(Nat) /\ \A i \in 1..Len(s) : s[i] = i
  BY DEF Follows
<1>2. /\ Upto(Len(s)) \in Seq(Nat) /\ Len(Upto(Len(s))) = Len(s)
      /\ \A i \in 1..Len(s) : Upto(Len(s))[i] = i
  BY <1>1 DEF Upto
<1>3. QED
  BY <1>1, <1>2, SeqEqual

(* A ring whose slots are in order holds a part of the stream, read from
   its first index on.                                                     *)
LEMMA RingFollows ==
    ASSUME NEW buf, NEW o \in Slot, NEW i \in Slot, NEW d \in Nat,
           \A j \in Slot : Behind(j, o) < Behind(i, o) =>
               buf[j] = d + 1 + Behind(j, o)
    PROVE  Follows(Ring(buf, o, i), d) /\ Len(Ring(buf, o, i)) = Behind(i, o)
<1> USE SlotNumbers
<1> DEFINE held == Behind(i, o)
<1>1. held \in 0 .. BUF_LEN - 1
  BY DEF Behind
<1>2. Wrap(i + BUF_LEN - o) = held
  BY WrapOnce DEF Behind
<1> HIDE DEF held
<1>3. ASSUME NEW k \in 1..held PROVE buf[Wrap(o + k - 1)] = d + k
  <2>1. o + k - 1 \in 0..(2 * BUF_LEN - 1)
    BY <1>1
  <2> DEFINE j == Wrap(o + k - 1)
  <2>2. j \in Slot /\ j = IF o + k - 1 < BUF_LEN THEN o + k - 1
                          ELSE o + k - 1 - BUF_LEN
    BY <2>1, WrapOnce, WrapSlot
  <2> HIDE DEF j
  <2>3. Behind(j, o) = k - 1
    BY <1>1, <2>2 DEF Behind
  <2>4. buf[j] = d + 1 + Behind(j, o)
    BY <1>1, <2>2, <2>3 DEF held
  <2>5. buf[j] = d + k
    BY <1>1, <2>3, <2>4
  <2>6. QED
    BY <2>5 DEF j
<1>4. Ring(buf, o, i) = [k \in 1..held |-> d + k]
  BY <1>2, <1>3 DEF Ring
<1>5. QED
  BY <1>1, <1>4 DEF Follows, held

(* Nothing is lost, doubled or reordered on the way to the host.           *)
THEOREM TransmitConserves == Spec => []TxConserved
<1>1. ASSUME TxInv PROVE TxConserved
  <2> DEFINE ring == Ring(tx_buf, tx_out, tx_in)
  <2>1. /\ Drained \in Nat /\ Pending \in Nat
        /\ accepted = Drained + Pending
    BY <1>1, TxNumbers, SlotNumbers
  <2>2. Follows(seen, 0) /\ Follows(wfifo, 0 + Len(seen))
    BY <1>1 DEF TxInv, FifoInv, Follows
  <2>3. Follows(seen \o wfifo, 0) /\ Len(seen \o wfifo) = Drained
    BY <2>2, FollowsConcat DEF Drained
  <2>4. Follows(ring, 0 + Len(seen \o wfifo)) /\ Len(ring) = Pending
    <3>1. Follows(ring, Drained) /\ Len(ring) = Pending
      BY <1>1, <2>1, RingFollows DEF TxInv, RingInv, Base, Typed, Pending
    <3>2. 0 + Len(seen \o wfifo) = Drained
      BY <2>1, <2>3
    <3>3. QED
      BY <3>1, <3>2, Zenon
  <2> HIDE DEF ring
  <2>5. /\ Follows((seen \o wfifo) \o ring, 0)
        /\ Len((seen \o wfifo) \o ring) = accepted
    BY <2>1, <2>3, <2>4, FollowsConcat
  <2>6. QED
    BY <2>5, FollowsStart, Zenon DEF TxConserved, ring
<1>2. QED
  BY <1>1, TxInvariant, PTL

-----------------------------------------------------------------------------
(* The receive path.                                                       *)

\* What the ring holds, the byte in the handler's hand, and the bytes that
\* have left the ring: read() copies first and moves rx_out after.
Stock == Behind(rx_in, rx_out)
Hand  == IF valid THEN 1 ELSE 0
Given == IF pc = "rPublish" THEN Len(got) - n ELSE Len(got)

\* Every byte is where its position in the stream says, and what read() copies
\* is in the ring and lies before the wrap.
RxInv == /\ got \in Seq(Nat) /\ rfifo \in Seq(Nat) /\ Given \in Nat
         /\ rx_buf \in [Slot -> Nat] /\ valid \in BOOLEAN
         /\ sent = Given + Stock + Hand + Len(rfifo)
         /\ \A i \in 1..Len(got) : got[i] = i
         /\ \A i \in Slot : Behind(i, rx_out) < Stock =>
                rx_buf[i] = Given + 1 + Behind(i, rx_out)
         /\ valid => isr = "rxWord" /\ RxRoom /\ byte = Given + Stock + 1
         /\ \A i \in 1..Len(rfifo) : rfifo[i] = Given + Stock + Hand + i
         /\ pc \in {"rCopy", "rPublish"} =>
                out = rx_out /\ out + n <= BUF_LEN /\ n <= Stock

(* The FIFO, the handler's hand and the receive ring start empty.          *)
LEMMA InitRx == Init => RxInv
<1> SUFFICES ASSUME Init PROVE RxInv
  OBVIOUS
<1>1. Stock = 0 /\ Hand = 0 /\ Given = 0
  BY SlotNumbers DEF Init, Stock, Behind, Hand, Given
<1>2. \A i \in Slot : Behind(i, rx_out) >= 0
  BY SlotNumbers DEF Init, Behind
<1>3. QED
  BY <1>1, <1>2, SlotNumbers DEF RxInv, Init, CoreInit

(* The quantities of the receive invariant are numbers.                    *)
LEMMA RxNumbers ==
    ASSUME Base
    PROVE  /\ Stock \in 0 .. BUF_LEN - 1 /\ Hand \in {0, 1}
           /\ \A i \in Slot : Behind(i, rx_out) \in 0 .. BUF_LEN - 1
  BY SlotNumbers DEF Stock, Behind, Hand, Base, Typed

\* A step away from the receive path.
RxFrame == /\ UNCHANGED <<rx_in, rx_out, rx_buf, got, rfifo, sent, valid>>
           /\ valid => UNCHANGED <<isr, byte>>
           /\ pc' = pc \/ {pc, pc'} \cap {"rCopy", "rPublish"} = {}
           /\ pc \in {"rCopy", "rPublish"} => UNCHANGED <<out, n>>

(* Such a step keeps the invariant.                                        *)
LEMMA RxFrames == ASSUME RxInv, RxFrame PROVE RxInv'
<1>1. Stock' = Stock /\ Hand' = Hand /\ Given' = Given
  BY DEF RxFrame, Stock, Behind, Hand, Given
<1>2. \A i \in Slot : Behind(i, rx_out)' = Behind(i, rx_out)
  BY DEF RxFrame, Behind
<1>3. RxRoom' = RxRoom
  BY DEF RxFrame, RxRoom, Wrap
<1>4. QED
  BY <1>1, <1>2, <1>3 DEF RxInv, RxFrame

(* No handler has a byte in its hand while the program runs.               *)
LEMMA EmptyHand == RxInv /\ isr # "rxWord" => ~valid /\ Hand = 0
  BY DEF RxInv, Hand

(* read() finds as many bytes as it copies: in the ring, before its wrap.  *)
LEMMA LookRx == ASSUME Base, RxInv, ReadLook PROVE RxInv'
<1> DEFINE k == Min({Stored(rx_in, rx_out), left})
<1>1. Stored(rx_in, rx_out) \in Nat /\ left \in Nat
  BY SlotNumbers DEF Base, Typed, Stored
<1>2. k \in Nat /\ k <= Stored(rx_in, rx_out)
  BY <1>1, MinOfTwo
<1>3. /\ out' = rx_out /\ n' = k /\ pc = "rLook" /\ pc' # "rPublish"
      /\ UNCHANGED <<rx_in, rx_out, rx_buf, got, rfifo, sent, valid, byte, isr>>
  BY DEF ReadLook, AfterRead, At
<1> HIDE DEF k
<1>4. Stock' = Stock /\ Hand' = Hand /\ Given' = Given
  BY <1>3 DEF Stock, Behind, Hand, Given
<1>5. \A i \in Slot : Behind(i, rx_out)' = Behind(i, rx_out)
  BY <1>3 DEF Behind
<1>6. RxRoom' = RxRoom
  BY <1>3 DEF RxRoom, Wrap
<1>7. rx_out + k <= BUF_LEN /\ k <= Stock
  BY <1>2, SlotNumbers DEF Base, Typed, Stored, Stock, Behind
<1>8. QED
  BY <1>3, <1>4, <1>5, <1>6, <1>7 DEF RxInv

(* The copy takes the oldest bytes of the ring, in order.                  *)
LEMMA CopyRx == ASSUME Base, RxInv, ReadCopy PROVE RxInv'
<1> USE SlotNumbers DEF Base, Typed
<1>1. pc = "rCopy" /\ pc' = "rPublish" /\ isr = "idle"
  BY DEF ReadCopy, At
<1>2. UNCHANGED <<rx_in, rx_out, rx_buf, rfifo, sent, valid, byte, isr, out, n>>
  BY DEF ReadCopy
<1>3. Stock' = Stock /\ Hand' = Hand /\ ~valid
      /\ \A i \in Slot : Behind(i, rx_out)' = Behind(i, rx_out)
  BY <1>1, <1>2, EmptyHand DEF Stock, Behind, Hand
<1>4. /\ out = rx_out /\ out + n <= BUF_LEN /\ n <= Stock
      /\ Given = Len(got) /\ Given \in Nat /\ got \in Seq(Nat)
  BY <1>1 DEF RxInv, Given
<1> DEFINE taken == [k \in 1..n |-> rx_buf[out + k - 1]]
<1>5. ASSUME NEW k \in 1..n PROVE rx_buf[out + k - 1] = Given + k
  <2>1. out + k - 1 \in Slot /\ Behind(out + k - 1, rx_out) = k - 1
    BY <1>4 DEF Behind, Slot
  <2>2. k - 1 < Stock
    BY <1>4, RxNumbers
  <2>3. QED
    BY <1>4, <2>1, <2>2 DEF RxInv
<1>6. taken \in Seq(Nat) /\ Len(taken) = n /\ \A k \in 1..n : taken[k] = Given + k
  BY <1>4, <1>5
<1>7. got' = got \o taken
  BY DEF ReadCopy
<1> HIDE DEF taken
<1>8. /\ got' \in Seq(Nat) /\ Len(got') = Len(got) + n
      /\ \A i \in 1 .. Len(got) + n :
             got'[i] = IF i <= Len(got) THEN got[i] ELSE taken[i - Len(got)]
  BY <1>4, <1>6, <1>7, ConcatProperties, Zenon
<1>9. ASSUME NEW i \in 1..Len(got') PROVE got'[i] = i
  <2>1. CASE i <= Len(got)
    BY <1>4, <1>8, <2>1 DEF RxInv
  <2>2. CASE i > Len(got)
    <3>1. i - Len(got) \in 1..n
      BY <1>4, <1>8, <2>2
    <3>2. taken[i - Len(got)] = Given + (i - Len(got))
      BY <1>6, <3>1
    <3>3. QED
      BY <1>4, <1>8, <2>2, <3>2
  <2>3. QED
    BY <1>4, <1>8, <2>1, <2>2
<1>10. Given' = Given
  BY <1>1, <1>2, <1>4, <1>8 DEF Given
<1>11. QED
  BY <1>1, <1>2, <1>3, <1>4, <1>8, <1>9, <1>10 DEF RxInv

(* The new rx_out gives back exactly the slots that were copied.           *)
LEMMA PublishRx == ASSUME Base, RxInv, ReadPublish PROVE RxInv'
<1> USE SlotNumbers DEF Base, Typed
<1>1. pc = "rPublish" /\ pc' \notin {"rCopy", "rPublish"} /\ isr = "idle"
  BY DEF ReadPublish, At, AfterRead
<1>2. /\ UNCHANGED <<rx_in, rx_buf, got, rfifo, sent, valid, byte, isr>>
      /\ rx_out' = Wrap(out + n)
  BY DEF ReadPublish
<1>3. ~valid /\ Hand = 0 /\ Hand' = 0
  BY <1>1, <1>2, EmptyHand DEF Hand
<1>4. out = rx_out /\ out + n <= BUF_LEN /\ n <= Stock
  BY <1>1 DEF RxInv
<1>5. Given' = Given + n /\ Given \in Nat
  <2>1. Given = Len(got) - n /\ Given' = Len(got) /\ got \in Seq(Nat)
    BY <1>1, <1>2 DEF Given, RxInv
  <2>2. QED
    BY <2>1 DEF RxInv
<1>6. rx_out' = IF rx_out + n < BUF_LEN THEN rx_out + n ELSE 0
  BY <1>2, <1>4, WrapOnce
<1>7. Stock' = Stock - n /\ Stock \in 0 .. BUF_LEN - 1
  BY <1>2, <1>4, <1>6 DEF Stock, Behind
<1>8. ASSUME NEW i \in Slot, Behind(i, rx_out)' < Stock'
      PROVE  /\ Behind(i, rx_out) < Stock
             /\ Behind(i, rx_out)' = Behind(i, rx_out) - n
             /\ Behind(i, rx_out) \in Nat
  BY <1>2, <1>4, <1>6, <1>7, <1>8 DEF Behind, Stock
<1>9. ASSUME NEW i \in Slot, Behind(i, rx_out)' < Stock'
      PROVE  rx_buf'[i] = Given' + 1 + Behind(i, rx_out)'
  <2>1. rx_buf[i] = Given + 1 + Behind(i, rx_out)
    BY <1>8, <1>9 DEF RxInv
  <2>2. QED
    BY <1>2, <1>4, <1>5, <1>8, <1>9, <2>1
<1>10. Given' + Stock' = Given + Stock /\ Given' \in Nat
  BY <1>4, <1>5, <1>7
<1>11. QED
  BY <1>1, <1>2, <1>3, <1>9, <1>10 DEF RxInv

(* The handler takes the byte that follows what the ring holds.            *)
LEMMA TakeRx == ASSUME Base, RxInv, IrqRxTake PROVE RxInv'
<1>1. /\ UNCHANGED <<rx_in, rx_out, rx_buf, got, sent, pc, out, n>>
      /\ isr = "rx" /\ isr' = "rxWord" /\ RxRoom /\ RxRoom'
  <2>1. UNCHANGED <<rx_in, rx_out, rx_buf, got, sent, pc, out, n>>
    BY DEF IrqRxTake, ReadData
  <2>2. RxRoom' = RxRoom
    BY <2>1 DEF RxRoom, Wrap
  <2>3. QED
    BY <2>1, <2>2 DEF IrqRxTake
<1>2. Stock' = Stock /\ Given' = Given /\ ~valid /\ Hand = 0
      /\ \A i \in Slot : Behind(i, rx_out)' = Behind(i, rx_out)
  BY <1>1, EmptyHand DEF Stock, Behind, Given
<1>3. Stock \in Nat /\ Given \in Nat /\ rfifo \in Seq(Nat)
  BY RxNumbers DEF RxInv
<1>4. CASE rfifo = <<>>
  <2>1. rfifo' = <<>> /\ valid' = FALSE
    BY <1>4 DEF IrqRxTake, ReadData
  <2>2. Hand' = 0
    BY <2>1 DEF Hand
  <2>3. QED
    BY <1>1, <1>2, <1>4, <2>1, <2>2 DEF RxInv
<1>5. CASE rfifo # <<>>
  <2>1. rfifo' = Tail(rfifo) /\ valid' = TRUE /\ byte' = Head(rfifo)
    BY <1>5 DEF IrqRxTake, ReadData
  <2>2. Hand' = 1
    BY <2>1 DEF Hand
  <2>3. /\ Head(rfifo) = Given + Stock + 1 /\ Len(rfifo) = Len(rfifo') + 1
        /\ rfifo' \in Seq(Nat)
    BY <1>2, <1>3, <1>5, <2>1 DEF RxInv
  <2>4. \A i \in 1..Len(rfifo') : rfifo'[i] = Given + Stock + 1 + i
    BY <1>2, <1>3, <1>5, <2>1, <2>3 DEF RxInv
  <2>5. sent' = Given' + Stock' + Hand' + Len(rfifo')
    BY <1>1, <1>2, <1>3, <2>2, <2>3 DEF RxInv
  <2>6. QED
    BY <1>1, <1>2, <2>1, <2>2, <2>3, <2>4, <2>5 DEF RxInv
<1>6. QED
  BY <1>4, <1>5

(* It stores it at the end of the ring, over no byte that is to be read.   *)
LEMMA StoreRx == ASSUME Base, RxInv, IrqRxStore, valid PROVE RxInv'
<1> USE SlotNumbers DEF Base, Typed
<1>1. /\ UNCHANGED <<rx_out, got, rfifo, sent, pc, out, n>>
      /\ rx_buf' = [rx_buf EXCEPT ![rx_in] = byte]
      /\ rx_in' = Wrap(rx_in + 1) /\ valid' = FALSE
  BY DEF IrqRxStore
<1>2. Given' = Given /\ Given \in Nat /\ Hand = 1 /\ Hand' = 0
      /\ \A i \in Slot : Behind(i, rx_out)' = Behind(i, rx_out)
  BY <1>1 DEF Given, Hand, Behind, RxInv
<1>3. /\ rx_in' = IF rx_in + 1 < BUF_LEN THEN rx_in + 1 ELSE 0
      /\ rx_in' # rx_out
  <2>1. RxRoom
    BY DEF RxInv
  <2>2. rx_in \in Nat /\ rx_in < BUF_LEN /\ rx_in + 1 \in 0..(2 * BUF_LEN - 1)
    OBVIOUS
  <2>3. Wrap(rx_in + 1) = IF rx_in + 1 < BUF_LEN THEN rx_in + 1 ELSE 0
    BY <2>2, WrapOnce
  <2>4. QED
    BY <1>1, <2>1, <2>3 DEF RxRoom
<1>4. Stock' = Stock + 1 /\ Stock \in Nat
  BY <1>1, <1>3 DEF Stock, Behind
<1>5. byte = Given + Stock + 1
  BY DEF RxInv
<1>6. rx_buf' \in [Slot -> Nat]
  BY <1>1, <1>2, <1>4, <1>5 DEF RxInv
<1>7. ASSUME NEW i \in Slot, Behind(i, rx_out)' < Stock'
      PROVE  rx_buf'[i] = Given' + 1 + Behind(i, rx_out)'
  <2>1. CASE i = rx_in
    BY <1>1, <1>2, <1>4, <1>5, <2>1 DEF Stock, RxInv
  <2>2. CASE i # rx_in
    <3>1. rx_buf'[i] = rx_buf[i]
      BY <1>1, <2>2 DEF RxInv
    <3>2. Behind(i, rx_out) < Stock
      BY <1>2, <1>4, <1>7, <2>2 DEF Stock, Behind
    <3>3. QED
      BY <1>2, <3>1, <3>2 DEF RxInv
  <2>3. QED
    BY <2>1, <2>2
<1>8. Given' + Stock' + Hand' = Given + Stock + Hand
  BY <1>2, <1>4
<1>9. pc \in {"rCopy", "rPublish"} => out = rx_out /\ out + n <= BUF_LEN /\ n <= Stock'
  BY <1>4 DEF RxInv
<1>10. QED
  BY <1>1, <1>2, <1>6, <1>7, <1>8, <1>9 DEF RxInv

(* The host adds the next byte of its stream at the end of the FIFO.       *)
LEMMA SendsRx == ASSUME Base, RxInv, Host, HostSends PROVE RxInv'
<1>1. /\ UNCHANGED <<rx_in, rx_out, rx_buf, got, valid, byte, isr, pc, out, n>>
      /\ rfifo' = Append(rfifo, sent + 1) /\ sent' = sent + 1
  BY DEF Host, HostSends
<1>2. Stock' = Stock /\ Given' = Given /\ Hand' = Hand
      /\ \A i \in Slot : Behind(i, rx_out)' = Behind(i, rx_out)
  BY <1>1 DEF Stock, Behind, Given, Hand
<1>3. RxRoom' = RxRoom
  BY <1>1 DEF RxRoom, Wrap
<1>4. /\ Given \in Nat /\ Stock \in Nat /\ Hand \in Nat /\ sent \in Nat
      /\ rfifo \in Seq(Nat) /\ sent = Given + Stock + Hand + Len(rfifo)
  <2>1. sent \in Nat
    BY DEF Base, Typed
  <2>2. QED
    BY <2>1, RxNumbers DEF RxInv
<1>5. rfifo' \in Seq(Nat) /\ Len(rfifo') = Len(rfifo) + 1
  BY <1>1, <1>4
<1>6. ASSUME NEW i \in 1..Len(rfifo')
      PROVE  rfifo'[i] = Given + Stock + Hand + i
  <2>1. CASE i = Len(rfifo) + 1
    BY <1>1, <1>4, <2>1
  <2>2. CASE i \in 1..Len(rfifo)
    <3>1. rfifo'[i] = rfifo[i]
      BY <1>1, <1>4, <2>2
    <3>2. QED
      BY <2>2, <3>1 DEF RxInv
  <2>3. QED
    BY <1>5, <2>1, <2>2
<1>7. sent' = Given' + Stock' + Hand' + Len(rfifo')
  BY <1>1, <1>2, <1>4, <1>5
<1>8. QED
  BY <1>1, <1>2, <1>3, <1>5, <1>6, <1>7 DEF RxInv

(* Every step keeps every byte in its place.                               *)
LEMMA RxStep == Base /\ RxInv /\ [Next]_vars => RxInv'
<1> SUFFICES ASSUME Base, RxInv, [Next]_vars PROVE RxInv'
  OBVIOUS
<1> USE DEF RxFrame, At
<1>1. CASE ReadLook \/ ReadCopy \/ ReadPublish
  BY <1>1, LookRx, CopyRx, PublishRx
<1>2. CASE IrqRxTake
  BY <1>2, TakeRx
<1>3. CASE IrqRxStore
  <2>1. CASE valid
    BY <1>3, <2>1, StoreRx
  <2>2. CASE ~valid
    <3>1. RxFrame
      BY <1>3, <2>2 DEF IrqRxStore, RxInv
    <3>2. QED
      BY <3>1, RxFrames
  <2>3. QED
    BY <2>1, <2>2
<1>4. CASE Host
  <2>1. CASE HostSends
    BY <1>4, <2>1, SendsRx
  <2>2. CASE HostTakes \/ HostPauses \/ HostOpens \/ HostLeaves
    <3>1. RxFrame
      BY <1>4, <2>2 DEF Host, HostTakes, HostPauses, HostOpens, HostLeaves
    <3>2. QED
      BY <3>1, RxFrames
  <2>3. QED
    BY <1>4, <2>1, <2>2 DEF Host, HostStep
<1>5. CASE \/ WriteLook \/ WriteCopy \/ WritePublish \/ WriteKick \/ WriteSpin
           \/ WriteCheck \/ ReadSpin \/ ReadCheck \/ ReadEnable \/ CloseWait
           \/ Return
  <2>1. RxFrame
    BY <1>5, EmptyHand DEF WriteLook, WriteCopy, WritePublish, WriteKick, Kick,
       WriteSpin, WriteCheck, ReadSpin, ReadCheck, ReadEnable, CloseWait,
       Return, WriteControl
  <2>2. QED
    BY <2>1, RxFrames
<1>6. CASE NewCall \/ Timeout \/ UNCHANGED vars
  <2>1. RxFrame
    BY <1>6 DEF NewCall, Write, Read, Close, SetTimeout, Timeout, WriteControl,
       vars
  <2>2. QED
    BY <2>1, RxFrames
<1>7. CASE IrqEnter \/ IrqControl \/ IrqRxFull \/ IrqRxEnd \/ IrqTxByte \/ IrqTxEnd
  <2>1. valid = FALSE /\ valid' = FALSE
    BY <1>7, EmptyHand DEF RxInv, IrqEnter, IrqControl, IrqRxFull, IrqRxEnd,
       IrqTxByte, IrqTxEnd
  <2>2. RxFrame
    BY <1>7, <2>1 DEF IrqEnter, IrqControl, IrqRxFull, IrqRxEnd, IrqTxByte,
       IrqTxEnd, WriteControl, WriteData
  <2>3. QED
    BY <2>2, RxFrames
<1>8. QED
  BY <1>1, <1>2, <1>3, <1>4, <1>5, <1>6, <1>7, Zenon
     DEF Next, CallStep, IrqStep

\* What the driver has taken from the core and not yet given to the program.
Waiting == sent - Len(rfifo) - Len(got)

(* It fits in the ring, with the byte that is in the handler's hand.       *)
LEMMA WaitingFits == Base /\ RxInv => Waiting <= BUF_LEN - 1
<1> SUFFICES ASSUME Base, RxInv PROVE Waiting <= BUF_LEN - 1
  OBVIOUS
<1>1. /\ sent = Given + Stock + Hand + Len(rfifo) /\ Given \in Nat
      /\ Len(got) \in Nat /\ Given <= Len(got) /\ Len(rfifo) \in Nat
  BY DEF RxInv, Given, Base, Typed
<1>2. Stock \in 0 .. BUF_LEN - 1 /\ Hand \in {0, 1}
  BY RxNumbers
<1>3. Stock + Hand <= BUF_LEN - 1
  <2>1. CASE valid
    <3>1. rx_in \in Slot /\ rx_out \in Slot /\ Wrap(rx_in + 1) # rx_out
      BY <2>1 DEF RxInv, RxRoom, Base, Typed
    <3>2. Wrap(rx_in + 1) = IF rx_in + 1 < BUF_LEN THEN rx_in + 1 ELSE 0
      BY <3>1, SlotNumbers, WrapOnce
    <3>3. Stock < BUF_LEN - 1
      BY <3>1, <3>2, SlotNumbers DEF Stock, Behind
    <3>4. QED
      BY <1>2, <3>3, SlotNumbers
  <2>2. CASE ~valid
    BY <1>2, <2>2, SlotNumbers DEF Hand
  <2>3. QED
    BY <2>1, <2>2
<1>4. QED
  BY <1>1, <1>2, <1>3, SlotNumbers DEF Waiting

(* Every step is a call of the receive channel's writer, which is the host,
   of its reader, which is the copy in read(), or neither.                 *)
LEMMA RxSteps ==
    ASSUME Base, RxInv, Waiting' <= BUF_LEN - 1, [Next]_vars
    PROVE  [Rx!Put \/ Rx!Get]_<<sent, got>>
<1>1. CASE Host /\ HostSends
  <2>1. /\ sent' = sent + 1 /\ got' = got /\ Len(rfifo) < FIFO_LEN
        /\ rfifo' = Append(rfifo, sent + 1)
    BY <1>1 DEF Host, HostSends
  <2>2. rfifo \in Seq(Nat) /\ sent \in Nat /\ Len(got) \in Nat
    BY DEF RxInv, Base, Typed
  <2>3. Len(rfifo') = Len(rfifo) + 1 /\ Len(rfifo') <= FIFO_LEN
    BY <2>1, <2>2, CoreAssumption
  <2>4. sent' - Len(rfifo') - Len(got) <= BUF_LEN - 1
    BY <2>1 DEF Waiting
  <2>5. sent' - Len(got) <= BUF_LEN - 1 + FIFO_LEN
    BY <2>1, <2>2, <2>3, <2>4, SlotNumbers, CoreAssumption
  <2>6. 1 \in 1 .. BUF_LEN - 1 + FIFO_LEN
    BY SlotNumbers, CoreAssumption
  <2>7. QED
    BY <2>1, <2>5, <2>6 DEF Rx!Put
<1>2. CASE ReadCopy
  <2>1. /\ pc = "rCopy" /\ isr = "idle" /\ sent' = sent
        /\ got' = got \o [k \in 1..n |-> rx_buf[out + k - 1]]
    BY <1>2 DEF ReadCopy, At
  <2>2. /\ out = rx_out /\ out + n <= BUF_LEN /\ n <= Stock
        /\ Given = Len(got) /\ Len(got) \in Nat
        /\ n \in 1 .. BUF_LEN /\ rx_out \in Slot
    BY <2>1 DEF RxInv, Given, Base, Typed, CallOK
  <2>3. ASSUME NEW k \in 1..n PROVE rx_buf[out + k - 1] = Len(got) + k
    <3>1. out + k - 1 \in Slot /\ Behind(out + k - 1, rx_out) = k - 1
      BY <2>2, SlotNumbers DEF Behind, Slot
    <3>2. k - 1 < Stock
      BY <2>2, RxNumbers
    <3>3. rx_buf[out + k - 1] = Given + 1 + (k - 1)
      BY <3>1, <3>2 DEF RxInv
    <3>4. QED
      BY <2>2, <3>3
  <2>4. got' = got \o [k \in 1..n |-> Len(got) + k]
    BY <2>1, <2>3
  <2>5. n \in 1 .. (sent - Len(got))
    <3>1. sent = Len(got) + Stock + Hand + Len(rfifo) /\ rfifo \in Seq(Nat)
      BY <2>2 DEF RxInv
    <3>2. Stock \in Nat /\ Hand \in Nat /\ Len(rfifo) \in Nat
      BY <3>1, RxNumbers
    <3>3. QED
      BY <2>2, <3>1, <3>2
  <2>6. QED
    BY <2>1, <2>4, <2>5 DEF Rx!Get
<1>3. CASE ~ReadCopy /\ ~(Host /\ HostSends)
  <2>1. UNCHANGED <<sent, got>>
    BY <1>3, Zenon DEF Next, CallStep, WriteLook, WriteCopy, WritePublish,
       WriteKick, Kick, WriteSpin, WriteCheck, ReadLook, ReadPublish, ReadSpin,
       ReadCheck, ReadEnable, CloseWait, Return, NewCall, Write, Read, Close,
       SetTimeout, Timeout, WriteControl, vars, IrqStep, IrqEnter, IrqControl,
       IrqRxTake, IrqRxStore, IrqRxFull, IrqRxEnd, IrqTxByte, IrqTxEnd,
       ReadData, WriteData, Host, HostStep, HostTakes, HostPauses, HostOpens,
       HostLeaves
  <2>2. QED
    BY <2>1, Zenon
<1>4. QED
  BY <1>1, <1>2, <1>3

(* The receive path of the core and the driver is a first-in first-out
   channel of BUF_LEN - 1 + FIFO_LEN bytes.                                *)
THEOREM ReceiveIsChannel == Spec => ImplementsRx
<1>1. Init => Rx!Init
  BY DEF Init, CoreInit, Rx!Init
<1>2. Base /\ RxInv /\ (Waiting <= BUF_LEN - 1)' /\ [Next]_vars
        => [Rx!Put \/ Rx!Get]_<<sent, got>>
  BY RxSteps
<1>3. QED
  BY <1>1, <1>2, WaitingFits, InitBase, InitRx, BaseStep, RxStep, PTL
     DEF Spec, ImplementsRx, Rx!Spec

(* Nothing is lost, doubled or reordered on the way to the program.        *)
THEOREM ReceiveConserves == Spec => []RxConserved
<1>1. ASSUME Base, RxInv PROVE RxConserved
  <2> DEFINE from == IF pc = "rPublish" THEN Wrap(rx_out + n) ELSE rx_out
             copied == Len(got) - Given
             ring == Ring(rx_buf, from, rx_in)
             hand == IF valid THEN <<byte>> ELSE <<>>
  <2>1. /\ got \in Seq(Nat) /\ Given \in Nat /\ Stock \in 0 .. BUF_LEN - 1
        /\ copied \in 0..Stock /\ from = Wrap(rx_out + copied)
        /\ rx_out + copied <= BUF_LEN
    <3>1. got \in Seq(Nat) /\ Given \in Nat /\ Stock \in 0 .. BUF_LEN - 1
      BY <1>1, RxNumbers DEF RxInv
    <3>2. CASE pc = "rPublish"
      <4>1. out = rx_out /\ out + n <= BUF_LEN /\ n <= Stock /\ n \in Nat
        BY <1>1, <3>2, SlotNumbers DEF RxInv, Base, Typed
      <4>2. copied = n
        BY <3>1, <3>2, <4>1 DEF Given
      <4>3. QED
        BY <3>1, <3>2, <4>1, <4>2
    <3>3. CASE pc # "rPublish"
      <4>1. copied = 0
        BY <3>1, <3>3 DEF Given
      <4>2. rx_out \in Slot /\ Wrap(rx_out + 0) = rx_out
        BY <1>1, WrapOnce, SlotNumbers DEF Base, Typed
      <4>3. QED
        BY <3>1, <3>3, <4>1, <4>2, SlotNumbers
    <3>4. QED
      BY <3>2, <3>3
  <2> HIDE DEF from, copied
  <2>2. rx_in \in Slot /\ rx_out \in Slot
    BY <1>1 DEF Base, Typed
  <2>3. /\ from = IF rx_out + copied < BUF_LEN THEN rx_out + copied ELSE 0
        /\ from \in Slot
    BY <2>1, <2>2, WrapOnce, WrapSlot, SlotNumbers
  <2>4. Behind(rx_in, from) = Stock - copied
    BY <2>1, <2>2, <2>3, SlotNumbers DEF Behind, Stock
  <2>5. ASSUME NEW j \in Slot, Behind(j, from) < Stock - copied
        PROVE  rx_buf[j] = Len(got) + 1 + Behind(j, from)
    <3>1. /\ Behind(j, rx_out) = Behind(j, from) + copied
          /\ Behind(j, from) \in Nat /\ Behind(j, rx_out) < Stock
      <4>1. /\ copied \in Nat /\ copied <= Stock /\ Stock <= BUF_LEN - 1
            /\ rx_out + copied <= BUF_LEN
        BY <2>1, SlotNumbers
      <4>2. CASE rx_out + copied < BUF_LEN
        BY <2>2, <2>3, <2>5, <4>1, <4>2, SlotNumbers DEF Behind, Stock
      <4>3. CASE rx_out + copied = BUF_LEN
        BY <2>2, <2>3, <2>5, <4>1, <4>3, SlotNumbers DEF Behind, Stock
      <4>4. QED
        BY <2>2, <4>1, <4>2, <4>3, SlotNumbers
    <3>2. rx_buf[j] = Given + 1 + Behind(j, rx_out)
      BY <1>1, <3>1 DEF RxInv
    <3>3. Len(got) = Given + copied /\ Len(got) \in Nat
      BY <2>1 DEF copied
    <3>4. QED
      BY <2>1, <3>1, <3>2, <3>3
  <2>6. Follows(got, 0) /\ Len(got) \in Nat
    BY <1>1, <2>1 DEF RxInv, Follows
  <2>7. Follows(ring, 0 + Len(got)) /\ Len(ring) = Stock - copied
    <3>1. Follows(ring, Len(got)) /\ Len(ring) = Behind(rx_in, from)
      BY <2>2, <2>3, <2>4, <2>5, <2>6, RingFollows
    <3>2. 0 + Len(got) = Len(got)
      BY <2>6
    <3>3. QED
      BY <2>4, <3>1, <3>2, Zenon
  <2> HIDE DEF ring
  <2>8. /\ Follows(got \o ring, 0) /\ Len(got \o ring) = Given + Stock
    <3>1. Follows(got \o ring, 0) /\ Len(got \o ring) = Len(got) + Len(ring)
      BY <2>6, <2>7, FollowsConcat
    <3>2. QED
      BY <2>1, <2>6, <2>7, <3>1 DEF copied
  <2>9. Follows(hand, 0 + Len(got \o ring)) /\ Len(hand) = Hand
    BY <1>1, <2>1, <2>8 DEF RxInv, Hand, Follows
  <2> HIDE DEF hand
  <2> DEFINE most == (got \o ring) \o hand
  <2>10. Follows(most, 0) /\ Len(most) = Given + Stock + Hand
    BY <2>8, <2>9, FollowsConcat
  <2> HIDE DEF most
  <2>11. Follows(rfifo, 0 + Len(most))
    BY <1>1, <2>1, <2>10, RxNumbers DEF RxInv, Follows
  <2>12. Follows(most \o rfifo, 0) /\ Len(most \o rfifo) = sent
    BY <1>1, <2>10, <2>11, FollowsConcat DEF RxInv
  <2>13. QED
    BY <2>12, FollowsStart, Zenon DEF RxConserved, most, from, ring, hand
<1>2. Init => Base /\ RxInv
  BY InitBase, InitRx
<1>3. Base /\ RxInv /\ [Next]_vars => (Base /\ RxInv)'
  BY BaseStep, RxStep
<1>4. QED
  BY <1>1, <1>2, <1>3, PTL DEF Spec

-----------------------------------------------------------------------------
(* The polled driver, which has the same core and no ring.                 *)

VARIABLE put

Polled == INSTANCE JtagUartPolled

\* write() writes into the space it has seen, which only it takes.
PolledInv == /\ put \in Nat /\ sent \in Nat
             /\ Follows(seen, 0) /\ Follows(wfifo, Len(seen))
             /\ Len(seen) + Len(wfifo) = put
             /\ Follows(got, 0) /\ Follows(rfifo, Len(got))
             /\ Len(got) + Len(rfifo) = sent
             /\ Len(wfifo) <= FIFO_LEN
             /\ pc = "wPut" => Len(wfifo) < FIFO_LEN

\* The next byte, at the end.
LEMMA FollowsAppend ==
    ASSUME NEW s, NEW d \in Nat, Follows(s, d)
    PROVE  /\ Follows(Append(s, d + Len(s) + 1), d) /\ Len(s) \in Nat
           /\ Len(Append(s, d + Len(s) + 1)) = Len(s) + 1
BY DEF Follows

\* The oldest byte, from one buffer into the next.
LEMMA FollowsMoves ==
    ASSUME NEW s, NEW t, Follows(s, 0), Follows(t, Len(s)), t # <<>>
    PROVE  /\ Follows(Append(s, Head(t)), 0)
           /\ Follows(Tail(t), Len(Append(s, Head(t))))
           /\ Len(Append(s, Head(t))) + Len(Tail(t)) = Len(s) + Len(t)
<1>1. /\ t \in Seq(Nat) /\ s \in Seq(Nat) /\ Len(t) \in Nat \ {0} /\ Len(s) \in Nat
      /\ Head(t) = t[1] /\ t[1] = Len(s) + 1
  BY DEF Follows
<1>2. Follows(Append(s, Head(t)), 0) /\ Len(Append(s, Head(t))) = Len(s) + 1
  BY <1>1, FollowsAppend
<1>3. /\ Tail(t) \in Seq(Nat) /\ Len(Tail(t)) = Len(t) - 1
      /\ \A i \in 1..Len(Tail(t)) : Tail(t)[i] = t[i + 1]
  BY <1>1
<1>4. Follows(Tail(t), Len(s) + 1)
  <2>1. ASSUME NEW i \in 1..Len(Tail(t)) PROVE Tail(t)[i] = Len(s) + 1 + i
    <3>1. i + 1 \in 1..Len(t) /\ Tail(t)[i] = t[i + 1]
      BY <1>1, <1>3
    <3>2. t[i + 1] = Len(s) + (i + 1)
      BY <3>1 DEF Follows
    <3>3. QED
      BY <1>1, <3>1, <3>2
  <2>2. QED
    BY <1>3, <2>1 DEF Follows
<1>5. QED
  BY <1>1, <1>2, <1>3, <1>4

LEMMA PolledInit == Polled!Init => PolledInv
BY CoreAssumption DEF Polled!Init, Polled!CoreInit, PolledInv, Follows

LEMMA PolledNext == PolledInv /\ [Polled!Next]_Polled!vars => PolledInv'
<1> SUFFICES ASSUME PolledInv, [Polled!Next]_Polled!vars PROVE PolledInv'
  OBVIOUS
<1> USE DEF PolledInv
<1>1. CASE Polled!WritePoll
  BY <1>1, CoreAssumption DEF Polled!WritePoll, Polled!CanWrite, Polled!WSPACE, Polled!Return,
     Polled!coreVars, Follows
<1>2. CASE Polled!WritePut
  <2>1. /\ pc = "wPut" /\ wfifo' = Append(wfifo, put + 1) /\ put' = put + 1
        /\ UNCHANGED <<seen, got, rfifo, sent>> /\ pc' = "wPoll"
    BY <1>2 DEF Polled!WritePut, Polled!WriteData
  <2>2. /\ Follows(wfifo', Len(seen)) /\ Len(wfifo') = Len(wfifo) + 1
    <3>1. Len(seen) \in Nat
      BY DEF Follows
    <3>2. QED
      BY <2>1, <3>1, FollowsAppend
  <2>3. Len(wfifo) \in Nat /\ Len(seen) \in Nat /\ FIFO_LEN \in Nat
    BY CoreAssumption DEF Follows
  <2>4. QED
    BY <2>1, <2>2, <2>3
<1>3. CASE Polled!ReadTake
  <2>1. CASE rfifo = <<>>
    BY <1>3, <2>1 DEF Polled!ReadTake, Polled!ReadData
  <2>2. CASE rfifo # <<>>
    <3>1. /\ got' = Append(got, Head(rfifo)) /\ rfifo' = Tail(rfifo) /\ pc' # "wPut"
          /\ UNCHANGED <<seen, wfifo, put, sent>>
      BY <1>3, <2>2 DEF Polled!ReadTake, Polled!ReadData
    <3>2. QED
      BY <2>2, <3>1, FollowsMoves
  <2>3. QED
    BY <2>1, <2>2
<1>4. CASE Polled!ReadEnd
  BY <1>4 DEF Polled!ReadEnd, Polled!Return, Polled!coreVars
<1>5. CASE Polled!NewCall
  BY <1>5 DEF Polled!NewCall, Polled!Write, Polled!Read, Polled!Call, Polled!coreVars
<1>6. CASE Polled!HostTakes /\ UNCHANGED Polled!appVars
  <2>1. /\ wfifo # <<>> /\ seen' = Append(seen, Head(wfifo)) /\ wfifo' = Tail(wfifo)
        /\ UNCHANGED <<pc, put, got, rfifo, sent>>
    BY <1>6 DEF Polled!HostTakes, Polled!appVars
  <2>2. /\ Follows(seen', 0) /\ Follows(wfifo', Len(seen'))
        /\ Len(seen') + Len(wfifo') = Len(seen) + Len(wfifo)
    BY <2>1, FollowsMoves
  <2>3. Len(wfifo') = Len(wfifo) - 1 /\ Len(wfifo) \in Nat /\ FIFO_LEN \in Nat
    BY <2>1, CoreAssumption DEF Follows
  <2>4. QED
    BY <2>1, <2>2, <2>3
<1>7. CASE Polled!HostSends /\ UNCHANGED Polled!appVars
  <2>1. /\ rfifo' = Append(rfifo, sent + 1) /\ sent' = sent + 1
        /\ UNCHANGED <<pc, put, got, seen, wfifo>>
    BY <1>7 DEF Polled!HostSends, Polled!appVars
  <2>2. /\ Follows(rfifo', Len(got)) /\ Len(rfifo') = Len(rfifo) + 1
    <3>1. Len(got) \in Nat
      BY DEF Follows
    <3>2. QED
      BY <2>1, <3>1, FollowsAppend
  <2>3. Len(rfifo) \in Nat /\ Len(got) \in Nat
    BY DEF Follows
  <2>4. QED
    BY <2>1, <2>2, <2>3
<1>8. CASE (Polled!HostPauses \/ Polled!HostOpens \/ Polled!HostLeaves)
           /\ UNCHANGED Polled!appVars
  BY <1>8 DEF Polled!HostPauses, Polled!HostOpens, Polled!HostLeaves, Polled!appVars
<1>9. CASE UNCHANGED Polled!vars
  BY <1>9 DEF Polled!vars, Polled!appVars, Polled!coreVars
<1>10. QED
  BY <1>1, <1>2, <1>3, <1>4, <1>5, <1>6, <1>7, <1>8, <1>9
     DEF Polled!Next, Polled!CallStep, Polled!HostStep

(* The polled driver of hello_world_bsp keeps the order of the bytes and    *)
(* loses none, in both directions, for FIFOs of any length.                 *)
THEOREM PolledKeepsOrder == Polled!Spec => []Polled!PolledInOrder
<1>1. PolledInv => Polled!PolledInOrder
  <2> SUFFICES ASSUME PolledInv PROVE Polled!PolledInOrder
    OBVIOUS
  <2>1. /\ Follows(seen \o wfifo, 0) /\ Len(seen \o wfifo) = put
        /\ Follows(got \o rfifo, 0) /\ Len(got \o rfifo) = sent
    <3>1. Len(seen) \in Nat /\ Len(got) \in Nat
      BY DEF PolledInv, Follows
    <3>2. QED
      BY <3>1, FollowsConcat DEF PolledInv
  <2>2. seen \o wfifo = Upto(put) /\ got \o rfifo = Upto(sent)
    BY <2>1, FollowsStart
  <2>3. QED
    BY <2>2 DEF Polled!PolledInOrder, Upto
<1>2. QED
  BY <1>1, PolledInit, PolledNext, PTL DEF Polled!Spec
=============================================================================
