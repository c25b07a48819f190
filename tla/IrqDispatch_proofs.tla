--------------------------- MODULE IrqDispatch_proofs ---------------------------
(***************************************************************************)
(* Nesting, masks, critical sections and handlers of the dispatch, for     *)
(* every number of interrupts.  Three of the six results need that no      *)
(* handler enables or disables an interrupt while it lets more urgent ones *)
(* in; the others hold whatever handlers do.                               *)
(***************************************************************************)
EXTENDS IrqDispatch, WellFoundedInduction, TLAPS

Frame == [at : {"scan", "rescan", "isr", "open"}, irq : -1..(NIRQ - 1),
          acked : BOOLEAN, opened : BOOLEAN, old : SUBSET Irqs,
          estatus : BOOLEAN]

TypeInv ==
    /\ req \subseteq Irqs /\ ienable \subseteq Irqs /\ active \subseteq Irqs
    /\ prio_mask \subseteq Irqs /\ pie \in BOOLEAN /\ section \in BOOLEAN
    /\ mpc \in {"idle", "handler", "context", "mask", "ienable", "restore"}
    /\ reg \in Irqs \X (Handlers \cup {Null})
    /\ saved \in [outer : BOOLEAN, inner : BOOLEAN]
    /\ frames \in Seq(Frame)

Handling(f) == f.at \in {"isr", "open"}

\* The interrupts that may be dispatched in frame k.
Outer(k) == IF k = 1 THEN Irqs ELSE MoreUrgent(frames[k - 1].irq)

\* All frames but the last have let more urgent interrupts in.
StackInv == \A k \in 1..Len(frames) :
    /\ frames[k].estatus = TRUE
    /\ k < Len(frames) => frames[k].at = "open"
    /\ Handling(frames[k]) => frames[k].irq \in Irqs /\ frames[k].irq \in Outer(k)
    /\ frames[k].at = "open" => frames[k].old = Outer(k)
    /\ \A j \in 1..(k - 1) :
           Handling(frames[k]) => frames[k].irq < frames[j].irq

\* The priority mask belongs to the last frame, and so do the enables.
MaskInv ==
    /\ Idle => prio_mask = Irqs
    /\ ~Idle => prio_mask = IF Top.at = "open" THEN MoreUrgent(Top.irq)
                            ELSE Outer(Len(frames))
    /\ mpc # "ienable" => ienable = active \cap prio_mask

\* Interrupts are enabled in an open frame, and in the program between its
\* sections.
PieInv ==
    /\ mpc # "idle" => Idle /\ ~pie /\ (saved.outer <=> ~section)
    /\ mpc \in {"mask", "ienable"} => saved.inner = FALSE
    /\ mpc = "idle" /\ Idle => (pie <=> ~section)
    /\ ~Idle => ~section /\ (pie <=> Top.at = "open")

IrqInv == TypeInv /\ StackInv /\ MaskInv /\ PieInv

\* What holds whatever handlers do to the enables: all frames but the last have
\* let interrupts in, the frames return to enabled code, and interrupts are
\* taken in an open frame or in the program between its sections only.
OpenInv == \A k \in 1..Len(frames) :
    /\ frames[k].estatus = TRUE
    /\ k < Len(frames) => frames[k].at = "open"
    /\ Handling(frames[k]) => frames[k].irq \in Irqs

BaseInv == TypeInv /\ OpenInv /\ PieInv

\* A set of interrupts that is not empty has a most urgent one.
LEMMA HasLeast ==
    ASSUME NEW S \in SUBSET Nat, S # {}
    PROVE  \E x \in S : \A y \in S : x <= y
<1>1. PICK x \in S : \A y \in S : ~(<<y, x>> \in OpToRel(<, Nat))
  BY NatLessThanWellFounded, WFMin
<1>2. \A y \in S : ~(y < x)
  BY <1>1 DEF OpToRel
<1> QED
  BY <1>2

\* The interrupt the loop chooses is pending.
LEMMA ChosenPending ==
    ASSUME TypeInv, Pending # {}
    PROVE  Chosen(Pending) \in Pending
<1>1. Pending \in SUBSET Nat
  BY IrqAssumption DEF TypeInv, Pending, Irqs
<1>2. \E x \in Pending : \A y \in Pending : x <= y
  BY <1>1, HasLeast
<1> QED
  BY <1>2 DEF Chosen, Min

\* Replacing the last frame changes no other.
LEMMA NewTop ==
    ASSUME TypeInv, ~Idle, NEW f \in Frame, SetTop(f)
    PROVE  /\ frames' \in Seq(Frame) /\ Len(frames') = Len(frames)
           /\ Len(frames) \in Nat /\ Len(frames) >= 1
           /\ frames'[Len(frames)] = f /\ Top' = f /\ ~Idle'
           /\ \A k \in 1..Len(frames) : k # Len(frames) => frames'[k] = frames[k]
           /\ Top \in Frame
BY DEF TypeInv, Idle, SetTop, Top

\* Where the new frame is no more urgent than the old one, the stack stays
\* as it must be.
LEMMA TopChanges ==
    ASSUME IrqInv, ~Idle, NEW f \in Frame, SetTop(f), f.estatus = TRUE,
           Handling(f) => f.irq \in Irqs /\ f.irq \in Outer(Len(frames)),
           f.at = "open" => f.old = Outer(Len(frames))
    PROVE  StackInv' /\ Outer(Len(frames))' = Outer(Len(frames))
<1>1. /\ frames' \in Seq(Frame) /\ Len(frames') = Len(frames)
      /\ Len(frames) \in Nat /\ Len(frames) >= 1
      /\ frames'[Len(frames)] = f
      /\ \A k \in 1..Len(frames) : k # Len(frames) => frames'[k] = frames[k]
  BY NewTop DEF IrqInv
<1>2. \A k \in 1..Len(frames) : Outer(k)' = Outer(k)
  BY <1>1 DEF Outer, MoreUrgent
<1>3. ASSUME NEW j \in 1..(Len(frames) - 1), Handling(f)
      PROVE  f.irq < frames[j].irq
  <2> DEFINE last == Len(frames) - 1
  <2>1. /\ last \in 1..Len(frames) /\ frames[last].irq \in Irqs
        /\ Handling(frames[last])
    BY <1>1, <1>3 DEF IrqInv, StackInv, Handling
  <2>2. f.irq < frames[last].irq /\ f.irq \in Int /\ frames[last].irq \in Int
    BY <1>1, <1>3, <2>1, IrqAssumption DEF Outer, MoreUrgent, Irqs
  <2>3. j # last => frames[last].irq < frames[j].irq
    BY <1>1, <1>3, <2>1 DEF IrqInv, StackInv
  <2>4. frames[j].irq \in Int
    <3>1. frames[j] \in Frame
      BY <1>1, <1>3 DEF IrqInv, TypeInv
    <3> QED
      BY <3>1, IrqAssumption DEF Frame
  <2> QED
    BY <2>2, <2>3, <2>4
<1>4. ASSUME NEW k \in 1..Len(frames)
      PROVE  /\ frames'[k].estatus = TRUE
             /\ k < Len(frames) => frames'[k].at = "open"
             /\ Handling(frames'[k]) => /\ frames'[k].irq \in Irqs
                                        /\ frames'[k].irq \in Outer(k)
             /\ frames'[k].at = "open" => frames'[k].old = Outer(k)
  BY <1>1, <1>4 DEF IrqInv, StackInv, Handling
<1>5. ASSUME NEW k \in 1..Len(frames), NEW j \in 1..(k - 1), Handling(frames'[k])
      PROVE  frames'[k].irq < frames'[j].irq
  <2>1. frames'[j] = frames[j]
    BY <1>1, <1>5
  <2>2. CASE k = Len(frames)
    BY <1>1, <1>3, <1>5, <2>1, <2>2
  <2>3. CASE k # Len(frames)
    BY <1>1, <1>5, <2>1, <2>3 DEF IrqInv, StackInv
  <2> QED
    BY <2>2, <2>3
<1>6. \A k \in 1..Len(frames') : Outer(k)' = Outer(k)
  BY <1>1, <1>2
<1>7. StackInv'
  BY <1>1, <1>4, <1>5, <1>6, Zenon DEF StackInv, Handling
<1> QED
  BY <1>1, <1>2, <1>7

\* With the frames unchanged the stack stays as it is.
LEMMA SameStack ==
    ASSUME StackInv, UNCHANGED frames
    PROVE  /\ StackInv' /\ Idle' = Idle /\ Top' = Top
           /\ Outer(Len(frames))' = Outer(Len(frames))
<1>1. \A k \in 1..Len(frames) : Outer(k)' = Outer(k)
  BY DEF Outer, MoreUrgent
<1>2. Len(frames)' = Len(frames)
  OBVIOUS
<1>3. StackInv'
  BY <1>1, <1>2, Zenon DEF StackInv, Handling
<1> QED
  BY <1>3 DEF Idle, Top, Outer, MoreUrgent

\* Sections and registrations of the program keep the invariant.
LEMMA ProgramKeeps ==
    ASSUME IrqInv,
           \/ OpenSection \/ CloseSection \/ RegStep
           \/ \E i \in Irqs, h \in Handlers \cup {Null} : Register(i, h)
    PROVE  IrqInv'
<1>1. UNCHANGED <<frames, req, prio_mask>> /\ Idle
  BY DEF OpenSection, CloseSection, RegStep, Register, RegHandler, RegContext,
         RegActive, RegIenable, RegRestore, masks, tables
<1>2. StackInv' /\ Idle' /\ Top' = Top
  BY <1>1, SameStack DEF IrqInv
<1>3. CASE OpenSection
  BY <1>1, <1>2, <1>3 DEF OpenSection, IrqInv, TypeInv, MaskInv, PieInv, Disabled,
                          masks, tables
<1>4. CASE CloseSection
  BY <1>1, <1>2, <1>4 DEF CloseSection, IrqInv, TypeInv, MaskInv, PieInv, Restored,
                          masks, tables
<1>5. ASSUME NEW i \in Irqs, NEW h \in Handlers \cup {Null}, Register(i, h)
      PROVE  IrqInv'
  BY <1>1, <1>2, <1>5 DEF Register, IrqInv, TypeInv, MaskInv, PieInv, Disabled,
                          masks, tables
<1>6. CASE RegHandler
  BY <1>1, <1>2, <1>6 DEF RegHandler, IrqInv, TypeInv, MaskInv, PieInv, masks
<1>7. CASE RegContext
  BY <1>1, <1>2, <1>7 DEF RegContext, IrqInv, TypeInv, MaskInv, PieInv, Disabled, masks
<1>8. CASE RegActive
  BY <1>1, <1>2, <1>8 DEF RegActive, IrqInv, TypeInv, MaskInv, PieInv, tables
<1>9. CASE RegIenable
  BY <1>1, <1>2, <1>9 DEF RegIenable, IrqInv, TypeInv, MaskInv, PieInv, Restored, tables
<1>10. CASE RegRestore
  BY <1>1, <1>2, <1>10 DEF RegRestore, IrqInv, TypeInv, MaskInv, PieInv, Restored,
                           masks, tables
<1> QED
  BY <1>3, <1>4, <1>5, <1>6, <1>7, <1>8, <1>9, <1>10 DEF RegStep

\* Taking an interrupt puts a frame on top of a stack of open ones.
LEMMA EnterKeeps ==
    ASSUME IrqInv, Enter
    PROVE  IrqInv'
<1> DEFINE new == [at |-> "scan", irq |-> -1, acked |-> FALSE,
                   opened |-> FALSE, old |-> {}, estatus |-> pie]
<1>0. PICK L \in Nat : /\ L = Len(frames)
                       /\ Idle <=> L = 0
  BY DEF IrqInv, TypeInv, Idle
<1>1. /\ frames' = Append(frames, new) /\ pie = TRUE /\ pie' = FALSE
      /\ UNCHANGED <<req, ienable, active, prio_mask, section, mpc, reg, saved>>
  BY DEF Enter, IrqInv, TypeInv, masks, program
<1>2. new \in Frame /\ new.at = "scan" /\ new.estatus = TRUE
  BY <1>1, IrqAssumption DEF Frame
<1> HIDE DEF new
<1>3. /\ frames' \in Seq(Frame) /\ Len(frames') = L + 1
      /\ frames'[L + 1] = new
      /\ \A k \in 1..L : frames'[k] = frames[k]
  BY <1>0, <1>1, <1>2 DEF IrqInv, TypeInv
<1>4. /\ mpc = "idle" /\ ~section
      /\ L > 0 => frames[L].at = "open"
  <2>1. mpc = "idle" /\ ~section
    BY <1>1 DEF IrqInv, PieInv
  <2>2. ~Idle => Top.at = "open"
    BY <1>1 DEF IrqInv, PieInv
  <2> QED
    BY <1>0, <2>1, <2>2 DEF Top
<1>5. ~Idle' /\ Top' = new
  BY <1>3 DEF Idle, Top
<1>6. \A k \in 1..L : Outer(k)' = Outer(k)
  BY <1>3 DEF Outer, MoreUrgent
<1>7. prio_mask = Outer(L + 1)'
  <2>1. CASE L = 0
    BY <1>0, <1>3, <2>1 DEF Outer, IrqInv, MaskInv, Irqs
  <2>2. CASE L > 0
    <3>1. prio_mask = MoreUrgent(frames[L].irq)
      BY <1>0, <1>4, <2>2 DEF IrqInv, MaskInv, Top
    <3>2. Outer(L + 1)' = MoreUrgent(frames'[L].irq)
      BY <2>2 DEF Outer, MoreUrgent
    <3> QED
      BY <1>3, <2>2, <3>1, <3>2
  <2> QED
    BY <2>1, <2>2
<1>8. ASSUME NEW k \in 1..Len(frames')
      PROVE  /\ frames'[k].estatus = TRUE
             /\ k < Len(frames') => frames'[k].at = "open"
             /\ Handling(frames'[k]) => /\ frames'[k].irq \in Irqs
                                        /\ frames'[k].irq \in Outer(k)'
             /\ frames'[k].at = "open" => frames'[k].old = Outer(k)'
             /\ \A j \in 1..(k - 1) :
                    Handling(frames'[k]) => frames'[k].irq < frames'[j].irq
  <2>1. CASE k = L + 1
    BY <1>2, <1>3, <2>1 DEF Handling
  <2>2. CASE k \in 1..L
    <3>1. frames'[k] = frames[k] /\ \A j \in 1..(k - 1) : frames'[j] = frames[j]
      BY <1>3, <2>2
    <3>2. k < Len(frames') => frames[k].at = "open"
      BY <1>0, <1>3, <1>4, <2>2 DEF IrqInv, StackInv
    <3> QED
      BY <1>0, <1>6, <2>2, <3>1, <3>2 DEF IrqInv, StackInv
  <2>3. k = L + 1 \/ k \in 1..L
    BY <1>3, <1>8
  <2> QED
    BY <2>1, <2>2, <2>3
<1>9. StackInv'
  BY <1>8, Zenon DEF StackInv, Handling
<1>10. TypeInv' /\ MaskInv' /\ PieInv'
  <2>1. TypeInv'
    BY <1>1, <1>3 DEF IrqInv, TypeInv
  <2>2. MaskInv'
    <3>1. Len(frames)' = L + 1 /\ Outer(Len(frames))' = Outer(L + 1)'
      BY <1>3
    <3> QED
      BY <1>1, <1>2, <1>4, <1>5, <1>7, <3>1 DEF IrqInv, MaskInv
  <2>3. PieInv'
    BY <1>1, <1>2, <1>4, <1>5 DEF PieInv
  <2> QED
    BY <2>1, <2>2, <2>3
<1> QED
  BY <1>9, <1>10 DEF IrqInv

\* A step that only changes the last frame keeps the invariant, if the masks
\* and the enable bit go with the frame.
LEMMA TopKeeps ==
    ASSUME IrqInv, ~Idle, NEW f \in Frame, SetTop(f), f.estatus = TRUE,
           Handling(f) => f.irq \in Irqs /\ f.irq \in Outer(Len(frames)),
           f.at = "open" => f.old = Outer(Len(frames)),
           req' \subseteq Irqs, ienable' \subseteq Irqs, pie' \in BOOLEAN,
           prio_mask' \subseteq Irqs,
           UNCHANGED <<active, section, mpc, reg, saved>>,
           prio_mask' = IF f.at = "open" THEN MoreUrgent(f.irq) ELSE Outer(Len(frames)),
           ienable' = active \cap prio_mask',
           pie' <=> f.at = "open"
    PROVE  IrqInv'
<1>1. StackInv' /\ Outer(Len(frames))' = Outer(Len(frames))
  BY TopChanges
<1>2. frames' \in Seq(Frame) /\ Top' = f /\ ~Idle'
  BY NewTop DEF IrqInv
<1>3. mpc = "idle" /\ ~section
  BY DEF IrqInv, PieInv
<1>4. TypeInv'
  BY <1>2 DEF IrqInv, TypeInv
<1>5. MaskInv'
  BY <1>1, <1>2 DEF MaskInv
<1>6. PieInv'
  BY <1>2, <1>3 DEF PieInv
<1> QED
  BY <1>1, <1>4, <1>5, <1>6 DEF IrqInv

\* What the invariant says of the last frame.
LEMMA TopFacts ==
    ASSUME IrqInv, ~Idle
    PROVE  /\ Top \in Frame /\ Len(frames) \in 1..Len(frames)
           /\ Top.estatus = TRUE
           /\ Handling(Top) => Top.irq \in Irqs /\ Top.irq \in Outer(Len(frames))
           /\ Top.at = "open" => Top.old = Outer(Len(frames))
           /\ prio_mask = IF Top.at = "open" THEN MoreUrgent(Top.irq)
                          ELSE Outer(Len(frames))
           /\ ienable = active \cap prio_mask
           /\ pie <=> Top.at = "open"
<1>1. Len(frames) \in 1..Len(frames) /\ Top \in Frame
  BY DEF IrqInv, TypeInv, Idle, Top
<1>2. /\ Top.estatus = TRUE
      /\ Handling(Top) => Top.irq \in Irqs /\ Top.irq \in Outer(Len(frames))
      /\ Top.at = "open" => Top.old = Outer(Len(frames))
  BY <1>1 DEF IrqInv, StackInv, Top
<1>3. mpc = "idle" /\ (pie <=> Top.at = "open")
  BY DEF IrqInv, PieInv
<1> QED
  BY <1>1, <1>2, <1>3 DEF IrqInv, MaskInv

\* Dispatching a pending interrupt keeps the order of the frames.
LEMMA ScanKeeps ==
    ASSUME IrqInv, Scan
    PROVE  IrqInv'
<1> DEFINE f == [Top EXCEPT !.at = "isr", !.irq = Chosen(Pending),
                            !.acked = FALSE, !.opened = FALSE]
<1>1. ~Idle /\ Top.at \in {"scan", "rescan"} /\ SetTop(f)
      /\ UNCHANGED <<req, ienable, active, prio_mask, section, mpc, reg, saved, pie>>
  BY DEF Scan, masks, program
<1>2. Chosen(Pending) \in Pending
  BY ChosenPending DEF IrqInv, Scan
<1>3. prio_mask = Outer(Len(frames)) /\ ienable = active \cap prio_mask /\ ~pie
  BY <1>1, TopFacts
<1>4. Chosen(Pending) \in Irqs /\ Chosen(Pending) \in Outer(Len(frames))
  BY <1>2, <1>3 DEF Pending, IrqInv, TypeInv
<1>5. f \in Frame /\ f.at = "isr" /\ f.irq = Chosen(Pending) /\ f.estatus = TRUE
  <2>1. PICK i : i = Chosen(Pending)
    OBVIOUS
  <2>2. i \in -1..(NIRQ - 1)
    BY <1>4, <2>1, IrqAssumption DEF Irqs
  <2>3. Top \in Frame /\ Top.estatus = TRUE
    BY <1>1, TopFacts
  <2>4. f = [Top EXCEPT !.at = "isr", !.irq = i, !.acked = FALSE, !.opened = FALSE]
    BY <2>1
  <2> HIDE DEF f
  <2> QED
    BY <2>1, <2>2, <2>3, <2>4 DEF Frame
<1> HIDE DEF f
<1> QED
  BY <1>1, <1>3, <1>4, <1>5, TopKeeps DEF IrqInv, TypeInv

\* A handler's answer to its device changes neither masks nor order.
LEMMA AnswerKeeps ==
    ASSUME IrqInv, Answer
    PROVE  IrqInv'
<1> DEFINE f == [Top EXCEPT !.acked = TRUE]
<1>1. /\ ~Idle /\ Top.at = "isr" /\ SetTop(f) /\ req' = req \ {Top.irq}
      /\ UNCHANGED <<ienable, active, prio_mask, section, mpc, reg, saved, pie>>
  BY DEF Answer, Restored, masks, program
<1>2. f \in Frame /\ f.at = "isr" /\ f.irq = Top.irq /\ f.estatus = TRUE
  BY <1>1, TopFacts DEF Frame
<1> HIDE DEF f
<1>3. /\ prio_mask = Outer(Len(frames)) /\ ienable = active \cap prio_mask
      /\ ~pie /\ f.irq \in Irqs /\ f.irq \in Outer(Len(frames))
  BY <1>1, <1>2, TopFacts DEF Handling
<1> QED
  BY <1>1, <1>2, <1>3, TopKeeps DEF IrqInv, TypeInv

\* A handler that returns leaves the masks to the dispatch loop.
LEMMA ReturnKeeps ==
    ASSUME IrqInv, Return
    PROVE  IrqInv'
<1> DEFINE f == [Top EXCEPT !.at = "rescan"]
<1>1. /\ ~Idle /\ Top.at = "isr" /\ SetTop(f)
      /\ UNCHANGED <<req, ienable, active, prio_mask, section, mpc, reg, saved, pie>>
  BY DEF Return, masks, program
<1>2. f \in Frame /\ f.at = "rescan" /\ f.estatus = TRUE
  BY <1>1, TopFacts DEF Frame
<1> HIDE DEF f
<1>3. prio_mask = Outer(Len(frames)) /\ ienable = active \cap prio_mask /\ ~pie
  BY <1>1, TopFacts
<1> QED
  BY <1>1, <1>2, <1>3, TopKeeps DEF IrqInv, TypeInv, Handling

\* Opening a frame lets only more urgent interrupts in.
LEMMA InterruptibleKeeps ==
    ASSUME IrqInv, Interruptible
    PROVE  IrqInv'
<1> DEFINE f == [Top EXCEPT !.at = "open", !.opened = TRUE, !.old = prio_mask]
<1>1. /\ ~Idle /\ Top.at = "isr" /\ SetTop(f)
      /\ prio_mask' = MoreUrgent(Top.irq) /\ pie' = TRUE
      /\ ienable' = active \cap MoreUrgent(Top.irq)
      /\ UNCHANGED <<req, active, section, mpc, reg, saved>>
  BY DEF Interruptible, program
<1>2. prio_mask = Outer(Len(frames)) /\ Top.irq \in Irqs
      /\ Top.irq \in Outer(Len(frames))
  BY <1>1, TopFacts DEF Handling
<1>3. /\ f \in Frame /\ f.at = "open" /\ f.estatus = TRUE
      /\ f.irq = Top.irq /\ f.old = Outer(Len(frames))
  BY <1>1, <1>2, TopFacts DEF Frame, IrqInv, TypeInv
<1> HIDE DEF f
<1>4. MoreUrgent(Top.irq) \subseteq Irqs
  BY <1>2, IrqAssumption DEF MoreUrgent, Irqs
<1> QED
  BY <1>1, <1>2, <1>3, <1>4, TopKeeps DEF IrqInv, TypeInv

\* Closing a frame restores the mask of the frame below.
LEMMA NonInterruptibleKeeps ==
    ASSUME IrqInv, NonInterruptible
    PROVE  IrqInv'
<1> DEFINE f == [Top EXCEPT !.at = "isr"]
<1>1. /\ ~Idle /\ Top.at = "open" /\ SetTop(f)
      /\ prio_mask' = Top.old /\ pie' = FALSE
      /\ ienable' = Top.old \cap active
      /\ UNCHANGED <<req, active, section, mpc, reg, saved>>
  BY DEF NonInterruptible, OldMask, program
<1>2. /\ Top.old = Outer(Len(frames)) /\ Top.old \subseteq Irqs
      /\ Top.irq \in Irqs /\ Top.irq \in Outer(Len(frames))
  BY <1>1, TopFacts DEF Handling, Frame
<1>3. f \in Frame /\ f.at = "isr" /\ f.estatus = TRUE /\ f.irq = Top.irq
  BY <1>1, TopFacts DEF Frame
<1> HIDE DEF f
<1> QED
  BY <1>1, <1>2, <1>3, TopKeeps DEF IrqInv, TypeInv

\* Returning to the frame below finds it open, and its mask in place.
LEMMA ExitKeeps ==
    ASSUME IrqInv, Exit
    PROVE  IrqInv'
<1>0. PICK L \in Nat : L = Len(frames) /\ L >= 1
  BY DEF Exit, IrqInv, TypeInv, Idle
<1>1. /\ Top.at = "rescan" /\ frames' = SubSeq(frames, 1, L - 1)
      /\ pie' = TRUE
      /\ UNCHANGED <<req, ienable, active, prio_mask, section, mpc, reg, saved>>
  BY <1>0, TopFacts DEF Exit, masks, program
<1>2. /\ frames' \in Seq(Frame) /\ Len(frames') = L - 1
      /\ \A k \in 1..(L - 1) : frames'[k] = frames[k]
      /\ Idle' <=> L = 1
  <2>1. frames \in Seq(Frame)
    BY DEF IrqInv, TypeInv
  <2>2. /\ frames' \in Seq(Frame) /\ Len(frames') = L - 1
        /\ \A k \in 1..(L - 1) : frames'[k] = frames[k]
    BY <1>0, <1>1, <2>1
  <2>3. frames' = <<>> <=> L = 1
    BY <1>0, <2>2
  <2> QED
    BY <2>2, <2>3 DEF Idle
<1>3. /\ mpc = "idle" /\ ~section
      /\ prio_mask = Outer(L) /\ ienable = active \cap prio_mask
  BY <1>0, <1>1, TopFacts DEF Exit, IrqInv, PieInv
<1>4. L > 1 => Top' = frames[L - 1] /\ frames[L - 1].at = "open"
  BY <1>0, <1>2 DEF Top, IrqInv, StackInv
<1>5. \A k \in 1..(L - 1) : Outer(k)' = Outer(k)
  BY <1>2 DEF Outer, MoreUrgent
<1>6. ASSUME NEW k \in 1..Len(frames')
      PROVE  /\ frames'[k].estatus = TRUE
             /\ k < Len(frames') => frames'[k].at = "open"
             /\ Handling(frames'[k]) => /\ frames'[k].irq \in Irqs
                                        /\ frames'[k].irq \in Outer(k)'
             /\ frames'[k].at = "open" => frames'[k].old = Outer(k)'
             /\ \A j \in 1..(k - 1) :
                    Handling(frames'[k]) => frames'[k].irq < frames'[j].irq
  <2>1. k \in 1..(L - 1) /\ k \in 1..Len(frames) /\ k < Len(frames)
    BY <1>0, <1>2
  <2>2. frames'[k] = frames[k] /\ \A j \in 1..(k - 1) : frames'[j] = frames[j]
    BY <1>2, <2>1
  <2> QED
    BY <1>5, <2>1, <2>2 DEF IrqInv, StackInv
<1>7. StackInv'
  BY <1>6, Zenon DEF StackInv, Handling
<1>8. TypeInv'
  BY <1>1, <1>2 DEF IrqInv, TypeInv
<1>9. MaskInv'
  <2>1. CASE L = 1
    BY <1>1, <1>2, <1>3, <2>1 DEF MaskInv, Outer
  <2>2. CASE L > 1
    <3>1. prio_mask = MoreUrgent(frames[L - 1].irq)
      BY <1>0, <1>3, <2>2 DEF Outer
    <3> QED
      BY <1>1, <1>2, <1>3, <1>4, <2>2, <3>1 DEF MaskInv, MoreUrgent
  <2> QED
    BY <1>0, <2>1, <2>2
<1>10. PieInv'
  BY <1>0, <1>1, <1>2, <1>3, <1>4 DEF PieInv
<1> QED
  BY <1>7, <1>8, <1>9, <1>10 DEF IrqInv

\* Every step keeps the invariant, if no handler changes the enables in a window.
LEMMA StepKeeps ==
    ASSUME ~InWindow, IrqInv, [Next]_vars
    PROVE  IrqInv'
<1>1. CASE Request
  <2>1. /\ UNCHANGED <<frames, ienable, active, prio_mask, pie, section, mpc, reg,
                       saved>>
        /\ req' \subseteq Irqs
    BY <1>1 DEF Request, masks, program, IrqInv, TypeInv
  <2>2. StackInv' /\ Idle' = Idle /\ Top' = Top
        /\ Outer(Len(frames))' = Outer(Len(frames))
    BY <2>1, SameStack DEF IrqInv
  <2>3. TypeInv' /\ MaskInv' /\ PieInv'
    BY <2>1, <2>2 DEF IrqInv, TypeInv, MaskInv, PieInv
  <2> QED
    BY <2>2, <2>3 DEF IrqInv
<1>2. CASE \/ OpenSection \/ CloseSection \/ RegStep
           \/ \E i \in Irqs, h \in Handlers \cup {Null} : Register(i, h)
  BY <1>2, ProgramKeeps
<1>3. CASE Enter \/ IsrStep \/ Interruptible
  BY <1>3, EnterKeeps, ScanKeeps, ExitKeeps, AnswerKeeps, NonInterruptibleKeeps,
     ReturnKeeps, InterruptibleKeeps DEF IsrStep
<1>4. CASE UNCHANGED vars
  <2>1. UNCHANGED <<req, frames, ienable, active, prio_mask, pie, section, mpc, reg,
                    saved>>
    BY <1>4 DEF vars
  <2>2. StackInv' /\ Idle' = Idle /\ Top' = Top
        /\ Outer(Len(frames))' = Outer(Len(frames))
    BY <2>1, SameStack DEF IrqInv
  <2>3. TypeInv' /\ MaskInv' /\ PieInv'
    BY <2>1, <2>2 DEF IrqInv, TypeInv, MaskInv, PieInv
  <2> QED
    BY <2>2, <2>3 DEF IrqInv
<1>5. CASE IsrEnables
  <2>1. /\ UNCHANGED <<req, frames, prio_mask, pie, section, mpc, reg, saved>>
        /\ ~Idle /\ prio_mask = Irqs /\ active' \subseteq Irqs /\ ienable' = active'
    BY <1>5 DEF IsrEnables, tables, program, IrqInv, TypeInv
  <2>2. StackInv' /\ Idle' = Idle /\ Top' = Top
        /\ Outer(Len(frames))' = Outer(Len(frames))
    BY <2>1, SameStack DEF IrqInv
  <2>3. TypeInv' /\ MaskInv' /\ PieInv'
    BY <2>1, <2>2 DEF IrqInv, TypeInv, MaskInv, PieInv
  <2> QED
    BY <2>2, <2>3 DEF IrqInv
<1> QED
  BY <1>1, <1>2, <1>3, <1>4, <1>5 DEF Next

\* The program starts with no frame, everything enabled and nothing registered.
LEMMA StartsRight ==
    ASSUME Init
    PROVE  IrqInv
<1>1. TypeInv
  BY IrqAssumption DEF Init, TypeInv, Irqs
<1>2. Idle /\ Len(frames) = 0
  BY DEF Init, Idle
<1>3. StackInv /\ MaskInv /\ PieInv
  BY <1>2 DEF Init, StackInv, MaskInv, PieInv
<1> QED
  BY <1>1, <1>3 DEF IrqInv

\* Handlers interrupt only less urgent ones, and never themselves, however deep
\* alt_irq_interruptible() makes them nest.
THEOREM NestingIsOrdered ==
    ASSUME ~InWindow
    PROVE  Spec => []MoreUrgentOnly
<1>1. ASSUME IrqInv, NEW j \in Running, NEW k \in Running, j < k
      PROVE  frames[k].irq < frames[j].irq
  <2>1. k \in 1..Len(frames) /\ j \in 1..(k - 1) /\ Handling(frames[k])
    BY <1>1 DEF Running, Handling
  <2> QED
    BY <1>1, <2>1 DEF IrqInv, StackInv
<1>2. IrqInv => MoreUrgentOnly
  BY <1>1 DEF MoreUrgentOnly
<1>3. Init => IrqInv
  BY StartsRight
<1>4. IrqInv /\ [Next]_vars => IrqInv'
  BY StepKeeps
<1> QED
  BY <1>2, <1>3, <1>4, PTL DEF Spec

\* When the last handler has returned all registered interrupts are enabled
\* again and only an open section holds them off: what alt_irq_interruptible()
\* saves, alt_irq_non_interruptible() restores, however deep they nest.
THEOREM EnablesComeBack ==
    ASSUME ~InWindow
    PROVE  Spec => []AllEnabledAfter
<1>1. ASSUME IrqInv, Idle, mpc = "idle"
      PROVE  ienable = active /\ prio_mask = Irqs /\ pie = ~section
  <2>1. prio_mask = Irqs /\ ienable = active \cap prio_mask /\ active \subseteq Irqs
    BY <1>1 DEF IrqInv, MaskInv, TypeInv
  <2>2. pie \in BOOLEAN /\ section \in BOOLEAN /\ (pie <=> ~section)
    BY <1>1 DEF IrqInv, PieInv, TypeInv
  <2> QED
    BY <2>1, <2>2
<1>2. IrqInv => AllEnabledAfter
  BY <1>1 DEF AllEnabledAfter
<1>3. Init => IrqInv
  BY StartsRight
<1>4. IrqInv /\ [Next]_vars => IrqInv'
  BY StepKeeps
<1> QED
  BY <1>2, <1>3, <1>4, PTL DEF Spec

-----------------------------------------------------------------------------
(***************************************************************************)
(* The most urgent interrupt goes first.                                   *)
(***************************************************************************)

\* A handler is dispatched while interrupt 0 waits only if it is interrupt 0's:
\* what makes "do { ... } while (active)" answer it, however often others come.
UrgentFirst == [][Scan /\ 0 \in req /\ 0 \in active => Top'.irq = 0]_vars

\* A frame that others have interrupted is not that of the most urgent one.
LowerBelow == \A k \in 1..(Len(frames) - 1) : frames[k].irq >= 1

\* An interrupt is taken in an open frame only if it is more urgent than that.
LEMMA LowerKeeps ==
    ASSUME IrqInv, LowerBelow, [Next]_vars
    PROVE  LowerBelow'
<1>0. PICK L \in Nat : L = Len(frames) /\ frames \in Seq(Frame) /\ (Idle <=> L = 0)
  BY DEF IrqInv, TypeInv, Idle
<1>1. CASE UNCHANGED frames
  BY <1>1 DEF LowerBelow
<1>2. CASE Enter
  <2> DEFINE new == [at |-> "scan", irq |-> -1, acked |-> FALSE,
                     opened |-> FALSE, old |-> {}, estatus |-> pie]
  <2>1. frames' = Append(frames, new) /\ pie /\ Pending # {}
    BY <1>2 DEF Enter, External
  <2> HIDE DEF new
  <2>2. Len(frames') = L + 1 /\ \A k \in 1..L : frames'[k] = frames[k]
    BY <1>0, <2>1
  <2>3. L > 0 => frames[L].irq >= 1
    <3> SUFFICES ASSUME L > 0 PROVE frames[L].irq >= 1
      OBVIOUS
    <3>1. ~Idle /\ Top = frames[L]
      BY <1>0 DEF Top
    <3>2. Top.at = "open" /\ prio_mask = MoreUrgent(Top.irq) /\ Top.irq \in Irqs
          /\ ienable = active \cap prio_mask
      BY <2>1, <3>1, TopFacts DEF IrqInv, PieInv, Handling
    <3>3. PICK i : i \in MoreUrgent(Top.irq)
      BY <2>1, <3>2 DEF Pending
    <3> QED
      BY <3>1, <3>2, <3>3, IrqAssumption DEF MoreUrgent, Irqs
  <2>4. ASSUME NEW k \in 1..L PROVE frames'[k].irq >= 1
    <3>1. CASE k = L
      BY <2>2, <2>3, <3>1
    <3>2. CASE k \in 1..(L - 1)
      BY <1>0, <2>2, <3>2 DEF LowerBelow
    <3>3. k = L \/ k \in 1..(L - 1)
      BY <2>4
    <3> QED
      BY <3>1, <3>2, <3>3
  <2> QED
    BY <2>2, <2>4 DEF LowerBelow
<1>3. CASE Exit
  <2>1. frames' = SubSeq(frames, 1, L - 1) /\ L >= 1
    BY <1>0, <1>3 DEF Exit
  <2>2. Len(frames') = L - 1 /\ \A k \in 1..(L - 1) : frames'[k] = frames[k]
    BY <1>0, <2>1
  <2> QED
    BY <1>0, <2>2 DEF LowerBelow
<1>4. ASSUME ~Idle, NEW f, SetTop(f) PROVE LowerBelow'
  <2>1. Len(frames') = L /\ \A k \in 1..(L - 1) : frames'[k] = frames[k]
    BY <1>0, <1>4 DEF SetTop
  <2> QED
    BY <1>0, <2>1 DEF LowerBelow
<1>5. CASE Scan \/ Answer \/ Return \/ Interruptible \/ NonInterruptible
  <2>1. ~Idle /\ \E f : SetTop(f)
    BY <1>5, Zenon DEF Scan, Answer, Return, Interruptible, NonInterruptible
  <2> QED
    BY <1>4, <2>1, Zenon
<1> QED
  BY <1>1, <1>2, <1>3, <1>5
  DEF Next, IsrStep, Request, OpenSection, CloseSection, Register, RegStep,
      RegHandler, RegContext, RegActive, RegIenable, RegRestore, IsrEnables, vars

\* Of a set of numbers with 0 in it the loop chooses 0.
LEMMA ChoosesZero ==
    ASSUME NEW S \in SUBSET Nat, 0 \in S
    PROVE  Chosen(S) = 0
<1>1. \E x \in S : \A y \in S : x <= y
  BY HasLeast
<1>2. Chosen(S) \in S /\ \A y \in S : Chosen(S) <= y
  BY <1>1, Zenon DEF Chosen, Min
<1>3. PICK c : c = Chosen(S)
  OBVIOUS
<1>4. c \in Nat /\ c <= 0
  BY <1>2, <1>3
<1> QED
  BY <1>3, <1>4

\* While the most urgent interrupt waits no other handler is dispatched, in
\* whatever frame the loop runs: the safety half of UrgentAnswered.
THEOREM MostUrgentFirst ==
    ASSUME ~InWindow
    PROVE  Spec => UrgentFirst
<1>1. ASSUME IrqInv, LowerBelow, Scan, 0 \in req, 0 \in active
      PROVE  Top'.irq = 0
  <2>1. PICK L \in Nat : L = Len(frames) /\ L >= 1 /\ frames \in Seq(Frame)
    BY <1>1 DEF Scan, IrqInv, TypeInv, Idle
  <2>2. /\ ~Idle /\ Top.at \in {"scan", "rescan"}
        /\ SetTop([Top EXCEPT !.at = "isr", !.irq = Chosen(Pending),
                              !.acked = FALSE, !.opened = FALSE])
    BY <1>1 DEF Scan
  <2>3. ienable = active \cap Outer(L)
    BY <1>1, <2>1, <2>2, TopFacts
  <2>4. 0 \in Outer(L)
    <3>1. CASE L = 1
      BY <3>1, IrqAssumption DEF Outer, Irqs
    <3>2. CASE L > 1
      <4>1. frames[L - 1].irq >= 1 /\ frames[L - 1] \in Frame
        BY <1>1, <2>1, <3>2 DEF LowerBelow
      <4>2. frames[L - 1].irq \in Int
        BY <4>1, IrqAssumption DEF Frame
      <4> QED
        BY <3>2, <4>1, <4>2 DEF Outer, MoreUrgent
    <3> QED
      BY <2>1, <3>1, <3>2
  <2>5. 0 \in Pending /\ Pending \in SUBSET Nat
    BY <1>1, <2>3, <2>4, IrqAssumption DEF Pending, IrqInv, TypeInv, Irqs
  <2>6. Chosen(Pending) = 0
    BY <2>5, ChoosesZero
  <2>7. Top \in Frame
    BY <1>1, <2>2, TopFacts
  <2>8. Top' = [Top EXCEPT !.at = "isr", !.irq = 0, !.acked = FALSE, !.opened = FALSE]
    <3>1. PICK f : f = [Top EXCEPT !.at = "isr", !.irq = 0, !.acked = FALSE,
                                   !.opened = FALSE]
      OBVIOUS
    <3>2. frames' = [frames EXCEPT ![L] = f]
      BY <2>1, <2>2, <2>6, <3>1 DEF SetTop
    <3>3. Top' = f
      BY <2>1, <3>2 DEF Top
    <3> QED
      BY <3>1, <3>3
  <2> QED
    BY <2>7, <2>8 DEF Frame
<1>2. Init => IrqInv /\ LowerBelow
  <2>1. ASSUME Init PROVE LowerBelow
    <3>1. Len(frames) = 0
      BY <2>1 DEF Init
    <3> QED
      BY <3>1 DEF LowerBelow
  <2> QED
    BY <2>1, StartsRight
<1>3. IrqInv /\ LowerBelow /\ [Next]_vars => IrqInv' /\ LowerBelow'
  BY StepKeeps, LowerKeeps
<1>4. IrqInv /\ LowerBelow /\ [Next]_vars
        => [Scan /\ 0 \in req /\ 0 \in active => Top'.irq = 0]_vars
  BY <1>1
<1> QED
  BY <1>2, <1>3, <1>4, PTL DEF Spec, UrgentFirst

-----------------------------------------------------------------------------
(***************************************************************************)
(* What holds even if handlers enable and disable interrupts while they    *)
(* let others in, and so lift the mask that alt_irq_interruptible() set.   *)
(***************************************************************************)
\* What holds of the last frame, whatever the masks are.
LEMMA TopBase ==
    ASSUME BaseInv, ~Idle
    PROVE  /\ Top \in Frame /\ Len(frames) \in 1..Len(frames)
           /\ Top.estatus = TRUE /\ (Handling(Top) => Top.irq \in Irqs)
           /\ mpc = "idle" /\ ~section /\ (pie <=> Top.at = "open")
<1>1. Len(frames) \in 1..Len(frames) /\ Top \in Frame
  BY DEF BaseInv, TypeInv, Idle, Top
<1>2. Top.estatus = TRUE /\ (Handling(Top) => Top.irq \in Irqs)
  BY <1>1 DEF BaseInv, OpenInv, Top
<1>3. mpc = "idle" /\ ~section /\ (pie <=> Top.at = "open")
  BY DEF BaseInv, PieInv
<1> QED
  BY <1>1, <1>2, <1>3

\* A step that only changes the last frame keeps it, if the enable bit goes with
\* the frame.
LEMMA TopBaseKeeps ==
    ASSUME BaseInv, ~Idle, NEW f \in Frame, SetTop(f), f.estatus = TRUE,
           Handling(f) => f.irq \in Irqs,
           req' \subseteq Irqs, ienable' \subseteq Irqs, pie' \in BOOLEAN,
           prio_mask' \subseteq Irqs,
           UNCHANGED <<active, section, mpc, reg, saved>>,
           pie' <=> f.at = "open"
    PROVE  BaseInv'
<1>1. /\ frames' \in Seq(Frame) /\ Len(frames') = Len(frames)
      /\ Len(frames) \in Nat /\ Len(frames) >= 1
      /\ frames'[Len(frames)] = f /\ Top' = f /\ ~Idle'
      /\ \A k \in 1..Len(frames) : k # Len(frames) => frames'[k] = frames[k]
  BY NewTop DEF BaseInv
<1>2. mpc = "idle" /\ ~section
  BY TopBase
<1>3. TypeInv'
  BY <1>1 DEF BaseInv, TypeInv
<1>4. ASSUME NEW k \in 1..Len(frames)
      PROVE  /\ frames'[k].estatus = TRUE
             /\ k < Len(frames) => frames'[k].at = "open"
             /\ Handling(frames'[k]) => frames'[k].irq \in Irqs
  BY <1>1, <1>4 DEF BaseInv, OpenInv, Handling
<1>5. OpenInv'
  BY <1>1, <1>4, Zenon DEF OpenInv, Handling
<1>6. PieInv'
  BY <1>1, <1>2 DEF PieInv
<1> QED
  BY <1>3, <1>5, <1>6 DEF BaseInv

\* The program's sections and registrations keep it.
LEMMA ProgramBase ==
    ASSUME BaseInv,
           \/ OpenSection \/ CloseSection \/ RegStep
           \/ \E i \in Irqs, h \in Handlers \cup {Null} : Register(i, h)
    PROVE  BaseInv'
<1> USE DEF BaseInv, TypeInv, PieInv, masks, tables
<1>1. UNCHANGED <<frames, req, prio_mask>> /\ Idle
  BY DEF OpenSection, CloseSection, RegStep, Register, RegHandler, RegContext,
         RegActive, RegIenable, RegRestore
<1>2. OpenInv' /\ Idle'
  BY <1>1 DEF OpenInv, Handling, Idle
<1>3. CASE OpenSection
  BY <1>1, <1>2, <1>3 DEF OpenSection, Disabled
<1>4. CASE CloseSection
  BY <1>1, <1>2, <1>4 DEF CloseSection, Restored
<1>5. ASSUME NEW i \in Irqs, NEW h \in Handlers \cup {Null}, Register(i, h)
      PROVE  BaseInv'
  BY <1>1, <1>2, <1>5 DEF Register, Disabled
<1>6. CASE RegHandler
  BY <1>1, <1>2, <1>6 DEF RegHandler
<1>7. CASE RegContext
  BY <1>1, <1>2, <1>7 DEF RegContext, Disabled
<1>8. CASE RegActive
  BY <1>1, <1>2, <1>8 DEF RegActive
<1>9. CASE RegIenable
  BY <1>1, <1>2, <1>9 DEF RegIenable, Restored
<1>10. CASE RegRestore
  BY <1>1, <1>2, <1>10 DEF RegRestore, Restored
<1> QED
  BY <1>3, <1>4, <1>5, <1>6, <1>7, <1>8, <1>9, <1>10 DEF RegStep

\* So does the exception entry: only code with interrupts enabled is interrupted.
LEMMA EnterBase == ASSUME BaseInv, Enter PROVE BaseInv'
<1> DEFINE new == [at |-> "scan", irq |-> -1, acked |-> FALSE,
                   opened |-> FALSE, old |-> {}, estatus |-> pie]
<1>0. PICK L \in Nat : L = Len(frames) /\ (Idle <=> L = 0)
  BY DEF BaseInv, TypeInv, Idle
<1>1. /\ frames' = Append(frames, new) /\ pie = TRUE /\ pie' = FALSE
      /\ UNCHANGED <<req, ienable, active, prio_mask, section, mpc, reg, saved>>
  BY DEF Enter, BaseInv, TypeInv, masks, program
<1>2. new \in Frame /\ new.at = "scan" /\ new.estatus = TRUE
  BY <1>1, IrqAssumption DEF Frame
<1> HIDE DEF new
<1>3. /\ frames' \in Seq(Frame) /\ Len(frames') = L + 1
      /\ frames'[L + 1] = new /\ \A k \in 1..L : frames'[k] = frames[k]
  BY <1>0, <1>1, <1>2 DEF BaseInv, TypeInv
<1>4. mpc = "idle" /\ ~section /\ (L > 0 => frames[L].at = "open")
  BY <1>0, <1>1 DEF BaseInv, PieInv, Top
<1>5. ~Idle' /\ Top' = new
  BY <1>3 DEF Idle, Top
<1>6. ASSUME NEW k \in 1..(L + 1)
      PROVE  /\ frames'[k].estatus = TRUE
             /\ k < L + 1 => frames'[k].at = "open"
             /\ Handling(frames'[k]) => frames'[k].irq \in Irqs
  <2>1. CASE k = L + 1
    BY <1>2, <1>3, <2>1 DEF Handling
  <2>2. CASE k \in 1..L
    <3>1. k \in 1..Len(frames) /\ frames'[k] = frames[k] /\ L > 0
      BY <1>0, <1>3, <2>2
    <3>2. k < L => frames[k].at = "open"
      BY <1>0, <3>1 DEF BaseInv, OpenInv
    <3>3. frames[k].estatus = TRUE /\ (Handling(frames[k]) => frames[k].irq \in Irqs)
      BY <3>1 DEF BaseInv, OpenInv
    <3> QED
      BY <1>4, <2>2, <3>1, <3>2, <3>3
  <2>3. k = L + 1 \/ k \in 1..L
    BY <1>6
  <2> QED
    BY <2>1, <2>2, <2>3
<1>7. OpenInv'
  BY <1>3, <1>6, Zenon DEF OpenInv, Handling
<1>8. TypeInv'
  BY <1>1, <1>3 DEF BaseInv, TypeInv
<1>9. PieInv'
  BY <1>1, <1>2, <1>4, <1>5 DEF PieInv
<1> QED
  BY <1>7, <1>8, <1>9 DEF BaseInv

\* Returning finds the frame below open, with interrupts enabled.
LEMMA ExitBase == ASSUME BaseInv, Exit PROVE BaseInv'
<1>0. PICK L \in Nat : L = Len(frames) /\ L >= 1 /\ frames \in Seq(Frame)
  BY DEF Exit, BaseInv, TypeInv, Idle
<1>1. /\ frames' = SubSeq(frames, 1, L - 1) /\ pie' = TRUE
      /\ UNCHANGED <<req, ienable, active, prio_mask, section, mpc, reg, saved>>
  BY <1>0, TopBase DEF Exit, masks, program
<1>2. /\ frames' \in Seq(Frame) /\ Len(frames') = L - 1
      /\ \A k \in 1..(L - 1) : frames'[k] = frames[k]
  BY <1>0, <1>1
<1>3. mpc = "idle" /\ ~section
  BY TopBase DEF Exit
<1>4. ~Idle' => Top' = frames[L - 1] /\ frames[L - 1].at = "open"
  <2> SUFFICES ASSUME ~Idle' PROVE Top' = frames[L - 1] /\ frames[L - 1].at = "open"
    OBVIOUS
  <2>1. L - 1 >= 1
    BY <1>0, <1>2 DEF Idle
  <2>2. Top' = frames[L - 1]
    BY <1>0, <1>2, <2>1 DEF Top
  <2> QED
    BY <1>0, <2>1, <2>2 DEF BaseInv, OpenInv
<1>5. ASSUME NEW k \in 1..(L - 1)
      PROVE  /\ frames'[k].estatus = TRUE /\ frames'[k].at = "open"
             /\ Handling(frames'[k]) => frames'[k].irq \in Irqs
  <2>1. k \in 1..Len(frames) /\ k < Len(frames) /\ frames'[k] = frames[k]
    BY <1>0, <1>2
  <2> QED
    BY <2>1 DEF BaseInv, OpenInv
<1>6. OpenInv'
  BY <1>2, <1>5, Zenon DEF OpenInv, Handling
<1>7. TypeInv'
  BY <1>1, <1>2 DEF BaseInv, TypeInv
<1>8. PieInv'
  BY <1>1, <1>3, <1>4 DEF PieInv
<1> QED
  BY <1>6, <1>7, <1>8 DEF BaseInv

\* Every step keeps it.
LEMMA BaseKeeps == ASSUME BaseInv, [Next]_vars PROVE BaseInv'
<1>1. CASE Request
  BY <1>1 DEF Request, masks, program, BaseInv, TypeInv, OpenInv, PieInv, Handling,
              Idle, Top
<1>2. CASE \/ OpenSection \/ CloseSection \/ RegStep
           \/ \E i \in Irqs, h \in Handlers \cup {Null} : Register(i, h)
  BY <1>2, ProgramBase
<1>3. CASE Enter \/ Exit
  BY <1>3, EnterBase, ExitBase
<1>4. CASE Scan
  <2> DEFINE f == [Top EXCEPT !.at = "isr", !.irq = Chosen(Pending),
                              !.acked = FALSE, !.opened = FALSE]
  <2>1. /\ ~Idle /\ Top.at \in {"scan", "rescan"} /\ SetTop(f)
        /\ UNCHANGED <<req, ienable, active, prio_mask, section, mpc, reg, saved, pie>>
    BY <1>4 DEF Scan, masks, program
  <2>2. PICK i \in Irqs : i = Chosen(Pending)
    BY <1>4, ChosenPending DEF BaseInv, TypeInv, Scan, Pending
  <2>3. f = [Top EXCEPT !.at = "isr", !.irq = i, !.acked = FALSE, !.opened = FALSE]
    BY <2>2
  <2>4. i \in -1..(NIRQ - 1) /\ Top \in Frame /\ Top.estatus = TRUE /\ ~pie
    <3>1. i \in -1..(NIRQ - 1)
      BY IrqAssumption DEF Irqs
    <3> QED
      BY <2>1, <3>1, TopBase
  <2> HIDE DEF f
  <2>5. f \in Frame /\ f.at = "isr" /\ f.irq \in Irqs /\ f.estatus = TRUE
    BY <2>2, <2>3, <2>4 DEF Frame
  <2> QED
    BY <2>1, <2>4, <2>5, TopBaseKeeps DEF BaseInv, TypeInv
<1>5. CASE Answer
  <2> DEFINE f == [Top EXCEPT !.acked = TRUE]
  <2>1. /\ ~Idle /\ Top.at = "isr" /\ SetTop(f) /\ req' = req \ {Top.irq}
        /\ UNCHANGED <<ienable, active, prio_mask, section, mpc, reg, saved, pie>>
    BY <1>5 DEF Answer, Restored, masks, program
  <2>2. f \in Frame /\ f.at = "isr" /\ f.irq \in Irqs /\ f.estatus = TRUE /\ ~pie
    BY <2>1, TopBase DEF Frame, Handling
  <2> HIDE DEF f
  <2> QED
    BY <2>1, <2>2, TopBaseKeeps DEF BaseInv, TypeInv
<1>6. CASE Return
  <2> DEFINE f == [Top EXCEPT !.at = "rescan"]
  <2>1. /\ ~Idle /\ Top.at = "isr" /\ SetTop(f)
        /\ UNCHANGED <<req, ienable, active, prio_mask, section, mpc, reg, saved, pie>>
    BY <1>6 DEF Return, masks, program
  <2>2. f \in Frame /\ f.at = "rescan" /\ f.estatus = TRUE /\ ~pie
    BY <2>1, TopBase DEF Frame
  <2> HIDE DEF f
  <2> QED
    BY <2>1, <2>2, TopBaseKeeps DEF BaseInv, TypeInv, Handling
<1>7. CASE Interruptible
  <2> DEFINE f == [Top EXCEPT !.at = "open", !.opened = TRUE, !.old = prio_mask]
  <2>1. /\ ~Idle /\ Top.at = "isr" /\ SetTop(f) /\ pie' = TRUE
        /\ prio_mask' = MoreUrgent(Top.irq)
        /\ ienable' = active \cap MoreUrgent(Top.irq)
        /\ UNCHANGED <<req, active, section, mpc, reg, saved>>
    BY <1>7 DEF Interruptible, program
  <2>2. /\ f \in Frame /\ f.at = "open" /\ f.irq = Top.irq /\ f.estatus = TRUE
        /\ Top.irq \in Irqs
    BY <2>1, TopBase DEF Frame, Handling, BaseInv, TypeInv
  <2> HIDE DEF f
  <2>3. MoreUrgent(Top.irq) \subseteq Irqs
    BY <2>2, IrqAssumption DEF MoreUrgent, Irqs
  <2> QED
    BY <2>1, <2>2, <2>3, TopBaseKeeps DEF BaseInv, TypeInv
<1>8. CASE NonInterruptible
  <2> DEFINE f == [Top EXCEPT !.at = "isr"]
  <2>1. /\ ~Idle /\ Top.at = "open" /\ SetTop(f) /\ pie' = FALSE
        /\ prio_mask' = Top.old /\ ienable' = Top.old \cap active
        /\ UNCHANGED <<req, active, section, mpc, reg, saved>>
    BY <1>8 DEF NonInterruptible, OldMask, program
  <2>2. /\ f \in Frame /\ f.at = "isr" /\ f.irq \in Irqs /\ f.estatus = TRUE
        /\ Top.old \subseteq Irqs
    BY <2>1, TopBase DEF Frame, Handling
  <2> HIDE DEF f
  <2> QED
    BY <2>1, <2>2, TopBaseKeeps DEF BaseInv, TypeInv
<1>9. CASE IsrEnables
  <2>1. /\ UNCHANGED <<frames, pie, section, mpc, reg, saved, req, prio_mask>>
        /\ active' \subseteq Irqs /\ ienable' \subseteq Irqs
    BY <1>9 DEF IsrEnables, program, BaseInv, TypeInv
  <2> QED
    BY <2>1 DEF BaseInv, TypeInv, OpenInv, PieInv, Handling, Idle, Top
<1>10. CASE UNCHANGED vars
  BY <1>10 DEF vars, masks, program, BaseInv, TypeInv, OpenInv, PieInv, Handling,
               Idle, Top
<1> QED
  BY <1>1, <1>2, <1>3, <1>4, <1>5, <1>6, <1>7, <1>8, <1>9, <1>10 DEF Next, IsrStep

\* The program starts outside every section, with no frame.
LEMMA BaseStarts == ASSUME Init PROVE BaseInv
  BY IrqAssumption DEF Init, BaseInv, TypeInv, OpenInv, PieInv, Idle, Irqs

\* No interrupt is taken in a section of the program or while it registers a
\* handler, whatever calls nest in it: alt_irq_enable_all() gives back what
\* alt_irq_disable_all() saved.
THEOREM SectionsAreClosed == Spec => SectionsHold
<1>1. BaseInv /\ [Next]_vars => [Idle /\ frames' # <<>> => ~section /\ mpc = "idle"]_vars
  <2> SUFFICES ASSUME BaseInv, Next, Idle, frames' # <<>>
               PROVE  ~section /\ mpc = "idle"
    OBVIOUS
  <2>1. Enter
    BY DEF Next, Request, OpenSection, CloseSection, Register, RegStep, RegHandler,
           RegContext, RegActive, RegIenable, RegRestore, IsrStep, Scan, Exit, Answer,
           NonInterruptible, Return, Interruptible, IsrEnables, Idle
  <2>2. pie
    BY <2>1 DEF Enter
  <2> QED
    BY <2>2 DEF BaseInv, PieInv
<1>2. Init => BaseInv
  BY BaseStarts
<1>3. BaseInv /\ [Next]_vars => BaseInv'
  BY BaseKeeps
<1> QED
  BY <1>1, <1>2, <1>3, PTL DEF Spec, SectionsHold

-----------------------------------------------------------------------------
(***************************************************************************)
(* What the dispatch loop finds in the table.  Outside the registration of *)
(* an interrupt its enable, its handler and its context agree; the program *)
(* registers with interrupts disabled, so no frame sees them disagree.     *)
(***************************************************************************)
Agrees(i) == handler[i] # Null /\ context[i] = handler[i]

\* The interrupt whose registration is under way.
BeingChanged == IF mpc \in {"context", "mask", "ienable"} THEN {reg[1]} ELSE {}

TableInv ==
    /\ handler \in [Irqs -> Handlers \cup {Null}]
    /\ context \in [Irqs -> Handlers \cup {Null}]
    /\ \A i \in Irqs : mpc # "context" \/ i # reg[1] => context[i] = handler[i]
    /\ mpc = "context" => handler[reg[1]] = reg[2]
    /\ mpc \in {"mask", "ienable"} => handler[reg[1]] = reg[2]
    /\ \A i \in (active \cup ienable) \ BeingChanged : handler[i] # Null
    /\ mpc = "ienable" /\ reg[1] \in active => handler[reg[1]] # Null
    /\ CalledAsRegistered
    /\ ~Idle /\ Top.at = "scan" => Pending # {}

\* With the frames and the tables unchanged every frame still has its handler.
LEMMA SameCalls ==
    ASSUME CalledAsRegistered, UNCHANGED <<frames, handler, context>>
    PROVE  CalledAsRegistered'
BY DEF CalledAsRegistered, Running

\* A new last frame that runs no handler, or runs one that is registered, keeps
\* the rest of the stack as it is.
LEMMA TopCalls ==
    ASSUME TypeInv, ~Idle, CalledAsRegistered, NEW f \in Frame, SetTop(f),
           UNCHANGED <<handler, context>>,
           Handling(f) /\ ~f.acked => Agrees(f.irq)
    PROVE  CalledAsRegistered'
<1>1. /\ Len(frames') = Len(frames) /\ Len(frames) \in Nat /\ Len(frames) >= 1
      /\ frames'[Len(frames)] = f
      /\ \A k \in 1..Len(frames) : k # Len(frames) => frames'[k] = frames[k]
  BY NewTop
<1> SUFFICES ASSUME NEW k \in Running', ~frames'[k].acked
             PROVE  handler'[frames'[k].irq] # Null
                    /\ context'[frames'[k].irq] = handler'[frames'[k].irq]
  BY DEF CalledAsRegistered
<1>2. k \in 1..Len(frames) /\ frames'[k].at \in {"isr", "open"}
  BY <1>1 DEF Running
<1>3. CASE k = Len(frames)
  BY <1>1, <1>2, <1>3 DEF Handling, Agrees
<1>4. CASE k # Len(frames)
  <2>1. frames'[k] = frames[k] /\ k \in Running
    BY <1>1, <1>2, <1>4 DEF Running
  <2> QED
    BY <2>1 DEF CalledAsRegistered
<1> QED
  BY <1>3, <1>4

\* The program's steps: nothing is dispatched, and the registration agrees with
\* the table when it ends.
LEMMA ProgramTable ==
    ASSUME BaseInv, TableInv,
           \/ OpenSection \/ CloseSection \/ RegStep
           \/ \E i \in Irqs, h \in Handlers \cup {Null} : Register(i, h)
    PROVE  TableInv'
<1>1. UNCHANGED <<frames, req, prio_mask>> /\ Idle
  BY DEF OpenSection, CloseSection, RegStep, Register, RegHandler, RegContext,
         RegActive, RegIenable, RegRestore, masks, tables
<1>2. Idle' /\ Running' = {} /\ CalledAsRegistered'
  BY <1>1 DEF Idle, Running, CalledAsRegistered
<1>3. reg[1] \in Irqs /\ reg[2] \in Handlers \cup {Null}
  BY DEF BaseInv, TypeInv
<1>5. active \subseteq Irqs /\ ienable \subseteq Irqs
  BY DEF BaseInv, TypeInv
<1>6. CASE OpenSection \/ CloseSection
  BY <1>2, <1>6 DEF OpenSection, CloseSection, TableInv, BeingChanged, masks, tables
<1>7. ASSUME NEW i \in Irqs, NEW h \in Handlers \cup {Null}, Register(i, h)
      PROVE  TableInv'
  BY <1>2, <1>7 DEF Register, TableInv, BeingChanged, masks, tables
<1>8. CASE RegHandler
  BY <1>2, <1>3, <1>5, <1>8 DEF RegHandler, TableInv, BeingChanged, masks
<1>9. CASE RegContext
  BY <1>2, <1>3, <1>5, <1>9 DEF RegContext, TableInv, BeingChanged, masks
<1>10. CASE RegActive
  BY <1>2, <1>3, <1>5, <1>10 DEF RegActive, TableInv, BeingChanged, tables
<1>11. CASE RegIenable
  BY <1>2, <1>3, <1>5, <1>11 DEF RegIenable, TableInv, BeingChanged, tables
<1>12. CASE RegRestore
  BY <1>2, <1>12 DEF RegRestore, TableInv, BeingChanged, masks, tables
<1> QED
  BY <1>6, <1>7, <1>8, <1>9, <1>10, <1>11, <1>12 DEF RegStep

\* While a frame is there the program registers nothing: the table stays and
\* every interrupt that is enabled has a handler.
LEMMA FramesTable ==
    ASSUME BaseInv, TableInv, ~Idle
    PROVE  mpc = "idle" /\ \A i \in active \cup ienable : Agrees(i)
<1>1. mpc = "idle"
  BY DEF BaseInv, PieInv
<1> QED
  BY <1>1 DEF TableInv, BeingChanged, BaseInv, TypeInv, Agrees

\* A step of the last frame that leaves the table and enables nothing new.
LEMMA TopTable ==
    ASSUME BaseInv, TableInv, ~Idle, NEW f \in Frame, SetTop(f), f.at # "scan",
           Handling(f) /\ ~f.acked => Agrees(f.irq),
           active' = active, ienable' \subseteq active \cup ienable,
           UNCHANGED <<tables, program>>
    PROVE  TableInv'
<1>1. mpc = "idle" /\ \A i \in active \cup ienable : Agrees(i)
  BY FramesTable
<1>2. UNCHANGED <<handler, context, mpc, reg>>
  BY DEF tables, program
<1>3. Top' = f
  BY NewTop DEF BaseInv
<1>4. CalledAsRegistered'
  BY <1>2, TopCalls DEF BaseInv, TableInv
<1> QED
  BY <1>1, <1>2, <1>3, <1>4 DEF TableInv, BeingChanged, Agrees

\* The first pass of a loop that an interrupt has entered finds it pending, and
\* the interrupts a frame lets in or a handler enables are registered ones.
LEMMA TableKeeps ==
    ASSUME BaseInv, TableInv, [Next]_vars
    PROVE  TableInv'
<1>1. CASE Request
  <2>1. UNCHANGED <<frames, handler, context, mpc, reg, active, ienable>>
        /\ req \subseteq req'
    BY <1>1 DEF Request, masks, program, tables
  <2>2. CalledAsRegistered' /\ Idle' = Idle /\ Top' = Top /\ Pending \subseteq Pending'
    BY <2>1, SameCalls DEF TableInv, Idle, Top, Pending
  <2> QED
    BY <2>1, <2>2 DEF TableInv, BeingChanged
<1>2. CASE \/ OpenSection \/ CloseSection \/ RegStep
           \/ \E i \in Irqs, h \in Handlers \cup {Null} : Register(i, h)
  BY <1>2, ProgramTable
<1>3. CASE Enter
  <2>1. PICK L \in Nat : L = Len(frames)
    BY DEF BaseInv, TypeInv
  <2>2. /\ UNCHANGED <<req, active, ienable, handler, context, mpc, reg>>
        /\ Pending # {}
    BY <1>3 DEF Enter, External, masks, program, tables
  <2>3. /\ Len(frames') = L + 1 /\ frames'[L + 1].at = "scan"
        /\ \A k \in 1..L : frames'[k] = frames[k]
    BY <1>3, <2>1 DEF Enter, BaseInv, TypeInv
  <2>4. CalledAsRegistered'
    <3> SUFFICES ASSUME NEW k \in Running', ~frames'[k].acked
                 PROVE  handler[frames'[k].irq] # Null
                        /\ context[frames'[k].irq] = handler[frames'[k].irq]
      BY <2>2 DEF CalledAsRegistered
    <3>1. k \in 1..L /\ frames'[k] = frames[k] /\ k \in Running
      BY <2>1, <2>3 DEF Running
    <3> QED
      BY <3>1 DEF TableInv, CalledAsRegistered
  <2>5. Pending' # {}
    BY <2>2 DEF Pending
  <2> QED
    BY <2>2, <2>4, <2>5 DEF TableInv, BeingChanged
<1>4. CASE Scan
  <2> DEFINE f == [Top EXCEPT !.at = "isr", !.irq = Chosen(Pending),
                              !.acked = FALSE, !.opened = FALSE]
  <2>1. ~Idle /\ SetTop(f) /\ UNCHANGED <<active, ienable, tables, program>>
    BY <1>4 DEF Scan, masks
  <2>2. Chosen(Pending) \in Pending /\ Pending \subseteq ienable
    BY <1>4, ChosenPending DEF BaseInv, Scan, Pending
  <2>3. Agrees(Chosen(Pending))
    BY <2>1, <2>2, FramesTable
  <2>4. f \in Frame /\ f.at = "isr" /\ f.irq = Chosen(Pending)
    <3>1. PICK i : i = Chosen(Pending)
      OBVIOUS
    <3>2. i \in -1..(NIRQ - 1) /\ Top \in Frame
      <4>1. i \in Irqs
        BY <2>2, <3>1 DEF BaseInv, TypeInv
      <4>2. i \in -1..(NIRQ - 1)
        BY <4>1, IrqAssumption DEF Irqs
      <4> QED
        BY <2>1, <4>2, TopBase
    <3>3. f = [Top EXCEPT !.at = "isr", !.irq = i, !.acked = FALSE, !.opened = FALSE]
      BY <3>1
    <3> HIDE DEF f
    <3> QED
      BY <3>1, <3>2, <3>3 DEF Frame
  <2> HIDE DEF f
  <2> QED
    BY <2>1, <2>3, <2>4, TopTable
<1>5. CASE Exit
  <2>1. PICK L \in Nat : L = Len(frames) /\ L >= 1 /\ frames \in Seq(Frame)
    BY <1>5 DEF Exit, BaseInv, TypeInv, Idle
  <2>2. /\ UNCHANGED <<active, ienable, handler, context, mpc, reg>>
        /\ frames' = SubSeq(frames, 1, L - 1)
    BY <1>5, <2>1 DEF Exit, masks, program, tables
  <2>3. Len(frames') = L - 1 /\ \A k \in 1..(L - 1) : frames'[k] = frames[k]
    BY <2>1, <2>2
  <2>4. CalledAsRegistered'
    <3> SUFFICES ASSUME NEW k \in Running', ~frames'[k].acked
                 PROVE  handler[frames'[k].irq] # Null
                        /\ context[frames'[k].irq] = handler[frames'[k].irq]
      BY <2>2 DEF CalledAsRegistered
    <3>1. k \in 1..(L - 1) /\ frames'[k] = frames[k] /\ k \in Running
      BY <2>1, <2>3 DEF Running
    <3> QED
      BY <3>1 DEF TableInv, CalledAsRegistered
  <2>5. ~Idle' => Top'.at = "open"
    <3> SUFFICES ASSUME ~Idle' PROVE Top'.at = "open"
      OBVIOUS
    <3>1. L - 1 >= 1
      BY <2>1, <2>3, <2>2 DEF Idle
    <3>2. Top' = frames[L - 1]
      BY <2>1, <2>3, <3>1 DEF Top
    <3>3. frames[L - 1].at = "open"
      BY <2>1, <3>1 DEF BaseInv, OpenInv
    <3> QED
      BY <3>2, <3>3
  <2> QED
    BY <2>2, <2>4, <2>5 DEF TableInv, BeingChanged
<1>6. CASE Answer
  <2> DEFINE f == [Top EXCEPT !.acked = TRUE]
  <2>1. ~Idle /\ Top.at = "isr" /\ SetTop(f)
        /\ UNCHANGED <<active, ienable, tables, program>>
    BY <1>6 DEF Answer, masks
  <2>2. f \in Frame /\ f.at = "isr" /\ f.acked
    BY <2>1, TopBase DEF Frame
  <2> HIDE DEF f
  <2> QED
    BY <2>1, <2>2, TopTable
<1>7. CASE Return
  <2> DEFINE f == [Top EXCEPT !.at = "rescan"]
  <2>1. ~Idle /\ SetTop(f) /\ UNCHANGED <<active, ienable, tables, program>>
    BY <1>7 DEF Return, masks
  <2>2. f \in Frame /\ f.at = "rescan"
    BY <2>1, TopBase DEF Frame
  <2> HIDE DEF f
  <2> QED
    BY <2>1, <2>2, TopTable DEF Handling
<1>8. CASE Interruptible
  <2> DEFINE f == [Top EXCEPT !.at = "open", !.opened = TRUE, !.old = prio_mask]
  <2>1. ~Idle /\ Top.at = "isr" /\ SetTop(f) /\ active' = active
        /\ ienable' \subseteq active /\ UNCHANGED <<tables, program>>
    BY <1>8 DEF Interruptible
  <2>2. f \in Frame /\ f.at = "open" /\ f.irq = Top.irq /\ f.acked = Top.acked
    BY <2>1, TopBase DEF Frame, BaseInv, TypeInv
  <2>3. ~Top.acked => Agrees(Top.irq)
    BY <2>1, TopBase DEF TableInv, CalledAsRegistered, Running, Top, Agrees
  <2> HIDE DEF f
  <2> QED
    BY <2>1, <2>2, <2>3, TopTable
<1>9. CASE NonInterruptible
  <2> DEFINE f == [Top EXCEPT !.at = "isr"]
  <2>1. ~Idle /\ Top.at = "open" /\ SetTop(f) /\ active' = active
        /\ ienable' \subseteq active /\ UNCHANGED <<tables, program>>
    BY <1>9 DEF NonInterruptible
  <2>2. f \in Frame /\ f.at = "isr" /\ f.irq = Top.irq /\ f.acked = Top.acked
    BY <2>1, TopBase DEF Frame
  <2>3. ~Top.acked => Agrees(Top.irq)
    BY <2>1, TopBase DEF TableInv, CalledAsRegistered, Running, Top, Agrees
  <2> HIDE DEF f
  <2> QED
    BY <2>1, <2>2, <2>3, TopTable
<1>10. CASE IsrEnables
  <2>1. PICK i \in Irqs : \/ active' = active \ {i}
                          \/ handler[i] # Null /\ active' = active \cup {i}
    BY <1>10 DEF IsrEnables
  <2>2. /\ UNCHANGED <<frames, handler, context, mpc, reg, req>>
        /\ ~Idle /\ Top.at # "scan" /\ ienable' = active'
    BY <1>10 DEF IsrEnables, tables, program
  <2>3. mpc = "idle" /\ \A k \in active' : handler[k] # Null
    BY <2>1, <2>2, FramesTable DEF Agrees
  <2>4. CalledAsRegistered' /\ Idle' = Idle /\ Top' = Top
    BY <2>2, SameCalls DEF TableInv, Idle, Top
  <2> QED
    BY <2>2, <2>3, <2>4 DEF TableInv, BeingChanged
<1>11. CASE UNCHANGED vars
  <2>1. UNCHANGED <<frames, handler, context, mpc, reg, req, active, ienable>>
    BY <1>11 DEF vars
  <2>2. CalledAsRegistered' /\ Idle' = Idle /\ Top' = Top /\ Pending' = Pending
    BY <2>1, SameCalls DEF TableInv, Idle, Top, Pending
  <2> QED
    BY <2>1, <2>2 DEF TableInv, BeingChanged
<1> QED
  BY <1>1, <1>2, <1>3, <1>4, <1>5, <1>6, <1>7, <1>8, <1>9, <1>10, <1>11
  DEF Next, IsrStep

LEMMA TableStarts ==
    ASSUME Init
    PROVE  TableInv
<1>1. Idle /\ Running = {}
  BY DEF Init, Idle, Running
<1> QED
  BY <1>1 DEF Init, TableInv, BeingChanged, CalledAsRegistered

\* Both invariants hold in every state.
LEMMA TableHolds == Spec => [](BaseInv /\ TableInv)
<1>1. Init => BaseInv /\ TableInv
  BY BaseStarts, TableStarts
<1>2. BaseInv /\ TableInv /\ [Next]_vars => BaseInv' /\ TableInv'
  BY BaseKeeps, TableKeeps
<1> QED
  BY <1>1, <1>2, PTL DEF Spec

\* An interrupt is dispatched to the handler that was registered for it, with
\* its context, though alt_iic_isr_register() writes the two one after the other
\* and enables the interrupt only then: for every number of interrupts and of
\* handlers, and however deep the handlers nest.
THEOREM HandlersAreRegistered == Spec => []CalledAsRegistered
<1>1. TableInv => CalledAsRegistered
  BY DEF TableInv
<1> QED
  BY <1>1, TableHolds, PTL

\* The do-while loop of alt_irq_handler() always finds an interrupt pending in
\* its first pass, which does not test for one: nothing takes back a request or
\* an enable between the exception entry and the first look.
THEOREM FirstPassIsSafe == Spec => []FirstScanFinds
<1>1. TableInv => FirstScanFinds
  BY DEF TableInv, FirstScanFinds
<1> QED
  BY <1>1, TableHolds, PTL
=============================================================================
