------------------------------ MODULE IrqDispatch ------------------------------
(***************************************************************************)
(* Interrupts of the Nios II as the HAL handles them: the registration of  *)
(* handlers, the critical sections of the program, the dispatch loop of    *)
(* alt_irq_handler(), and the handlers that let more urgent interrupts in  *)
(* with alt_irq_interruptible().  A lower number is more urgent.           *)
(*                                                                         *)
(* A device holds its request until its handler has answered it, which     *)
(* both devices of the system do.                                          *)
(***************************************************************************)
EXTENDS Integers, Sequences, FiniteSetsExt

CONSTANTS
    NIRQ,        \* ALT_NIRQ
    Handlers,    \* the handlers there are, each with a context of its own
    Null,
    InWindow     \* whether handlers change the enables while a handler lets
                 \* more urgent interrupts in

ASSUME IrqAssumption == NIRQ \in Nat \ {0} /\ Null \notin Handlers /\ InWindow \in BOOLEAN

VARIABLES
    req,         \* the requests of the devices
    pie,         \* status.PIE
    ienable,     \* the control register of that name
    active,      \* alt_irq_active
    prio_mask,   \* alt_priority_mask
    handler, context,  \* alt_irq[]
    section,     \* whether the program is in a critical section of its own
    mpc, reg, saved,   \* the program's call of alt_ic_isr_register()
    frames       \* the calls of alt_irq_handler(), the current one last

vars == <<req, pie, ienable, active, prio_mask, handler, context, section, mpc,
          reg, saved, frames>>

tables  == <<handler, context>>
masks   == <<ienable, active, prio_mask>>
program == <<section, mpc, reg, saved>>

Irqs    == 0..(NIRQ - 1)
Pending == req \cap ienable
Idle    == frames = <<>>
Top     == frames[Len(frames)]

Init == /\ req \in SUBSET Irqs
        /\ pie = TRUE /\ ienable = {} /\ active = {} /\ prio_mask = Irqs
        /\ handler = [i \in Irqs |-> Null] /\ context = [i \in Irqs |-> Null]
        /\ section = FALSE /\ mpc = "idle" /\ reg = <<0, Null>>
        /\ saved = [outer |-> TRUE, inner |-> TRUE]
        /\ frames = <<>>

Request == \E i \in Irqs : /\ req' = req \cup {i}
                           /\ UNCHANGED <<pie, masks, tables, program, frames>>

-----------------------------------------------------------------------------
(***************************************************************************)
(* The program.  alt_irq_enable_all() restores what was saved before.      *)
(***************************************************************************)
StaysOn          == pie                                             \* mutant
Disabled         == FALSE
AlwaysOn(status) == TRUE                                            \* mutant
Restored(status) == status

OpenSection == /\ Idle /\ mpc = "idle" /\ ~section
               /\ section' = TRUE /\ pie' = Disabled
               /\ UNCHANGED <<req, masks, tables, mpc, reg, saved, frames>>

CloseSection == /\ Idle /\ mpc = "idle" /\ section
                /\ section' = FALSE /\ pie' = Restored(TRUE)
                /\ UNCHANGED <<req, masks, tables, mpc, reg, saved, frames>>

\* alt_iic_isr_register(): a NULL handler disables the interrupt.
Register(i, h) ==
    /\ Idle /\ mpc = "idle"
    /\ mpc' = "handler" /\ reg' = <<i, h>>
    /\ saved' = [saved EXCEPT !.outer = pie] /\ pie' = Disabled
    /\ UNCHANGED <<req, masks, tables, section, frames>>

RegHandler == /\ Idle /\ mpc = "handler"
              /\ handler' = [handler EXCEPT ![reg[1]] = reg[2]]
              /\ mpc' = "context"
              /\ UNCHANGED <<req, pie, masks, context, section, reg, saved, frames>>

RegContext == /\ Idle /\ mpc = "context"
              /\ context' = [context EXCEPT ![reg[1]] = reg[2]]
              /\ mpc' = "mask"
              /\ saved' = [saved EXCEPT !.inner = pie] /\ pie' = Disabled
              /\ UNCHANGED <<req, masks, handler, section, reg, frames>>

\* alt_irq_enable() and alt_irq_disable(), within their own section.
RegActive == /\ Idle /\ mpc = "mask"
             /\ active' = IF reg[2] # Null THEN active \cup {reg[1]}
                                           ELSE active \ {reg[1]}
             /\ mpc' = "ienable"
             /\ UNCHANGED <<req, pie, ienable, prio_mask, tables, section, reg,
                            saved, frames>>

RegIenable == /\ Idle /\ mpc = "ienable"
              /\ ienable' = active
              /\ pie' = Restored(saved.inner)
              /\ mpc' = "restore"
              /\ UNCHANGED <<req, active, prio_mask, tables, section, reg, saved,
                             frames>>

RegRestore == /\ Idle /\ mpc = "restore"
              /\ pie' = Restored(saved.outer)
              /\ mpc' = "idle"
              /\ UNCHANGED <<req, masks, tables, section, reg, saved, frames>>

RegStep == RegHandler \/ RegContext \/ RegActive \/ RegIenable \/ RegRestore

-----------------------------------------------------------------------------
(***************************************************************************)
(* The exception entry, the dispatch loop, and the handlers.               *)
(***************************************************************************)
AnyException == TRUE                                                \* mutant
External     == Pending # {}

Enter == /\ pie /\ External
         /\ frames' = Append(frames, [at |-> "scan", irq |-> -1, acked |-> FALSE,
                                      opened |-> FALSE, old |-> {}, estatus |-> pie])
         /\ pie' = FALSE
         /\ UNCHANGED <<req, masks, tables, program>>

SetTop(f) == frames' = [frames EXCEPT ![Len(frames)] = f]

\* do { ... } while (active): the first pass does not test active.
LeastUrgent(active1) == Max(active1)                                \* mutant
Chosen(active1)      == Min(active1)

Scan == /\ ~Idle /\ Top.at \in {"scan", "rescan"} /\ Pending # {}
        /\ SetTop([Top EXCEPT !.at = "isr", !.irq = Chosen(Pending),
                              !.acked = FALSE, !.opened = FALSE])
        /\ UNCHANGED <<req, pie, masks, tables, program>>

Exit == /\ ~Idle /\ Top.at = "rescan" /\ Pending = {}
        /\ frames' = SubSeq(frames, 1, Len(frames) - 1)
        /\ pie' = Top.estatus
        /\ UNCHANGED <<req, masks, tables, program>>

\* The handler answers its device; the timer's then runs alt_tick() in a
\* section.
Answer == /\ ~Idle /\ Top.at = "isr" /\ ~Top.acked
          /\ req' = req \ {Top.irq}
          /\ SetTop([Top EXCEPT !.acked = TRUE])
          /\ pie' = Restored(pie)
          /\ UNCHANGED <<masks, tables, program>>

SelfToo(i)       == 0..i                                            \* mutant
MoreUrgent(i)    == 0..(i - 1)

Interruptible ==
    /\ ~Idle /\ Top.at = "isr" /\ ~Top.opened
    /\ SetTop([Top EXCEPT !.at = "open", !.opened = TRUE, !.old = prio_mask])
    /\ prio_mask' = MoreUrgent(Top.irq)
    /\ ienable' = active \cap MoreUrgent(Top.irq)
    /\ pie' = TRUE
    /\ UNCHANGED <<req, active, tables, program>>

KeptMask == prio_mask                                               \* mutant
OldMask  == Top.old

NonInterruptible ==
    /\ ~Idle /\ Top.at = "open"
    /\ SetTop([Top EXCEPT !.at = "isr"])
    /\ pie' = FALSE
    /\ prio_mask' = OldMask
    /\ ienable' = OldMask \cap active
    /\ UNCHANGED <<req, active, tables, program>>

\* alt_ic_irq_enable() or alt_ic_irq_disable(), by a handler: the enables become
\* alt_irq_active, whatever alt_priority_mask is.
IsrEnables ==
    /\ ~Idle /\ Top.at \in {"isr", "open"}
    /\ prio_mask = Irqs \/ InWindow
    /\ \E i \in Irqs : \/ active' = active \ {i}
                       \/ handler[i] # Null /\ active' = active \cup {i}
    /\ ienable' = active'
    /\ UNCHANGED <<req, pie, prio_mask, tables, program, frames>>

Return == /\ ~Idle /\ Top.at = "isr" /\ Top.acked
          /\ SetTop([Top EXCEPT !.at = "rescan"])
          /\ UNCHANGED <<req, pie, masks, tables, program>>

IsrStep == Scan \/ Exit \/ Answer \/ NonInterruptible \/ Return

Next == \/ Request
        \/ OpenSection \/ CloseSection
        \/ \E i \in Irqs, h \in Handlers \cup {Null} : Register(i, h)
        \/ RegStep
        \/ Enter \/ IsrStep \/ Interruptible \/ IsrEnables

\* The processor goes on, and takes an interrupt when none is held off, at the
\* latest with the next instruction; the program leaves its sections, after
\* however many registrations.
Spec == /\ Init /\ [][Next]_vars
        /\ WF_vars(IsrStep) /\ WF_vars(RegStep) /\ SF_vars(CloseSection)
        /\ SF_vars(Enter)

-----------------------------------------------------------------------------

Running == {k \in 1..Len(frames) : frames[k].at \in {"isr", "open"}}

\* A handler is called with the context it was registered with, and no
\* interrupt is dispatched to a handler that is not there yet or no longer.
CalledAsRegistered ==
    \A k \in Running : LET i == frames[k].irq IN
        ~frames[k].acked => handler[i] # Null /\ context[i] = handler[i]

\* A handler is interrupted by more urgent ones only, and so never by itself.
MoreUrgentOnly == \A j, k \in Running : j < k => frames[k].irq < frames[j].irq

\* The dispatch loop, whose first pass does not test whether anything is
\* pending, always finds an interrupt and does not search for ever.
FirstScanFinds == ~Idle /\ Top.at = "scan" => Pending # {}

\* No interrupt is taken inside a section of the program, nor while it changes
\* the handler table, whatever calls nest in it.
SectionsHold ==
    [][Idle /\ frames' # <<>> => ~section /\ mpc = "idle"]_vars

\* Once every handler has returned, all registered interrupts are enabled
\* again, and only an open section holds them off.
AllEnabledAfter == Idle /\ mpc = "idle" => /\ ienable = active /\ prio_mask = Irqs
                                           /\ pie = ~section

\* The most urgent interrupt is answered, however often others come.
UrgentAnswered == 0 \in req /\ 0 \in active ~> 0 \notin req \/ 0 \notin active
=============================================================================
