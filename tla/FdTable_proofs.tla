---------------------------- MODULE FdTable_proofs ----------------------------
(***************************************************************************)
(* For every size of the pool and every set of devices: the locks exclude  *)
(* each other and exclude open(), although a lock is granted without a     *)
(* look at the highest descriptor.                                         *)
(***************************************************************************)
EXTENDS FdTable, TLAPS

\* Whoever shares a locked device sits above the holder: the one place the
\* grant did not look at is the highest descriptor.
SharersAbove == \A f, g \in Fds :
                   Holds(f) /\ g # f /\ dev[g] = dev[f] => g > f

Covered == /\ \A f \in Fds : f > 2 /\ dev[f] # None => f <= max_fd
           /\ redirected # {} => max_fd >= 3
           /\ redirected # Streams => \A f \in Fds : ~Holds(f)

IInv == TypeOK /\ StreamsStay /\ Covered /\ SharersAbove

\* The boot's table: three streams at /dev/null and no lock.
LEMMA InitInv == Init => IInv
<1> SUFFICES ASSUME Init PROVE IInv
    OBVIOUS
<1> USE FdAssumption
<1>1. Null \in Devices /\ Null # None /\ Streams \subseteq Fds
      BY DEF Streams, Fds
<1>2. TypeOK
      BY <1>1 DEF Init, TypeOK, Fds, Streams
<1>3. \A f \in Fds : ~Holds(f)
      BY DEF Init, Holds
<1>4. StreamsStay
      BY <1>1 DEF Init, StreamsStay
<1>5. Covered
      BY <1>3 DEF Init, Covered, Streams, Fds
<1> QED BY <1>2, <1>3, <1>4, <1>5 DEF IInv, SharersAbove

\* The high-water mark never falls, and covers the descriptor just taken.
LEMMA HighWaterRises ==
    ASSUME max_fd \in -1..(MAX_FD - 1), NEW f \in Fds
    PROVE  HighWater(f) \in -1..(MAX_FD - 1) /\ HighWater(f) >= f /\ HighWater(f) >= max_fd
BY FdAssumption DEF HighWater, Fds

\* A stream's new device: no lock exists yet.
LEMMA RedirectInv == ASSUME IInv, Redirect PROVE IInv'
<1> USE FdAssumption
<1>1. PICK f \in Fds : Free(f) /\ max_fd' = HighWater(f)
      BY DEF Redirect
<1>2. f > 2 /\ f \in Int
      BY <1>1 DEF Free, IInv, StreamsStay, Streams, Fds
<1>3. max_fd' \in -1..(MAX_FD - 1) /\ max_fd' >= f /\ max_fd' >= max_fd
      BY <1>1, HighWaterRises DEF IInv, TypeOK
<1>4. NextStream \in Streams /\ NextStream \in Fds
  <2>1. NextStream \in Streams
        BY DEF NextStream, Streams
  <2> QED BY <2>1 DEF Streams, Fds
<1>5. Console \in Devices /\ Console # None
      OBVIOUS
<1>6. TypeOK'
  <2>1. dev' \in [Fds -> Devices \cup {None}]
        BY <1>4, <1>5 DEF Redirect, IInv, TypeOK
  <2>2. flags' \in [Fds -> SUBSET (UserFlags \cup {"EXCL", "DEV"})]
        BY <1>4 DEF Redirect, IInv, TypeOK
  <2>3. redirected' \subseteq Streams
        BY <1>4 DEF Redirect, IInv, TypeOK
  <2>4. \A g \in Fds : dev'[g] = None => flags'[g] = {}
        BY <1>4, <1>5 DEF Redirect, IInv, TypeOK
  <2> QED BY <1>3, <2>1, <2>2, <2>3, <2>4 DEF TypeOK
<1>7. StreamsStay'
      BY <1>4, <1>5 DEF Redirect, IInv, TypeOK, StreamsStay, Streams, Fds
<1>8. \A g \in Fds : ~(Holds(g))'
      BY <1>4 DEF Redirect, IInv, TypeOK, Covered, Holds
<1>9. Covered'
  <2>1. \A g \in Fds : g > 2 => dev'[g] = dev[g]
        BY <1>4 DEF Redirect, IInv, TypeOK, Streams
  <2>2. \A g \in Fds : g > 2 /\ dev'[g] # None => g <= max_fd'
    <3> SUFFICES ASSUME NEW g \in Fds, g > 2, dev'[g] # None PROVE g <= max_fd'
        OBVIOUS
    <3>1. g <= max_fd /\ g \in Int /\ max_fd \in Int
          BY <2>1 DEF IInv, Covered, TypeOK, Fds
    <3> QED BY <3>1, <1>3
  <2>3. max_fd' >= 3
        BY <1>2, <1>3
  <2> QED BY <1>8, <2>2, <2>3 DEF Covered
<1> QED BY <1>6, <1>7, <1>8, <1>9 DEF IInv, SharersAbove

\* A successful open() gets a descriptor, and no lock of its device exists.
LEMMA OpenFacts ==
    ASSUME IInv, redirected = Streams, NEW f \in Fds, Free(f), max_fd' = HighWater(f),
           NEW d \in Devices, ~Locked(f, d, max_fd')
    PROVE  \A g \in Fds : Holds(g) => dev[g] # d
<1> USE FdAssumption
<1> SUFFICES ASSUME NEW g \in Fds, Holds(g), dev[g] = d PROVE FALSE
    OBVIOUS
<1>1. d # None /\ g # f
      BY DEF Free
<1>2. max_fd \in Int /\ max_fd >= 3
      BY DEF IInv, TypeOK, Covered, Streams
<1>3. g \in Int /\ 0 <= g /\ g <= max_fd
  <2>1. g \in Int /\ 0 <= g
        BY DEF Fds
  <2>0. Covered
        BY DEF IInv
  <2>2. CASE g > 2
        BY <2>0, <2>1, <2>2, <1>1 DEF Covered
  <2>3. CASE ~(g > 2)
        BY <2>1, <2>3, <1>2
  <2> QED BY <2>1, <2>2, <2>3
<1>4. max_fd' \in Int /\ max_fd' >= max_fd
      BY HighWaterRises DEF IInv, TypeOK
<1>5. g \in 0..max_fd'
      BY <1>2, <1>3, <1>4
<1> QED BY <1>1, <1>5 DEF Locked, Holds

\* Opening a device gives a descriptor without a lock.
LEMMA OpenInv == ASSUME IInv, OpenCall PROVE IInv'
<1> USE FdAssumption
<1>1. PICK d \in Devices, fl \in SUBSET UserFlags : Open(d, fl)
      BY DEF OpenCall
<1>2. redirected = Streams /\ redirected' = redirected
      BY DEF OpenCall
<1>3. CASE UNCHANGED <<dev, flags, max_fd>>
      BY <1>2, <1>3 DEF IInv, TypeOK, StreamsStay, Covered, SharersAbove, Holds
<1>4. ASSUME NEW f \in Fds, Free(f), max_fd' = HighWater(f),
             Locked(f, d, max_fd') => UNCHANGED <<dev, flags>>,
             ~Locked(f, d, max_fd') =>
                /\ dev' = [dev EXCEPT ![f] = d]
                /\ flags' = [flags EXCEPT ![f] = fl \cup {"DEV"}]
      PROVE  IInv'
  <2>1. max_fd' \in -1..(MAX_FD - 1) /\ max_fd' >= f /\ max_fd' >= max_fd
        BY <1>4, HighWaterRises DEF IInv, TypeOK
  <2>2. /\ max_fd \in Int /\ max_fd >= 3 /\ max_fd' \in Int
        /\ \A g \in Fds : g \in Int
        BY <1>2, <2>1 DEF IInv, TypeOK, Covered, Streams, Fds
  <2>3. CASE Locked(f, d, max_fd')
    <3>1. UNCHANGED <<dev, flags>>
          BY <1>4, <2>3
    <3>2. Covered'
          BY <1>2, <2>1, <2>2, <3>1 DEF IInv, Covered, Holds
    <3> QED BY <1>2, <2>1, <3>1, <3>2 DEF IInv, TypeOK, StreamsStay, SharersAbove, Holds
  <2>4. CASE ~Locked(f, d, max_fd')
    <3>1. \A g \in Fds : Holds(g) => dev[g] # d
          BY <1>2, <1>4, <2>4, OpenFacts
    <3>2. /\ dev' = [dev EXCEPT ![f] = d]
          /\ flags' = [flags EXCEPT ![f] = fl \cup {"DEV"}]
          BY <1>4, <2>4
    <3>3. \A g \in Fds : g # f => dev'[g] = dev[g] /\ flags'[g] = flags[g]
          BY <3>2 DEF IInv, TypeOK
    <3>4. dev'[f] = d /\ flags'[f] = fl \cup {"DEV"} /\ d # None /\ "EXCL" \notin flags'[f]
          BY <3>2 DEF IInv, TypeOK, UserFlags
    <3>5. TypeOK'
      <4>1. dev' \in [Fds -> Devices \cup {None}]
            BY <3>2 DEF IInv, TypeOK
      <4>2. fl \cup {"DEV"} \in SUBSET (UserFlags \cup {"EXCL", "DEV"})
            OBVIOUS
      <4>3. flags' \in [Fds -> SUBSET (UserFlags \cup {"EXCL", "DEV"})]
            BY <3>2, <4>2 DEF IInv, TypeOK
      <4>4. \A g \in Fds : dev'[g] = None => flags'[g] = {}
            BY <3>3, <3>4 DEF IInv, TypeOK
      <4> QED BY <1>2, <2>1, <4>1, <4>3, <4>4 DEF IInv, TypeOK
    <3>6. StreamsStay'
          BY <3>3, <3>4 DEF IInv, StreamsStay, Streams, Fds
    <3>7. Covered'
          BY <1>2, <2>1, <2>2, <3>3, <3>4 DEF IInv, Covered
    <3>8. SharersAbove'
          BY <3>1, <3>3, <3>4 DEF IInv, SharersAbove, Holds
    <3> QED BY <3>5, <3>6, <3>7, <3>8 DEF IInv
  <2> QED BY <2>3, <2>4
<1> QED BY <1>1, <1>3, <1>4 DEF Open

\* A close takes a descriptor away, with its lock.
LEMMA CloseInv == ASSUME IInv, NEW f \in Fds, Close(f) PROVE IInv'
<1> USE FdAssumption
<1>1. UNCHANGED <<max_fd, redirected>>
      BY DEF Close
<1>2. CASE CanRelease(f)
  <2>1. dev' = [dev EXCEPT ![f] = None] /\ flags' = [flags EXCEPT ![f] = {}]
        BY <1>2 DEF Close, NoFlags
  <2>2. \A g \in Fds : g # f => dev'[g] = dev[g] /\ flags'[g] = flags[g]
        BY <2>1 DEF IInv, TypeOK
  <2>3. dev'[f] = None /\ flags'[f] = {} /\ f \notin Streams
        BY <2>1, <1>2 DEF IInv, TypeOK, CanRelease, Streams
  <2>4. TypeOK'
        BY <1>1, <2>1, <2>2, <2>3 DEF IInv, TypeOK
  <2>5. StreamsStay'
        BY <2>2, <2>3 DEF IInv, StreamsStay, Streams, Fds
  <2>6. Covered'
        BY <1>1, <2>2, <2>3 DEF IInv, Covered, Holds
  <2>7. SharersAbove'
    <3>1. \A g \in Fds : Holds(g)' => Holds(g) /\ g # f /\ dev[g] # None
          BY <2>2, <2>3 DEF Holds, IInv, TypeOK
    <3>2. SharersAbove
          BY DEF IInv
    <3> QED BY <2>2, <2>3, <3>1, <3>2 DEF SharersAbove
  <2> QED BY <2>4, <2>5, <2>6, <2>7 DEF IInv
<1>3. CASE ~CanRelease(f)
  <2>1. UNCHANGED <<dev, flags>>
        BY <1>3 DEF Close
  <2> QED BY <1>1, <2>1 DEF IInv, TypeOK, StreamsStay, Covered, SharersAbove, Holds
<1> QED BY <1>2, <1>3

\* A lock is granted when all sharers are at the top of the table.
LEMMA LockInv == ASSUME IInv, NEW f \in Fds, Lock(f) PROVE IInv'
<1> USE FdAssumption
<1>1. UNCHANGED <<dev, max_fd, redirected>> /\ redirected = Streams /\ dev[f] # None
      BY DEF Lock, Ioctl, Opened
<1>2. CASE HasSharers(f)
      BY <1>1, <1>2 DEF Lock, IInv, TypeOK, StreamsStay, Covered, SharersAbove, Holds
<1>3. CASE ~HasSharers(f)
  <2>1. flags' = [flags EXCEPT ![f] = @ \cup {"EXCL"}]
        BY <1>3 DEF Lock
  <2>2. \A g \in Fds : g # f => flags'[g] = flags[g]
        BY <2>1 DEF IInv, TypeOK
  <2>3. TypeOK'
        BY <1>1, <2>1 DEF IInv, TypeOK
  <2>4. max_fd \in Int /\ max_fd >= 3 /\ \A g \in Fds : g \in Int /\ 0 <= g
        BY <1>1 DEF IInv, TypeOK, Covered, Streams, Fds
  <2>5. \A g \in Fds : dev[g] # None => g <= max_fd
    <3> SUFFICES ASSUME NEW g \in Fds, dev[g] # None PROVE g <= max_fd
        OBVIOUS
    <3>1. CASE g > 2
          BY <3>1 DEF IInv, Covered
    <3>2. CASE ~(g > 2)
          BY <3>2, <2>4
    <3> QED BY <3>1, <3>2
  <2>6. \A g \in Fds : g # f /\ dev[g] = dev[f] => g > f
    <3> SUFFICES ASSUME NEW g \in Fds, g # f, dev[g] = dev[f] PROVE g > f
        OBVIOUS
    <3>1. ~(g \in 0..(max_fd - 1))
          BY <1>3 DEF HasSharers
    <3>2. g = max_fd /\ f <= max_fd
          BY <3>1, <2>4, <2>5, <1>1
    <3> QED BY <3>2, <2>4
  <2>7. SharersAbove'
        BY <1>1, <2>2, <2>6 DEF IInv, SharersAbove, Holds
  <2> QED BY <1>1, <2>3, <2>7 DEF IInv, StreamsStay, Covered
<1> QED BY <1>2, <1>3

\* TIOCNXCL and fcntl() give no lock.
LEMMA FlagInv ==
    ASSUME IInv, NEW f \in Fds, NEW s, flags' = [flags EXCEPT ![f] = s],
           s \subseteq UserFlags \cup {"EXCL", "DEV"}, "EXCL" \in s => Holds(f),
           dev[f] # None, UNCHANGED <<dev, max_fd, redirected>>
    PROVE  IInv'
<1>1. flags'[f] = s /\ \A g \in Fds : g # f => flags'[g] = flags[g]
      BY DEF IInv, TypeOK
<1>2. \A g \in Fds : Holds(g)' => Holds(g)
      BY <1>1 DEF Holds
<1>3. TypeOK'
  <2>1. flags' \in [Fds -> SUBSET (UserFlags \cup {"EXCL", "DEV"})]
        BY DEF IInv, TypeOK
  <2> QED BY <1>1, <2>1 DEF IInv, TypeOK
<1> QED BY <1>2, <1>3 DEF IInv, StreamsStay, Covered, SharersAbove

\* The invariant is inductive.
LEMMA StepInv == ASSUME IInv, [Next]_vars PROVE IInv'
<1>1. CASE UNCHANGED vars
      BY <1>1 DEF vars, IInv, TypeOK, StreamsStay, Covered, SharersAbove, Holds
<1>2. ASSUME NEW f \in Fds, Unlock(f) PROVE IInv'
  <2>1. flags[f] \ {"EXCL"} \subseteq UserFlags \cup {"EXCL", "DEV"}
        BY DEF IInv, TypeOK
  <2>2. flags' = [flags EXCEPT ![f] = flags[f] \ {"EXCL"}]
        BY <1>2 DEF Unlock
  <2> QED BY <1>2, <2>1, <2>2, FlagInv DEF Unlock, Ioctl, Opened
<1>3. ASSUME NEW f \in Fds, NEW fl \in SUBSET UserFlags, Fcntl(f, fl) PROVE IInv'
  <2>1. /\ SetFlags(f, fl) \subseteq UserFlags \cup {"EXCL", "DEV"}
        /\ "EXCL" \in SetFlags(f, fl) => Holds(f)
        BY DEF IInv, TypeOK, SetFlags, Holds, UserFlags
  <2> QED BY <1>3, <2>1, FlagInv DEF Fcntl, Opened
<1> QED BY <1>1, <1>2, <1>3, RedirectInv, OpenInv, CloseInv, LockInv DEF Next

\* For every pool and every set of devices: no two descriptors hold one
\* device's lock, the searches miss no open descriptor, and the standard
\* streams keep a device.
THEOREM LocksExclude == Spec => [](OneHolder /\ MaxCovers /\ StreamsStay)
<1>1. IInv => OneHolder /\ MaxCovers /\ StreamsStay
  <2> SUFFICES ASSUME IInv PROVE OneHolder /\ MaxCovers
      BY DEF IInv
  <2>1. OneHolder
    <3>1. \A f, g \in Fds : ~(g > f /\ f > g)
          BY DEF Fds
    <3> QED BY <3>1 DEF IInv, SharersAbove, OneHolder
  <2>2. MaxCovers
    <3> SUFFICES ASSUME redirected = Streams, NEW f \in Fds, dev[f] # None
                 PROVE  f <= max_fd
        BY DEF MaxCovers
    <3>1. max_fd >= 3 /\ max_fd \in Int /\ f \in Int
          BY DEF IInv, TypeOK, Covered, Streams, Fds
    <3>2. CASE f > 2
          BY <3>2 DEF IInv, Covered
    <3>3. CASE ~(f > 2)
          BY <3>1, <3>3
    <3> QED BY <3>2, <3>3
  <2> QED BY <2>1, <2>2
<1> QED BY InitInv, StepInv, <1>1, PTL DEF Spec

\* For every pool and every set of devices, open() never gives a descriptor of
\* a device whose lock another descriptor holds.
THEOREM OpensExclude == Spec => NoOpenWhileHeld
<1>1. ASSUME IInv, [Next]_vars
      PROVE  [\A f, g \in Fds : dev[f] = None /\ dev'[f] # None =>
                 ~(Holds(g) /\ dev[g] = dev'[f])]_vars
  <2> SUFFICES ASSUME NEW f \in Fds, NEW g \in Fds, dev[f] = None, dev'[f] # None
               PROVE  ~(Holds(g) /\ dev[g] = dev'[f])
      OBVIOUS
  <2>1. CASE OpenCall
    <3>1. PICK d \in Devices, fl \in SUBSET UserFlags : Open(d, fl)
          BY <2>1 DEF OpenCall
    <3>2. PICK e \in Fds : /\ Free(e) /\ max_fd' = HighWater(e)
                           /\ ~Locked(e, d, max_fd') /\ dev' = [dev EXCEPT ![e] = d]
          BY <3>1 DEF Open
    <3>3. dev'[f] = d
          BY <3>2 DEF IInv, TypeOK
    <3>4. Holds(g) => dev[g] # d
      <4>1. redirected = Streams
            BY <2>1 DEF OpenCall
      <4> QED BY <1>1, <3>2, <4>1, OpenFacts
    <3> QED BY <3>3, <3>4
  <2>2. CASE Redirect
    <3>1. Covered /\ redirected # Streams
          BY <1>1, <2>2 DEF Redirect, IInv
    <3> QED BY <3>1 DEF Covered
  <2>3. CASE ~OpenCall /\ ~Redirect
    <3>1. CASE UNCHANGED dev
          BY <3>1
    <3>2. ASSUME NEW e \in Fds, Close(e) PROVE FALSE
          BY <1>1, <3>2 DEF Close, IInv, TypeOK
    <3> QED BY <1>1, <2>3, <3>1, <3>2 DEF Next, Lock, Unlock, Fcntl, vars
  <2> QED BY <2>1, <2>2, <2>3
<1> QED BY InitInv, StepInv, <1>1, PTL DEF Spec, NoOpenWhileHeld

\* A descriptor whose flags a call writes: the lock is lost there and nowhere
\* else.
LEMMA OneFlagsEntry ==
    ASSUME TypeOK, NEW e \in Fds, NEW s, flags' = [flags EXCEPT ![e] = s],
           NEW f \in Fds, Holds(f), ~(Holds(f))'
    PROVE  f = e /\ "EXCL" \notin s
BY DEF TypeOK, Holds

\* For every pool and every set of devices, a lock is lost only by the call
\* that gives it up: an open() that takes over a descriptor, or a flag that
\* fcntl() sets, never drops one.
THEOREM LocksAreKept == Spec => LockStays
<1>1. ASSUME IInv, [Next]_vars
      PROVE  [\A f \in Fds : Holds(f) /\ ~(Holds(f))' => Close(f) \/ Unlock(f)]_vars
  <2> SUFFICES ASSUME Next, NEW f \in Fds, Holds(f), ~(Holds(f))'
               PROVE  Close(f) \/ Unlock(f)
      BY <1>1
  <2>1. TypeOK
        BY <1>1 DEF IInv
  <2>2. flags # flags'
        BY DEF Holds
  <2>3. ~Redirect
        BY <1>1 DEF Redirect, IInv, Covered
  <2>4. ~OpenCall
    <3> SUFFICES ASSUME OpenCall PROVE FALSE
        OBVIOUS
    <3>1. PICK d \in Devices, fl \in SUBSET UserFlags : Open(d, fl)
          BY DEF OpenCall
    <3>2. PICK e \in Fds : Free(e) /\ flags' = [flags EXCEPT ![e] = fl \cup {"DEV"}]
          BY <2>2, <3>1 DEF Open
    <3>3. flags[e] = {}
          BY <2>1, <3>2 DEF Free, TypeOK
    <3> QED BY <2>1, <3>2, <3>3, OneFlagsEntry DEF Holds
  <2>5. ASSUME NEW e \in Fds, Close(e) PROVE e = f
    <3>1. flags' = [flags EXCEPT ![e] = NoFlags(e)]
          BY <2>2, <2>5 DEF Close
    <3> QED BY <2>1, <3>1, OneFlagsEntry
  <2>6. ASSUME NEW e \in Fds, Lock(e) PROVE FALSE
    <3>1. flags' = [flags EXCEPT ![e] = flags[e] \cup {"EXCL"}]
          BY <2>2, <2>6 DEF Lock
    <3>2. "EXCL" \notin flags[e] \cup {"EXCL"}
          BY <2>1, <3>1, OneFlagsEntry
    <3> QED BY <3>2
  <2>7. ASSUME NEW e \in Fds, Unlock(e) PROVE e = f
    <3>1. flags' = [flags EXCEPT ![e] = flags[e] \ {"EXCL"}]
          BY <2>7 DEF Unlock
    <3> QED BY <2>1, <3>1, OneFlagsEntry
  <2>8. ASSUME NEW e \in Fds, NEW fl \in SUBSET UserFlags, Fcntl(e, fl) PROVE FALSE
    <3>1. flags' = [flags EXCEPT ![e] = SetFlags(e, fl)]
          BY <2>8 DEF Fcntl
    <3>2. e = f /\ "EXCL" \notin SetFlags(e, fl)
          BY <2>1, <3>1, OneFlagsEntry
    <3>3. "EXCL" \in flags[e] /\ "EXCL" \notin UserFlags
          BY <3>2 DEF UserFlags, Holds
    <3> QED BY <3>2, <3>3 DEF SetFlags
  <2> QED BY <2>3, <2>4, <2>5, <2>6, <2>7, <2>8 DEF Next
<1> QED BY InitInv, StepInv, <1>1, PTL DEF Spec, LockStays

-----------------------------------------------------------------------------
(***************************************************************************)
(* The refinement: the calls on descriptors are calls on one lock for each *)
(* device, whatever the searches in the table look at.                     *)
(***************************************************************************)
Held      == {f \in Fds : Holds(f)}
LocksStep == [Promise!Next]_<<dev, Held>>

LEMMA HeldBy == \A f \in Fds : f \in Held <=> Holds(f)
BY DEF Held

\* A new device for a descriptor whose flags hold no lock.
LEMMA SameHeld ==
    ASSUME TypeOK, NEW f \in Fds, NEW s, "EXCL" \notin s, ~Holds(f),
           flags' = [flags EXCEPT ![f] = s]
    PROVE  Held' = Held
BY DEF TypeOK, Held, Holds

LEMMA RedirectPromised == ASSUME IInv, Redirect PROVE LocksStep
<1>1. NextStream \in Fds /\ Console \in Devices
  BY FdAssumption DEF NextStream, Fds
<1>2. Held = {}
  BY DEF Redirect, IInv, Covered, Held
<1>3. Held' = Held
  BY <1>1, <1>2, SameHeld, HeldBy DEF Redirect, IInv
<1>4. Promise!Assign(NextStream, Console)
  BY <1>2, <1>3 DEF Redirect, Promise!Assign, Held
<1> QED
  BY <1>1, <1>4 DEF LocksStep, Promise!Next, Promise!Assign

LEMMA OpenPromised == ASSUME IInv, OpenCall PROVE LocksStep
<1>1. PICK d \in Devices, fl \in SUBSET UserFlags : Open(d, fl)
  BY DEF OpenCall
<1>2. CASE UNCHANGED <<dev, flags>>
  BY <1>2 DEF LocksStep, Held, Holds
<1>3. ASSUME NEW f \in Fds, Free(f), max_fd' = HighWater(f), ~Locked(f, d, max_fd'),
             dev' = [dev EXCEPT ![f] = d],
             flags' = [flags EXCEPT ![f] = fl \cup {"DEV"}]
      PROVE  LocksStep
  <2>1. \A g \in Fds : Holds(g) => dev[g] # d
    BY <1>3, OpenFacts DEF OpenCall
  <2>2. dev[f] = None /\ ~Holds(f) /\ "EXCL" \notin fl \cup {"DEV"}
    BY <1>3 DEF Free, Holds, IInv, TypeOK, UserFlags
  <2>3. Held' = Held
    BY <1>3, <2>2, SameHeld DEF IInv
  <2>4. Promise!Open(f, d)
    BY <1>3, <2>1, <2>2, <2>3 DEF Promise!Open, Promise!Users, Held
  <2> QED
    BY <2>4 DEF LocksStep, Promise!Next
<1> QED
  BY <1>1, <1>2, <1>3 DEF Open

LEMMA ClosePromised == ASSUME IInv, NEW f \in Fds, Close(f) PROVE LocksStep
<1>1. CASE CanRelease(f)
  <2>1. dev' = [dev EXCEPT ![f] = None] /\ flags' = [flags EXCEPT ![f] = {}]
    BY <1>1 DEF Close, NoFlags
  <2>2. Held' = Held \ {f}
    BY <2>1 DEF IInv, TypeOK, Held, Holds
  <2>3. Promise!Close(f)
    BY <2>1, <2>2 DEF Promise!Close, Held
  <2> QED
    BY <2>3 DEF LocksStep, Promise!Next
<1>2. CASE ~CanRelease(f)
  BY <1>2 DEF Close, LocksStep, Held, Holds
<1> QED
  BY <1>1, <1>2

\* The one descriptor that a grant does not look at is the highest.
LEMMA LockPromised == ASSUME IInv, NEW f \in Fds, Lock(f) PROVE LocksStep
<1>1. CASE HasSharers(f)
  BY <1>1 DEF Lock, LocksStep, Held, Holds
<1>2. CASE ~HasSharers(f)
  <2>1. /\ flags' = [flags EXCEPT ![f] = @ \cup {"EXCL"}] /\ UNCHANGED dev
        /\ redirected = Streams /\ dev[f] # None
    BY <1>2 DEF Lock, Ioctl, Opened
  <2>2. Held' = Held \cup {f}
    BY <2>1 DEF IInv, TypeOK, Held, Holds
  <2>3. max_fd \in Int /\ max_fd >= 3 /\ max_fd \in Fds /\ \A g \in Fds : g \in Int /\ 0 <= g
    BY <2>1, FdAssumption DEF IInv, TypeOK, Covered, Streams, Fds
  <2>4. \A g \in Fds : dev[g] = dev[f] => g = f \/ g = max_fd
    <3> SUFFICES ASSUME NEW g \in Fds, dev[g] = dev[f], g # f PROVE g = max_fd
      OBVIOUS
    <3>1. ~(g \in 0..(max_fd - 1))
      BY <1>2 DEF HasSharers
    <3>2. g <= max_fd
      BY <2>1, <2>3 DEF IInv, Covered
    <3> QED
      BY <3>1, <3>2, <2>3
  <2>5. \A g \in Fds : Holds(g) /\ dev[g] = dev[f] => g = f
    <3> SUFFICES ASSUME NEW g \in Fds, Holds(g), dev[g] = dev[f], g # f PROVE FALSE
      OBVIOUS
    <3>1. g = max_fd /\ f > g
      BY <2>4 DEF IInv, SharersAbove
    <3>2. f <= max_fd
      BY <2>1, <2>3 DEF IInv, Covered
    <3> QED
      BY <3>1, <3>2, <2>3
  <2>6. Promise!Lock(f)
    <3>1. Promise!Users(dev[f]) \subseteq {f, max_fd}
      BY <2>4 DEF Promise!Users
    <3>2. Promise!Users(dev[f]) \cap Held \subseteq {f}
      BY <2>5 DEF Promise!Users, Held
    <3> QED
      BY <2>1, <2>2, <2>3, <3>1, <3>2 DEF Promise!Lock, Held
  <2> QED
    BY <2>6 DEF LocksStep, Promise!Next
<1> QED
  BY <1>1, <1>2

LEMMA UnlockPromised == ASSUME IInv, NEW f \in Fds, Unlock(f) PROVE LocksStep
<1>1. Held' = Held \ {f} /\ UNCHANGED dev
  BY DEF Unlock, IInv, TypeOK, Held, Holds
<1>2. Promise!Unlock(f)
  BY <1>1 DEF Promise!Unlock, Held
<1> QED
  BY <1>2 DEF LocksStep, Promise!Next

LEMMA FcntlPromised ==
    ASSUME IInv, NEW f \in Fds, NEW fl \in SUBSET UserFlags, Fcntl(f, fl)
    PROVE  LocksStep
<1>1. "EXCL" \in SetFlags(f, fl) <=> Holds(f)
  BY DEF SetFlags, UserFlags, Holds
<1>2. Held' = Held /\ UNCHANGED dev
  BY <1>1 DEF Fcntl, IInv, TypeOK, Held, Holds
<1> QED
  BY <1>2 DEF LocksStep

\* For every pool and every set of devices, the calls on descriptors behave like
\* one lock for each device, which has one holder, keeps open() off while it is
\* held, and is granted when at most one other descriptor has the device open.
THEOREM TableIsLocks == Spec => ImplementsLocks
<1>1. Init => Promise!Init
  BY InitInv DEF Init, Promise!Init, IInv, TypeOK, Holds
<1>2. ASSUME IInv, [Next]_vars PROVE LocksStep
  <2>1. CASE UNCHANGED vars
    BY <2>1 DEF vars, LocksStep, Held, Holds
  <2> QED
    BY <1>2, <2>1, RedirectPromised, OpenPromised, ClosePromised, LockPromised,
       UnlockPromised, FcntlPromised DEF Next
<1> QED
  BY InitInv, StepInv, <1>1, <1>2, PTL
  DEF Spec, ImplementsLocks, Promise!Spec, LocksStep, Held
=============================================================================
