-------------------------------- MODULE FdTable --------------------------------
(***************************************************************************)
(* The file descriptor pool of the HAL: alt_open(), alt_close(), the       *)
(* exclusive locks of alt_ioctl(), alt_fcntl(), and the redirection of the *)
(* three standard streams at boot.  The pool's semaphore is empty in these *)
(* single-threaded builds: each call is one step.  No filesystem is        *)
(* registered, so that every name is a device's or unknown.                *)
(***************************************************************************)
EXTENDS Integers

CONSTANTS
    MAX_FD,      \* ALT_MAX_FD
    Devices,     \* the registered devices
    Null,        \* /dev/null, which is registered from the start
    Console,     \* the device of the standard streams
    None         \* a free descriptor's device

ASSUME FdAssumption == /\ MAX_FD \in Nat /\ MAX_FD > 3
                       /\ {Null, Console} \subseteq Devices /\ None \notin Devices

VARIABLES
    dev, flags,  \* alt_fd_list: "EXCL" locks, "DEV" is a device's descriptor
    max_fd,      \* alt_max_fd
    redirected,  \* the streams that alt_io_redirect() has opened
    result       \* what the last call returned

vars == <<dev, flags, max_fd, redirected, result>>

Fds     == 0..(MAX_FD - 1)
Streams == 0..2
UserFlags == {"NONBLOCK"}

Init == /\ dev = [f \in Fds |-> IF f \in Streams THEN Null ELSE None]
        /\ flags = [f \in Fds |-> {}]
        /\ max_fd = -1
        /\ redirected = {}
        /\ result = "none"

HighWater(f) == IF f > max_fd THEN f ELSE max_fd

\* alt_get_fd(): the lowest descriptor that is free.
Free(f) == dev[f] = None /\ \A g \in Fds : g < f => dev[g] # None

BelowMax(f, d, limit) == \E g \in 0..(limit - 1) :                  \* mutant
                            g # f /\ dev[g] = d /\ "EXCL" \in flags[g]
Locked(f, d, limit)   == \E g \in 0..limit :
                            g # f /\ dev[g] = d /\ "EXCL" \in flags[g]

\* alt_open() gives the descriptor to the device first, and takes it back if
\* another one holds the device's lock.
Open(d, fl) ==
    \/ /\ \A f \in Fds : dev[f] # None
       /\ result' = "EMFILE"
       /\ UNCHANGED <<dev, flags, max_fd>>
    \/ \E f \in Fds :
          /\ Free(f)
          /\ max_fd' = HighWater(f)
          /\ IF Locked(f, d, max_fd')
             THEN /\ result' = "EACCES"
                  /\ UNCHANGED <<dev, flags>>
             ELSE /\ dev' = [dev EXCEPT ![f] = d]
                  /\ flags' = [flags EXCEPT ![f] = fl \cup {"DEV"}]
                  /\ result' = "ok"

OpenCall == /\ redirected = Streams
            /\ \E d \in Devices, fl \in SUBSET UserFlags : Open(d, fl)
            /\ UNCHANGED redirected

\* alt_io_redirect(): stdout, stdin, then stderr take over a new descriptor.
NextStream == CASE redirected = {} -> 1 [] redirected = {1} -> 0 [] OTHER -> 2

Redirect ==
    /\ redirected # Streams
    /\ \E f \in Fds : Free(f) /\ max_fd' = HighWater(f)
    /\ dev' = [dev EXCEPT ![NextStream] = Console]
    /\ flags' = [flags EXCEPT ![NextStream] = {"DEV"}]
    /\ redirected' = redirected \cup {NextStream}
    /\ result' = "ok"

Opened(f) == redirected = Streams /\ dev[f] # None

CanRelease(f) == f > 2

NoFlags(f) == {}

\* alt_close(): whatever the driver's close() returns, a descriptor that is no
\* standard stream is free afterwards.
Close(f) ==
    /\ Opened(f)
    /\ dev' = IF CanRelease(f) THEN [dev EXCEPT ![f] = None] ELSE dev
    /\ flags' = IF CanRelease(f) THEN [flags EXCEPT ![f] = NoFlags(f)] ELSE flags
    /\ \/ result' = "ok"
       \/ dev[f] = Console /\ "NONBLOCK" \in flags[f] /\ result' = "EWOULDBLOCK"
    /\ UNCHANGED <<max_fd, redirected>>

\* alt_fd_lock(): the descriptors it looks at stop short of alt_max_fd.
TwoShort(f)    == \E g \in 0..(max_fd - 2) : g # f /\ dev[g] = dev[f]  \* mutant
HasSharers(f)  == \E g \in 0..(max_fd - 1) : g # f /\ dev[g] = dev[f]

\* alt_ioctl(): TIOCEXCL and TIOCNXCL are for device drivers only.
Ioctl(f) == Opened(f) /\ "DEV" \in flags[f]

Lock(f) == /\ Ioctl(f)
           /\ IF HasSharers(f)
              THEN result' = "EACCES" /\ UNCHANGED flags
              ELSE /\ result' = "ok"
                   /\ flags' = [flags EXCEPT ![f] = @ \cup {"EXCL"}]
           /\ UNCHANGED <<dev, max_fd, redirected>>

Unlock(f) == /\ Ioctl(f)
             /\ flags' = [flags EXCEPT ![f] = @ \ {"EXCL"}]
             /\ result' = "ok"
             /\ UNCHANGED <<dev, max_fd, redirected>>

\* alt_fcntl() with F_SETFL changes the user's flags and no other.
AllFlags(f, fl)  == fl                                              \* mutant
SetFlags(f, fl) == (flags[f] \ UserFlags) \cup fl

Fcntl(f, fl) == /\ Opened(f)
                /\ flags' = [flags EXCEPT ![f] = SetFlags(f, fl)]
                /\ result' = "ok"
                /\ UNCHANGED <<dev, max_fd, redirected>>

Next == \/ Redirect \/ OpenCall
        \/ \E f \in Fds : \/ Close(f) \/ Lock(f) \/ Unlock(f)
                          \/ \E fl \in SUBSET UserFlags : Fcntl(f, fl)

Spec == Init /\ [][Next]_vars

-----------------------------------------------------------------------------

Holds(f) == "EXCL" \in flags[f]

TypeOK == /\ dev \in [Fds -> Devices \cup {None}]
          /\ flags \in [Fds -> SUBSET (UserFlags \cup {"EXCL", "DEV"})]
          /\ max_fd \in -1..(MAX_FD - 1)
          /\ redirected \subseteq Streams
          /\ \A f \in Fds : dev[f] = None => flags[f] = {}

\* Two descriptors never both hold the lock of a device, though the lock is
\* granted without a look at the highest descriptor.
OneHolder == \A f, g \in Fds :
                f # g /\ dev[f] = dev[g] /\ dev[f] # None => ~(Holds(f) /\ Holds(g))

\* The searches, which stop at alt_max_fd, miss no open descriptor.
MaxCovers == redirected = Streams => \A f \in Fds : dev[f] # None => f <= max_fd

\* A standard stream always has a device behind it.
StreamsStay == \A f \in Streams : dev[f] # None

\* While a descriptor holds a device's lock, no open() of that device works.
NoOpenWhileHeld ==
    [][\A f, g \in Fds : dev[f] = None /\ dev'[f] # None =>
          ~(Holds(g) /\ dev[g] = dev'[f])]_vars

\* A lock is lost only by the call that gives it up: by a descriptor's own
\* close or TIOCNXCL, never by fcntl() or by a call on another descriptor.
LockStays ==
    [][\A f \in Fds : Holds(f) /\ ~(Holds(f))' => Close(f) \/ Unlock(f)]_vars

Promise == INSTANCE DeviceLocks WITH
    Descriptor <- Fds, Device <- Devices, held <- {f \in Fds : Holds(f)}

\* With its searches that stop at alt_max_fd and short of it, the table behaves
\* like one lock for each device.
ImplementsLocks == Promise!Spec
=============================================================================
