------------------------------ MODULE Registry ------------------------------
(***************************************************************************)
(* Registration of descriptors with the reactor (reactor/driver.rs): the   *)
(* slot map, the tokens, the poller's table, and how the sockets of net.rs *)
(* are taken down.  Fields drop in declaration order, so UdpSocket         *)
(* deregisters and then closes, while TcpStream and TcpListener close and  *)
(* then deregister; between two steps of a drop other threads open and     *)
(* register sockets of their own, and the kernel hands out the lowest free *)
(* descriptor number.                                                      *)
(***************************************************************************)
EXTENDS Naturals, FiniteSets

CONSTANTS Sockets,      \* the sockets of the program
          ClosesFirst,  \* those whose drop closes first (TcpStream, TcpListener)
          Fds,          \* descriptor numbers, an initial segment 1..n
          MaxIndex      \* bound on the registrations made

None == 0

ASSUME RegistryAssumption ==
    /\ None \notin Sockets /\ ClosesFirst \subseteq Sockets
    /\ Fds = 1..Cardinality(Fds)
    /\ MaxIndex \in Nat

VARIABLES open,        \* kernel: the socket each descriptor number refers to
          watched,     \* kernel: the index a descriptor is watched under
          slots,       \* Shared.slots: the indices in the map
          next_index,
          pc, fd, index,   \* per socket: where it stands, its fd, its index
          batch,       \* events the reactor thread got: the index in the token
                       \* and the socket the event happened on
          woken        \* history: the last delivery, from which socket to which

registryVars == <<open, watched, slots, next_index, pc, fd, index, batch, woken>>

RegistryTypeOK ==
    /\ open \in [Fds -> Sockets \cup {None}]
    /\ watched \in [Fds -> 0..MaxIndex]
    /\ slots \in SUBSET (1..MaxIndex)
    /\ next_index \in 1..MaxIndex + 1
    /\ pc \in [Sockets -> {"none", "open", "adding", "failed", "live", "removing",
                           "dropping", "closing"}]
    /\ fd \in [Sockets -> Fds \cup {None}]
    /\ index \in [Sockets -> 0..MaxIndex]
    /\ batch \in SUBSET ((1..MaxIndex) \X Sockets)
    /\ woken \in SUBSET (Sockets \X Sockets)

RegistryInit ==
    /\ open = [f \in Fds |-> None]
    /\ watched = [f \in Fds |-> None]
    /\ slots = {}
    /\ next_index = 1
    /\ pc = [s \in Sockets |-> "none"]
    /\ fd = [s \in Sockets |-> None]
    /\ index = [s \in Sockets |-> None]
    /\ batch = {}
    /\ woken = {}

Goto(s, from, to) == pc[s] = from /\ pc' = [pc EXCEPT ![s] = to]

\* Slip: every socket is declared before its registration.
CloseComesFirstAlways(s) == TRUE

\* Fields drop in declaration order: whether the descriptor goes before the
\* registration.
CloseComesFirst(s) == s \in ClosesFirst

-----------------------------------------------------------------------------
\* socket() or accept(): the lowest free number.
Open(s) ==
    /\ Goto(s, "none", "open")
    /\ \E f \in Fds :
          /\ open[f] = None
          /\ \A g \in Fds : g < f => open[g] # None
          /\ open' = [open EXCEPT ![f] = s]
          /\ fd' = [fd EXCEPT ![s] = f]
    /\ UNCHANGED <<watched, slots, next_index, index, batch, woken>>

\* Slip: an index is reused as soon as its slot is out of the map.
HandleRegisterReuses(s) ==
    /\ Goto(s, "open", "adding")
    /\ \E i \in 1..MaxIndex :
          /\ i \notin slots
          /\ index' = [index EXCEPT ![s] = i]
          /\ slots' = slots \cup {i}
    /\ UNCHANGED <<open, watched, next_index, fd, batch, woken>>

\* Handle::register: a fresh index, its slot in the map.
HandleRegister(s) ==
    /\ Goto(s, "open", "adding")
    /\ next_index <= MaxIndex
    /\ index' = [index EXCEPT ![s] = next_index]
    /\ slots' = slots \cup {next_index}
    /\ next_index' = next_index + 1
    /\ UNCHANGED <<open, watched, fd, batch, woken>>

\* Poller::add.
PollerAdd(s) ==
    /\ Goto(s, "adding", "live")
    /\ watched' = [watched EXCEPT ![fd[s]] = index[s]]
    /\ UNCHANGED <<open, slots, next_index, fd, index, batch, woken>>

PollerAddFails(s) ==
    /\ Goto(s, "adding", "failed")
    /\ UNCHANGED <<open, watched, slots, next_index, fd, index, batch, woken>>

\* Slip: a failed registration leaves its slot in the map.
RegisterErrLeaks(s) ==
    /\ Goto(s, "failed", "closing")
    /\ index' = [index EXCEPT ![s] = None]
    /\ UNCHANGED <<open, watched, slots, next_index, fd, batch, woken>>

\* add failed: the slot is taken out again, the error drops the socket.
RegisterErr(s) ==
    /\ Goto(s, "failed", "closing")
    /\ slots' = slots \ {index[s]}
    /\ index' = [index EXCEPT ![s] = None]
    /\ UNCHANGED <<open, watched, next_index, fd, batch, woken>>

\* Closing the descriptor also ends the watch on it.
Close(s, from, to) ==
    /\ Goto(s, from, to)
    /\ open' = [open EXCEPT ![fd[s]] = None]
    /\ watched' = [watched EXCEPT ![fd[s]] = None]
    /\ UNCHANGED <<slots, next_index, index, batch, woken>>

\* The socket goes out of scope.
DropClosing(s) ==
    CloseComesFirst(s) /\ Close(s, "live", "removing") /\ UNCHANGED fd

\* Registration::drop: poller.remove(fd), whoever has that number now, its
\* error ignored.
RegistrationDrop(s) ==
    /\ Goto(s, IF CloseComesFirst(s) THEN "removing" ELSE "live", "dropping")
    /\ watched' = [watched EXCEPT ![fd[s]] = None]
    /\ UNCHANGED <<open, slots, next_index, fd, index, batch, woken>>

\* ... and the slot out of the map.
RemoveSlot(s) ==
    /\ Goto(s, "dropping", IF CloseComesFirst(s) THEN "none" ELSE "closing")
    /\ slots' = slots \ {index[s]}
    /\ index' = [index EXCEPT ![s] = None]
    /\ fd' = IF CloseComesFirst(s) THEN [fd EXCEPT ![s] = None] ELSE fd
    /\ UNCHANGED <<open, watched, next_index, batch, woken>>

CloseLast(s) == Close(s, "closing", "none") /\ fd' = [fd EXCEPT ![s] = None]

-----------------------------------------------------------------------------
(* The reactor thread: wait, then dispatch event by event.                 *)

\* Poller::wait: some of the watched descriptors have events.
Wait ==
    /\ batch = {}
    /\ LET Watched == {f \in Fds : watched[f] # None}
       IN  \E ready \in SUBSET Watched \ {{}} :
              batch' = {<<watched[f], open[f]>> : f \in ready}
    /\ UNCHANGED <<open, watched, slots, next_index, pc, fd, index, woken>>

\* An event wakes the task of the slot its token names, if it is still there.
dispatch ==
    /\ \E e \in batch :
          /\ batch' = batch \ {e}
          /\ woken' = IF e[1] \in slots
                      THEN {<<e[2], s>> : s \in {t \in Sockets : index[t] = e[1]}}
                      ELSE {}
    /\ UNCHANGED <<open, watched, slots, next_index, pc, fd, index>>

RegistryNext ==
    \/ \E s \in Sockets :
          \/ Open(s) \/ HandleRegister(s) \/ PollerAdd(s) \/ PollerAddFails(s) \/ RegisterErr(s)
          \/ DropClosing(s) \/ RegistrationDrop(s) \/ RemoveSlot(s) \/ CloseLast(s)
    \/ Wait
    \/ dispatch

RegistrySpec == RegistryInit /\ [][RegistryNext]_registryVars

-----------------------------------------------------------------------------
(* Properties                                                              *)

\* The map holds a slot for every registration and nothing else: neither a
\* failed add nor a drop leaks one.
SlotsExact ==
    /\ RegistryTypeOK
    /\ slots = {index[s] : s \in {t \in Sockets : pc[t] \in {"adding", "failed", "live",
                                                             "removing", "dropping"}}}

\* An event read before a drop and dispatched after it never reaches another
\* socket, whatever took its descriptor number: dispatch finds no slot.
EventReachesItsSocket == \A w \in woken : w[1] = w[2]

\* A socket in use stays watched, under its own token, except for one thing:
\* the drop of a socket that closes first, which removes a number that is no
\* longer its own.  A drop that deregisters first (UdpSocket) harms nobody.
WatchLostOnlyToLateRemove ==
    [][\A s \in Sockets :
          pc[s] = "live" /\ pc'[s] = "live" /\ watched[fd[s]] = index[s]
             => \/ watched'[fd[s]] = index[s]
                \/ \E t \in ClosesFirst \ {s} : pc[t] = "removing" /\ fd[t] = fd[s]]_registryVars

\* Handle::register: the descriptor "must outlive the registration".  Kept, it
\* would make every socket in use watched until it is dropped; the field order
\* of TcpStream and TcpListener breaks it.
WatchedWhileLive ==
    \A s \in Sockets : pc[s] = "live" => open[fd[s]] = s /\ watched[fd[s]] = index[s]
=============================================================================
