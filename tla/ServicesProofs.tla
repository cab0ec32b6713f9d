--------------------------- MODULE ServicesProofs ---------------------------
(***************************************************************************)
(* What the services keep beside the workflows, for any number of          *)
(* requests, clients, files, sockets and crashes: the workspaces and their *)
(* projects, the events of a run at its sockets, the versioned documents,  *)
(* the uploads of the playground, and the artifact files.                  *)
(***************************************************************************)
EXTENDS VersionedDocuments, Workspaces, EventStream, ArtifactFiles, Playground,
        FiniteSetTheorems, SequenceTheorems, TLAPS

WsSpec == WsInit /\ [][WsNext]_wsVars

WsTypeOK ==
    /\ listed \subseteq Projects /\ projects \subseteq Projects
    /\ creation \in [Projects -> [pc : {"new", "project", "workspace", "done", "gone"},
                                  read : SUBSET Projects]]
    /\ raced \in BOOLEAN /\ crashes \in Nat

(* What a request read is stored, its own project is stored before it is   *)
(* listed, and a request nobody overtook has read the list as it is.       *)
ReadingsStand ==
    /\ store = "memory" => InFlight = {}
    /\ \A p \in InFlight :
        /\ creation[p].read \subseteq projects
        /\ creation[p].pc = "workspace" => p \in projects
        /\ ~raced => InFlight = {p} /\ creation[p].read = listed

WsInvariant == WsTypeOK /\ ReadingsStand /\ WorkspaceListsItsProjects

LEMMA WsInvariantIsKept == WsInvariant /\ [WsNext]_wsVars => WsInvariant'
<1> SUFFICES ASSUME WsInvariant, [WsNext]_wsVars PROVE WsInvariant'
  OBVIOUS
<1> USE DEF WsInvariant, WsTypeOK, ReadingsStand, WorkspaceListsItsProjects, InFlight
<1>1. ASSUME NEW p \in Projects, GetWorkspace(p) PROVE WsInvariant'
  <2>1. CASE store = "memory"
    <3>1. WsTypeOK' /\ InFlight' = InFlight
      BY <1>1, <2>1 DEF GetWorkspace
    <3>. QED  BY <1>1, <2>1, <3>1 DEF GetWorkspace
  <2>2. CASE store # "memory"
    <3>. DEFINE new == [pc |-> "project", read |-> listed]
    <3>1. creation' = [creation EXCEPT ![p] = new] /\ raced' = (raced \/ InFlight # {})
          /\ UNCHANGED <<listed, projects, crashes>>
      BY <1>1, <2>2 DEF GetWorkspace
    <3>2. WsTypeOK' /\ creation'[p] = new /\ \A q \in Projects \ {p} : creation'[q] = creation[q]
      BY <3>1
    <3>3. InFlight' = InFlight \cup {p}
      BY <3>2
    <3>. QED  BY <1>1, <2>2, <3>1, <3>2, <3>3 DEF GetWorkspace
  <2>. QED  BY <2>1, <2>2
<1>2. ASSUME NEW p \in Projects, SaveProject(p) PROVE WsInvariant'
  BY <1>2 DEF SaveProject
<1>3. ASSUME NEW p \in Projects, SaveWorkspace(p) PROVE WsInvariant'
  BY <1>3 DEF SaveWorkspace
<1>4. CASE Crash
  BY <1>4 DEF Crash
<1>5. CASE UNCHANGED wsVars
  BY <1>5 DEF wsVars
<1>. QED  BY <1>1, <1>2, <1>3, <1>4, <1>5 DEF WsNext

(* Whatever requests overlap and whenever the process dies, the workspace  *)
(* lists only projects that are stored; and it lists all of them when      *)
(* nothing overlapped or died.                                             *)
THEOREM WorkspacesListTheirProjects == WsSpec => []WorkspaceListsItsProjects
<1>1. WsInit => WsInvariant
  <2>1. NoCreation.pc = "new" /\ NoCreation.read = {}
        /\ NoCreation \in [pc : {"new", "project", "workspace", "done", "gone"},
                            read : SUBSET Projects]
    BY DEF NoCreation
  <2>2. WsInit => WsTypeOK /\ InFlight = {}
    <3> SUFFICES ASSUME WsInit PROVE WsTypeOK /\ InFlight = {}
      OBVIOUS
    <3>1. creation = [p \in Projects |-> NoCreation] /\ listed = {} /\ projects = {}
          /\ raced = FALSE /\ crashes = 0
      BY DEF WsInit
    <3>2. InFlight = {}
      BY <2>1, <3>1 DEF InFlight
    <3>3. WsTypeOK
      BY <2>1, <3>1 DEF WsTypeOK
    <3>. QED  BY <3>2, <3>3
  <2>. QED  BY <2>2 DEF WsInit, WsInvariant, ReadingsStand, WorkspaceListsItsProjects
<1>. QED  BY <1>1, WsInvariantIsKept, PTL DEF WsSpec, WsInvariant

-----------------------------------------------------------------------------
(* What a socket should have been sent or have queued: first the history,  *)
(* then what was published since it subscribed.                            *)
Upto(n) == [i \in 1..n |-> i]
After(m, n) == [i \in 1..n |-> m + i]

LEMMA UptoIsASequence ==
    ASSUME NEW n \in Nat
    PROVE  Upto(n) \in Seq(Nat)
BY DEF Upto

LEMMA AfterIsASequence ==
    ASSUME NEW m \in Nat, NEW n \in Nat
    PROVE  /\ After(m, n) \in Seq(Nat) /\ Len(After(m, n)) = n
           /\ \A i \in 1..n : After(m, n)[i] = m + i
BY DEF After

LEMMA AfterGrows ==
    ASSUME NEW m \in Nat, NEW n \in Nat
    PROVE  After(m, n + 1) = Append(After(m, n), m + n + 1)
<1>. DEFINE s == After(m, n + 1)
            t == Append(After(m, n), m + n + 1)
<1>1. s \in Seq(Nat) /\ Len(s) = n + 1 /\ \A i \in 1..(n + 1) : s[i] = m + i
  BY AfterIsASequence
<1>2. After(m, n) \in Seq(Nat) /\ Len(After(m, n)) = n /\ \A i \in 1..n : After(m, n)[i] = m + i
  BY AfterIsASequence
<1>3. t \in Seq(Nat) /\ Len(t) = n + 1 /\ \A i \in 1..(n + 1) : t[i] = m + i
  BY <1>2
<1>. HIDE DEF s, t
<1>4. s = t
  BY <1>1, <1>3, SeqEqual
<1>. QED  BY <1>4 DEF s, t

LEMMA NothingAfter == \A m : After(m, 0) = <<>>
BY DEF After

LEMMA AppendedLater ==
    ASSUME NEW s \in Seq(Nat), NEW t \in Seq(Nat), NEW e \in Nat
    PROVE  s \o Append(t, e) = Append(s \o t, e)
<1>. DEFINE x == s \o Append(t, e)
            y == Append(s \o t, e)
<1>1. x \in Seq(Nat) /\ y \in Seq(Nat) /\ Len(x) = Len(y)
      /\ \A i \in 1..Len(x) : x[i] = y[i]
  OBVIOUS
<1>. HIDE DEF x, y
<1>2. x = y
  BY <1>1, SeqEqual
<1>. QED  BY <1>2 DEF x, y

LEMMA TakenFromTheQueue ==
    ASSUME NEW s \in Seq(Nat), NEW q \in Seq(Nat), q # <<>>
    PROVE  Append(s, Head(q)) \o Tail(q) = s \o q
<1>. DEFINE x == Append(s, Head(q)) \o Tail(q)
            y == s \o q
<1>1. x \in Seq(Nat) /\ y \in Seq(Nat) /\ Len(x) = Len(y)
      /\ \A i \in 1..Len(x) : x[i] = y[i]
  OBVIOUS
<1>. HIDE DEF x, y
<1>2. x = y
  BY <1>1, SeqEqual
<1>. QED  BY <1>2 DEF x, y

EventSpec == EventInit /\ [][EventNext]_eventVars

Socket == [pc : {"away", "sending", "live"}, kind : {"events", "telemetry"},
           past : Nat, from : Nat, sent : Seq(Nat), queue : Seq(Nat),
           shown : Nat, on : Nat, percent : Nat]

Due(v, n) == Upto(IF v.kind = "events" THEN v.past ELSE 0)
          \o After(v.from, IF v.pc = "live" THEN n - v.from ELSE 0)

SocketsStand ==
    /\ \E S : log \in Seq(S)
    /\ stored \in Nat
    /\ watcher \in [Watchers -> Socket]
    /\ \A w \in Watchers :
        /\ watcher[w].pc = "away" => watcher[w] = Away
        /\ watcher[w].pc = "sending" => watcher[w].queue = <<>>
        /\ watcher[w].pc = "live" => watcher[w].from <= Len(log)

EventsInvariant == SocketsStand /\ EventsArriveInOrder

LEMMA ArrivalsAreDue ==
    EventsArriveInOrder <=> \A w \in Watchers : watcher[w].sent \o watcher[w].queue = Due(watcher[w], Len(log))
BY DEF EventsArriveInOrder, Due, Upto, After

LEMMA LogIsCounted == SocketsStand => Len(log) \in Nat
BY DEF SocketsStand

(* A socket's own step touches no other, and nothing of the run.           *)
LEMMA SocketMoves ==
    ASSUME EventsInvariant, NEW w \in Watchers, NEW new \in Socket, UNCHANGED pubVars,
           watcher' = [watcher EXCEPT ![w] = new],
           new.pc # "away",
           new.pc = "sending" => new.queue = <<>>,
           new.pc = "live" => new.from <= Len(log),
           new.sent \o new.queue = Due(new, Len(log))
    PROVE  EventsInvariant'
<1>1. UNCHANGED <<log, stored>>
  BY DEF pubVars
<1>2. SocketsStand'
  BY <1>1 DEF EventsInvariant, SocketsStand
<1>3. ASSUME NEW u \in Watchers
      PROVE  watcher'[u].sent \o watcher'[u].queue = Due(watcher'[u], Len(log'))
  <2>1. CASE u = w
    <3>1. watcher'[u] = new
      BY <2>1 DEF EventsInvariant, SocketsStand
    <3>. QED  BY <1>1, <3>1 DEF Due
  <2>2. CASE u # w
    <3>1. watcher'[u] = watcher[u]
      BY <2>2 DEF EventsInvariant, SocketsStand
    <3>2. watcher[u].sent \o watcher[u].queue = Due(watcher[u], Len(log))
      BY ArrivalsAreDue DEF EventsInvariant
    <3>. QED  BY <1>1, <3>1, <3>2 DEF Due
  <2>. QED  BY <2>1, <2>2
<1>4. EventsArriveInOrder'
  BY <1>1, <1>3 DEF EventsArriveInOrder, Due, Upto, After
<1>. QED  BY <1>2, <1>4 DEF EventsInvariant

LEMMA AwayIsASocket ==
    /\ Away \in Socket /\ Away.pc = "away" /\ Away.kind = "events" /\ Away.past = 0
    /\ Away.from = 0 /\ Away.sent = <<>> /\ Away.queue = <<>>
BY DEF Away, Socket

(* A queue takes what is published. *)
LEMMA QueuesGrow ==
    ASSUME NEW m \in Nat, NEW old \in Socket, old.pc = "live", old.from <= m,
           old.sent \o old.queue = Due(old, m),
           NEW new, new = [old EXCEPT !.queue = Append(@, m + 1)]
    PROVE  /\ new \in Socket /\ new.pc = "live" /\ new.from = old.from
           /\ new.sent \o new.queue = Due(new, m + 1)
<1>. DEFINE first == Upto(IF old.kind = "events" THEN old.past ELSE 0)
            k == m - old.from
<1>1. /\ old.sent \in Seq(Nat) /\ old.queue \in Seq(Nat) /\ old.from \in Nat
      /\ old.past \in Nat /\ m + 1 \in Nat /\ Append(old.queue, m + 1) \in Seq(Nat)
  BY DEF Socket
<1>2. k \in Nat /\ (m + 1) - old.from = k + 1 /\ old.from + k + 1 = m + 1
  BY <1>1
<1>3. /\ new.kind = old.kind /\ new.past = old.past /\ new.pc = "live"
      /\ new.from = old.from /\ new.sent = old.sent /\ new.queue = Append(old.queue, m + 1)
  BY DEF Socket
<1>4. new \in Socket
  BY <1>1 DEF Socket
<1>5. Due(old, m) = first \o After(old.from, k)
  BY DEF Due
<1>6. Due(new, m + 1) = first \o After(old.from, (m + 1) - old.from)
  BY <1>3 DEF Due
<1>7. first \in Seq(Nat)
  BY <1>1, UptoIsASequence
<1>. HIDE DEF first, k
<1>8. /\ After(old.from, k + 1) = Append(After(old.from, k), old.from + k + 1)
      /\ After(old.from, k) \in Seq(Nat)
  BY <1>1, <1>2, AfterGrows, AfterIsASequence
<1>9. old.sent \o Append(old.queue, m + 1) = Append(old.sent \o old.queue, m + 1)
  BY <1>1, AppendedLater
<1>10. first \o Append(After(old.from, k), m + 1) = Append(first \o After(old.from, k), m + 1)
  BY <1>1, <1>7, <1>8, AppendedLater
<1>11. new.sent \o new.queue = Due(new, m + 1)
  BY <1>2, <1>3, <1>5, <1>6, <1>8, <1>9, <1>10
<1>. QED  BY <1>3, <1>4, <1>11

LEMMA SocketsStayInOrder == EventsInvariant /\ [EventNext]_eventVars => EventsInvariant'
<1> SUFFICES ASSUME EventsInvariant, [EventNext]_eventVars PROVE EventsInvariant'
  OBVIOUS
<1>a. Len(log) \in Nat /\ stored \in Nat /\ watcher \in [Watchers -> Socket]
  BY LogIsCounted DEF EventsInvariant, SocketsStand
<1>b. \A w \in Watchers : watcher[w].sent \o watcher[w].queue = Due(watcher[w], Len(log))
  BY ArrivalsAreDue DEF EventsInvariant
<1>c. \A n : Percent(SubSeq(log, 1, n)) \in Nat
  BY DEF Percent
<1>d. Upto(0) = <<>> /\ \A m : After(m, 0) = <<>>
  BY NothingAfter DEF Upto
<1>1. ASSUME NEW w \in Watchers, ReadHistory(w) PROVE EventsInvariant'
  <2>1. watcher[w] = Away /\ UNCHANGED pubVars
    BY <1>1 DEF ReadHistory, EventsInvariant, SocketsStand
  <2>. DEFINE new == [watcher[w] EXCEPT !.pc = "sending", !.past = stored,
                                        !.sent = [i \in 1..stored |-> i]]
  <2>2. watcher' = [watcher EXCEPT ![w] = new]
    BY <1>1, <1>a DEF ReadHistory
  <2>3. Upto(stored) \in Seq(Nat)
    BY <1>a, UptoIsASequence
  <2>4. /\ new.pc = "sending" /\ new.kind = "events" /\ new.past = stored /\ new.from = 0
        /\ new.sent = Upto(stored) /\ new.queue = <<>> /\ new \in Socket
    BY <1>a, <2>1, <2>3, AwayIsASocket DEF Socket, Upto
  <2>. HIDE DEF new
  <2>5. new.sent \o new.queue = Due(new, Len(log))
    BY <2>3, <2>4, <1>d DEF Due
  <2>. QED  BY <2>1, <2>2, <2>4, <2>5, SocketMoves
<1>2. ASSUME NEW w \in Watchers, FirstSnapshot(w) PROVE EventsInvariant'
  <2>1. watcher[w] = Away /\ UNCHANGED pubVars
    BY <1>2 DEF FirstSnapshot, EventsInvariant, SocketsStand
  <2>. DEFINE new == [Snapshot(w, 0) EXCEPT !.pc = "sending", !.kind = "telemetry"]
  <2>2. watcher' = [watcher EXCEPT ![w] = new]
    BY <1>2 DEF FirstSnapshot
  <2>3. /\ new.pc = "sending" /\ new.kind = "telemetry" /\ new.sent = <<>>
        /\ new.queue = <<>> /\ new \in Socket
    BY <1>a, <1>c, <2>1, AwayIsASocket DEF Socket, Snapshot
  <2>. HIDE DEF new
  <2>4. new.sent \o new.queue = Due(new, Len(log))
    BY <2>3, <1>d DEF Due
  <2>. QED  BY <2>1, <2>2, <2>3, <2>4, SocketMoves
<1>3. ASSUME NEW w \in Watchers, Subscribe(w) PROVE EventsInvariant'
  <2>. DEFINE new == [watcher[w] EXCEPT !.pc = "live", !.from = Len(log)]
  <2>1. watcher' = [watcher EXCEPT ![w] = new] /\ UNCHANGED pubVars
    BY <1>3, <1>a DEF Subscribe
  <2>2. /\ new.pc = "live" /\ new.from = Len(log) /\ new.kind = watcher[w].kind
        /\ new.past = watcher[w].past /\ new.sent = watcher[w].sent
        /\ new.queue = watcher[w].queue /\ new \in Socket
    BY <1>a DEF Socket
  <2>. HIDE DEF new
  <2>3. watcher[w].pc = "sending"
    BY <1>3 DEF Subscribe
  <2>4. Due(new, Len(log)) = Due(watcher[w], Len(log))
    BY <1>a, <1>d, <2>2, <2>3 DEF Due
  <2>5. new.sent \o new.queue = Due(new, Len(log))
    BY <1>b, <2>2, <2>4
  <2>6. new.pc # "away" /\ new.pc # "sending"
    BY <2>2
  <2>7. new.from <= Len(log)
    BY <1>a, <2>2
  <2>. QED  BY <2>1, <2>2, <2>5, <2>6, <2>7, SocketMoves
<1>4. ASSUME NEW w \in Watchers, Deliver(w) PROVE EventsInvariant'
  <2>. DEFINE n == Head(watcher[w].queue)
              got == [watcher[w] EXCEPT !.queue = Tail(@), !.sent = Append(@, n)]
              new == IF got.kind = "telemetry"
                     THEN [Snapshot(w, n) EXCEPT !.queue = Tail(@), !.sent = Append(@, n)]
                     ELSE got
  <2>1. watcher' = [watcher EXCEPT ![w] = new] /\ UNCHANGED pubVars
        /\ watcher[w].pc = "live" /\ watcher[w].queue # <<>>
    BY <1>4 DEF Deliver
  <2>2. watcher[w] \in Socket /\ watcher[w].from <= Len(log)
    BY <1>a, <2>1 DEF EventsInvariant, SocketsStand
  <2>3. /\ n \in Nat /\ Tail(watcher[w].queue) \in Seq(Nat)
        /\ Append(watcher[w].sent, n) \in Seq(Nat)
    BY <2>1, <2>2 DEF Socket
  <2>4. /\ new.pc = "live" /\ new.from = watcher[w].from /\ new.kind = watcher[w].kind
        /\ new.kind = "events" => new.past = watcher[w].past
        /\ new.sent = Append(watcher[w].sent, n)
        /\ new.queue = Tail(watcher[w].queue) /\ new \in Socket
    BY <1>a, <1>c, <2>1, <2>2, <2>3 DEF Socket, Snapshot
  <2>. HIDE DEF new
  <2>5. new.sent \o new.queue = watcher[w].sent \o watcher[w].queue
    BY <2>1, <2>2, <2>4, TakenFromTheQueue DEF Socket
  <2>6. Due(new, Len(log)) = Due(watcher[w], Len(log))
    BY <2>1, <2>4 DEF Due
  <2>. QED  BY <1>b, <2>1, <2>2, <2>4, <2>5, <2>6, SocketMoves
<1>5. CASE Publish
  <2>1. PICK S : log \in Seq(S)
    BY DEF EventsInvariant, SocketsStand
  <2>2. log' = Append(log, Head(todo)) /\ watcher' = FannedOut
        /\ (stored' = stored \/ stored' = stored + 1)
    BY <1>5 DEF Publish
  <2>3. log \in Seq(S \cup {Head(todo)})
    BY <2>1, SeqMonotonic
  <2>4. log' \in Seq(S \cup {Head(todo)}) /\ Len(log') = Len(log) + 1
    BY <2>2, <2>3
  <2>5. ASSUME NEW w \in Watchers, watcher[w].pc # "live"
        PROVE  watcher'[w] = watcher[w] /\ Due(watcher[w], Len(log')) = Due(watcher[w], Len(log))
    BY <2>2, <2>5 DEF FannedOut, Due
  <2>6. ASSUME NEW w \in Watchers, watcher[w].pc = "live"
        PROVE  /\ watcher'[w] \in Socket /\ watcher'[w].pc = "live"
               /\ watcher'[w].from = watcher[w].from /\ watcher[w].from <= Len(log)
               /\ watcher'[w].sent \o watcher'[w].queue = Due(watcher'[w], Len(log'))
    <3>1. watcher'[w] = [watcher[w] EXCEPT !.queue = Append(@, Len(log) + 1)]
      BY <2>2, <2>6 DEF FannedOut
    <3>2. watcher[w] \in Socket /\ watcher[w].from <= Len(log)
      BY <1>a, <2>6 DEF EventsInvariant, SocketsStand
    <3>3. /\ watcher'[w] \in Socket /\ watcher'[w].pc = "live"
          /\ watcher'[w].from = watcher[w].from
          /\ watcher'[w].sent \o watcher'[w].queue = Due(watcher'[w], Len(log) + 1)
      <4>1. watcher[w].sent \o watcher[w].queue = Due(watcher[w], Len(log))
        BY <1>b
      <4>. DEFINE old == watcher[w]
                  new == watcher'[w]
                  m == Len(log)
      <4>2. /\ m \in Nat /\ old \in Socket /\ old.pc = "live" /\ old.from <= m
            /\ old.sent \o old.queue = Due(old, m)
            /\ new = [old EXCEPT !.queue = Append(@, m + 1)]
        BY <1>a, <2>6, <3>1, <3>2, <4>1
      <4>. HIDE DEF old, new, m
      <4>3. /\ new \in Socket /\ new.pc = "live" /\ new.from = old.from
            /\ new.sent \o new.queue = Due(new, m + 1)
        BY <4>2, QueuesGrow
      <4>. QED  BY <4>3 DEF old, new, m
    <3>. QED  BY <2>4, <3>2, <3>3
  <2>7. SocketsStand'
    <3>1. \A w \in Watchers : watcher'[w] \in Socket
      BY <1>a, <2>5, <2>6
    <3>2. watcher' = [w \in Watchers |-> watcher'[w]]
      BY <2>2 DEF FannedOut
    <3>3. watcher' \in [Watchers -> Socket]
      BY <3>1, <3>2
    <3>4. \A w \in Watchers :
            /\ watcher'[w].pc = "away" => watcher'[w] = Away
            /\ watcher'[w].pc = "sending" => watcher'[w].queue = <<>>
            /\ watcher'[w].pc = "live" => watcher'[w].from <= Len(log')
      <4> SUFFICES ASSUME NEW w \in Watchers
                   PROVE  /\ watcher'[w].pc = "away" => watcher'[w] = Away
                          /\ watcher'[w].pc = "sending" => watcher'[w].queue = <<>>
                          /\ watcher'[w].pc = "live" => watcher'[w].from <= Len(log')
        OBVIOUS
      <4>1. CASE watcher[w].pc = "live"
        <5>1. watcher[w].from \in Nat
          BY <1>a DEF Socket
        <5>2. watcher'[w].pc = "live" /\ watcher'[w].from = watcher[w].from
              /\ watcher[w].from <= Len(log)
          BY <2>6, <4>1
        <5>3. watcher[w].from <= Len(log')
          BY <1>a, <2>4, <5>1, <5>2
        <5>. QED  BY <5>2, <5>3
      <4>2. CASE watcher[w].pc # "live"
        BY <2>5, <4>2 DEF SocketsStand, EventsInvariant
      <4>. QED  BY <4>1, <4>2
    <3>5. stored' \in Nat
      BY <1>a, <2>2
    <3>. QED  BY <2>4, <3>3, <3>4, <3>5 DEF SocketsStand
  <2>8. \A w \in Watchers : watcher'[w].sent \o watcher'[w].queue = Due(watcher'[w], Len(log'))
    BY <1>b, <2>5, <2>6
  <2>9. EventsArriveInOrder'
    BY <2>8 DEF EventsArriveInOrder, Due, Upto, After
  <2>. QED  BY <2>7, <2>9 DEF EventsInvariant
<1>6. CASE Store
  <2>1. stored' \in Nat /\ UNCHANGED <<log, watcher>>
    BY <1>6, <1>a DEF Store
  <2>. QED  BY <2>1 DEF EventsInvariant, SocketsStand, EventsArriveInOrder
<1>7. CASE StageStarts \/ StageEnds
  BY <1>7 DEF StageStarts, StageEnds, EventsInvariant, SocketsStand, EventsArriveInOrder
<1>8. CASE UNCHANGED eventVars
  BY <1>8 DEF eventVars, pubVars, EventsInvariant, SocketsStand, EventsArriveInOrder
<1>. QED  BY <1>1, <1>2, <1>3, <1>4, <1>5, <1>6, <1>7, <1>8 DEF EventNext

(* On either bus, and wherever its steps fall between the publications,    *)
(* a socket sends what it was to send, once and in order.                  *)
THEOREM EventsAlwaysArriveInOrder == EventSpec => []EventsArriveInOrder
<1>1. EventInit => EventsInvariant
  <2> SUFFICES ASSUME EventInit PROVE EventsInvariant
    OBVIOUS
  <2>1. log = <<>> /\ stored = 0 /\ watcher = [w \in Watchers |-> Away]
    BY DEF EventInit
  <2>2. Due(Away, Len(log)) = <<>> /\ Away.sent \o Away.queue = <<>>
    <3>1. Upto(0) = <<>>
      BY DEF Upto
    <3>. QED  BY <3>1, AwayIsASocket, NothingAfter DEF Due
  <2>3. log \in Seq({})
    BY <2>1
  <2>4. SocketsStand
    BY <2>1, <2>3, AwayIsASocket DEF SocketsStand
  <2>5. \A w \in Watchers : watcher[w].sent \o watcher[w].queue = Due(watcher[w], Len(log))
    BY <2>1, <2>2, AwayIsASocket
  <2>6. EventsArriveInOrder
    BY <2>5, ArrivalsAreDue
  <2>. QED  BY <2>4, <2>6 DEF EventsInvariant
<1>. QED  BY <1>1, SocketsStayInOrder, PTL DEF EventSpec, EventsInvariant

-----------------------------------------------------------------------------
(* The events of a run, and of one agent. *)
Types == StatusEvents \cup {"progress_updated", "log_emitted", "output_generated",
                            "telemetry_recorded"}
Names == Telemetry \cup {"retry_started", "agent_started", "provider_call_started",
                         "agent_failed", "agent_completed"}
RunEvents == [type : Types, agent : Team, name : Names]

Hooked(e) == e.name \notin Telemetry
EventsOf(a) == {e \in RunEvents : e.agent = a /\ (e.type \in StatusEvents => Hooked(e))}

HookedStatus(e) == StatusFromEvent(EventType(e.name, e.agent))

(* The events s say that agent a is at status, and what the hook will have *)
(* made of its status once they are through.                               *)
Shows(s, a, status) ==
    \/ status = "pending" /\ Positions(s, {a}, StatusEvents) = {}
    \/ \E i \in Positions(s, {a}, StatusEvents) :
         /\ \A j \in Positions(s, {a}, StatusEvents) : j <= i
         /\ status = StatusFromEvent(s[i].type)

LastHooked(s, j) == Hooked(s[j]) /\ \A k \in DOMAIN s : k > j => ~Hooked(s[k])

Speaks(s, a, status) ==
    /\ status # "pending" /\ Shows(s, a, status)
    /\ \E j \in DOMAIN s : Hooked(s[j])
    /\ \A j \in DOMAIN s : LastHooked(s, j) => HookedStatus(s[j]) = status

Mute(s) ==
    /\ \A j \in DOMAIN s : ~Hooked(s[j]) /\ s[j].type \notin StatusEvents

LEMMA ConcatIsBoth ==
    ASSUME NEW S, NEW s \in Seq(S), NEW t \in Seq(S)
    PROVE  /\ s \o t \in Seq(S) /\ Len(s \o t) = Len(s) + Len(t)
           /\ \A i \in DOMAIN (s \o t) :
                \/ i \in DOMAIN s /\ (s \o t)[i] = s[i]
                \/ i > Len(s) /\ i - Len(s) \in DOMAIN t /\ (s \o t)[i] = t[i - Len(s)]
           /\ \A i \in DOMAIN s : i \in DOMAIN (s \o t) /\ (s \o t)[i] = s[i] /\ i <= Len(s)
           /\ \A i \in DOMAIN t :
                Len(s) + i \in DOMAIN (s \o t) /\ (s \o t)[Len(s) + i] = t[i] /\ i > 0
OBVIOUS

(* The later events decide, unless they say nothing of the agent.          *)
LEMMA LaterShows ==
    ASSUME NEW S, NEW s \in Seq(S), NEW t \in Seq(S), NEW a, NEW status,
           status # "pending", Shows(t, a, status)
    PROVE  Shows(s \o t, a, status)
<1>. DEFINE w == s \o t
<1>1. /\ Len(s) \in Nat /\ Len(t) \in Nat /\ DOMAIN s = 1..Len(s) /\ DOMAIN t = 1..Len(t)
      /\ \A i \in DOMAIN w :
           \/ i \in DOMAIN s /\ w[i] = s[i]
           \/ i > Len(s) /\ i - Len(s) \in DOMAIN t /\ w[i] = t[i - Len(s)]
      /\ \A i \in DOMAIN t : Len(s) + i \in DOMAIN w /\ w[Len(s) + i] = t[i] /\ i > 0
      /\ DOMAIN w = 1..(Len(s) + Len(t))
  BY ConcatIsBoth
<1>. HIDE DEF w
<1>2. PICK i \in Positions(t, {a}, StatusEvents) :
        /\ \A j \in Positions(t, {a}, StatusEvents) : j <= i
        /\ status = StatusFromEvent(t[i].type)
  BY DEF Shows
<1>3. Len(s) + i \in Positions(w, {a}, StatusEvents) /\ status = StatusFromEvent(w[Len(s) + i].type)
  BY <1>1, <1>2 DEF Positions
<1>4. ASSUME NEW j \in Positions(w, {a}, StatusEvents)
      PROVE  j <= Len(s) + i
  <2>1. j \in DOMAIN w /\ w[j].agent \in {a} /\ w[j].type \in StatusEvents
    BY DEF Positions
  <2>2. CASE j > Len(s) /\ j - Len(s) \in DOMAIN t /\ w[j] = t[j - Len(s)]
    <3>1. j - Len(s) \in Positions(t, {a}, StatusEvents)
      BY <2>1, <2>2 DEF Positions
    <3>2. j - Len(s) <= i
      BY <1>2, <3>1
    <3>. QED  BY <1>1, <1>2, <2>1, <3>2 DEF Positions
  <2>3. CASE j \in DOMAIN s
    BY <1>1, <1>2, <2>3 DEF Positions
  <2>. QED  BY <1>1, <2>1, <2>2, <2>3
<1>. QED  BY <1>3, <1>4 DEF Shows, w

LEMMA EarlierShows ==
    ASSUME NEW S, NEW s \in Seq(S), NEW t \in Seq(S), NEW a, NEW status,
           Shows(s, a, status), Positions(t, {a}, StatusEvents) = {}
    PROVE  Shows(s \o t, a, status)
<1>. DEFINE w == s \o t
<1>1. /\ \A i \in DOMAIN w :
           \/ i \in DOMAIN s /\ w[i] = s[i]
           \/ i > Len(s) /\ i - Len(s) \in DOMAIN t /\ w[i] = t[i - Len(s)]
      /\ \A i \in DOMAIN s : i \in DOMAIN w /\ w[i] = s[i]
  BY ConcatIsBoth
<1>. HIDE DEF w
<1>2. Positions(w, {a}, StatusEvents) = Positions(s, {a}, StatusEvents)
  BY <1>1 DEF Positions
<1>3. \A i \in Positions(s, {a}, StatusEvents) : w[i] = s[i]
  BY <1>1 DEF Positions
<1>. QED  BY <1>2, <1>3 DEF Shows, w

LEMMA LaterSpeaks ==
    ASSUME NEW S, NEW s \in Seq(S), NEW t \in Seq(S), NEW a, NEW status, Speaks(t, a, status)
    PROVE  Speaks(s \o t, a, status)
<1>. DEFINE w == s \o t
<1>1. /\ Len(s) \in Nat /\ DOMAIN s = 1..Len(s) /\ DOMAIN t = 1..Len(t)
      /\ \A i \in DOMAIN w :
           \/ i \in DOMAIN s /\ w[i] = s[i]
           \/ i > Len(s) /\ i - Len(s) \in DOMAIN t /\ w[i] = t[i - Len(s)]
      /\ \A i \in DOMAIN t : Len(s) + i \in DOMAIN w /\ w[Len(s) + i] = t[i] /\ i > 0
      /\ DOMAIN w \subseteq Nat
  BY ConcatIsBoth
<1>2. Shows(w, a, status)
  BY LaterShows DEF Speaks
<1>. HIDE DEF w
<1>3. PICK h \in DOMAIN t : Hooked(t[h])
  BY DEF Speaks
<1>4. Len(s) + h \in DOMAIN w /\ Hooked(w[Len(s) + h])
  BY <1>1, <1>3
<1>5. ASSUME NEW j \in DOMAIN w, LastHooked(w, j)
      PROVE  HookedStatus(w[j]) = status
  <2>1. j > Len(s) /\ j - Len(s) \in DOMAIN t /\ w[j] = t[j - Len(s)]
    BY <1>1, <1>4, <1>5 DEF LastHooked
  <2>2. ASSUME NEW k \in DOMAIN t, k > j - Len(s) PROVE ~Hooked(t[k])
    BY <1>1, <1>5, <2>1, <2>2 DEF LastHooked
  <2>3. LastHooked(t, j - Len(s))
    BY <1>5, <2>1, <2>2 DEF LastHooked
  <2>. QED  BY <2>1, <2>3 DEF Speaks
<1>. QED  BY <1>2, <1>4, <1>5 DEF Speaks, w

LEMMA EarlierSpeaks ==
    ASSUME NEW S, NEW s \in Seq(S), NEW t \in Seq(S), NEW a, NEW status,
           Speaks(s, a, status), Mute(t)
    PROVE  Speaks(s \o t, a, status)
<1>. DEFINE w == s \o t
<1>1. /\ \A i \in DOMAIN w :
           \/ i \in DOMAIN s /\ w[i] = s[i]
           \/ i > Len(s) /\ i - Len(s) \in DOMAIN t /\ w[i] = t[i - Len(s)]
      /\ \A i \in DOMAIN s : i \in DOMAIN w /\ w[i] = s[i]
  BY ConcatIsBoth
<1>2. Positions(t, {a}, StatusEvents) = {}
  BY DEF Positions, Mute
<1>3. Shows(w, a, status)
  BY <1>2, EarlierShows DEF Speaks
<1>. HIDE DEF w
<1>4. \E j \in DOMAIN w : Hooked(w[j])
  BY <1>1 DEF Speaks
<1>5. ASSUME NEW j \in DOMAIN w, LastHooked(w, j)
      PROVE  HookedStatus(w[j]) = status
  <2>1. j \in DOMAIN s /\ w[j] = s[j]
    BY <1>1, <1>5 DEF LastHooked, Mute
  <2>2. LastHooked(s, j)
    BY <1>1, <1>5, <2>1 DEF LastHooked
  <2>. QED  BY <2>1, <2>2 DEF Speaks
<1>. QED  BY <1>3, <1>4, <1>5 DEF Speaks, w

LEMMA PositionsAreFinite ==
    ASSUME NEW S, NEW s \in Seq(S), NEW agents, NEW types
    PROVE  /\ IsFiniteSet(Positions(s, agents, types))
           /\ Cardinality(Positions(s, agents, types)) \in Nat
<1>1. IsFiniteSet(1..Len(s)) /\ Positions(s, agents, types) \subseteq 1..Len(s)
  BY FS_Interval DEF Positions
<1>. QED  BY <1>1, FS_Subset, FS_CardinalityType

(* Retries are counted one by one. *)
LEMMA RetriesAdd ==
    ASSUME NEW S, NEW s \in Seq(S), NEW t \in Seq(S), NEW a
    PROVE  RetryCount(s \o t, a) = RetryCount(s, a) + RetryCount(t, a)
<1>. DEFINE w == s \o t
            inS == Positions(s, {a}, {"retry_started"})
            inT == Positions(t, {a}, {"retry_started"})
            both == Positions(w, {a}, {"retry_started"})
            later == {i \in both : i > Len(s)}
            shift == [i \in inT |-> Len(s) + i]
<1>1. /\ Len(s) \in Nat /\ DOMAIN s = 1..Len(s) /\ DOMAIN t = 1..Len(t)
      /\ \A i \in DOMAIN w :
           \/ i \in DOMAIN s /\ w[i] = s[i]
           \/ i > Len(s) /\ i - Len(s) \in DOMAIN t /\ w[i] = t[i - Len(s)]
      /\ \A i \in DOMAIN s : i \in DOMAIN w /\ w[i] = s[i] /\ i <= Len(s)
      /\ \A i \in DOMAIN t : Len(s) + i \in DOMAIN w /\ w[Len(s) + i] = t[i] /\ i > 0
      /\ DOMAIN w \subseteq Nat
  BY ConcatIsBoth
<1>2. IsFiniteSet(inS) /\ IsFiniteSet(inT)
  BY PositionsAreFinite
<1>. HIDE DEF w
<1>3. both = inS \cup later /\ inS \cap later = {}
  BY <1>1 DEF Positions
<1>4. shift \in Bijection(inT, later)
  <2>1. shift \in [inT -> later]
    BY <1>1 DEF Positions
  <2>2. \A i, j \in inT : shift[i] = shift[j] => i = j
    BY <1>1 DEF Positions
  <2>3. ASSUME NEW k \in later PROVE \E i \in inT : shift[i] = k
    <3>1. k - Len(s) \in inT /\ Len(s) + (k - Len(s)) = k
      BY <1>1 DEF Positions
    <3>. QED  BY <3>1
  <2>. QED  BY <2>1, <2>2, <2>3 DEF Bijection, Injection, Surjection, IsInjective
<1>. HIDE DEF shift, later, inS, inT, both
<1>5. IsFiniteSet(later) /\ Cardinality(later) = Cardinality(inT)
  <2>1. ExistsBijection(inT, later)
    BY <1>4 DEF ExistsBijection
  <2>. QED  BY <1>2, <2>1, FS_Bijection
<1>6. Cardinality(both) = Cardinality(inS) + Cardinality(later) - Cardinality(inS \cap later)
  BY <1>2, <1>3, <1>5, FS_Union
<1>7. Cardinality(both) = Cardinality(inS) + Cardinality(inT)
  <2>1. Cardinality(inS) \in Nat /\ Cardinality(inT) \in Nat /\ Cardinality({}) = 0
    BY <1>2, FS_EmptySet, FS_CardinalityType
  <2>2. Cardinality(inS \cap later) = 0
    BY <1>3, <2>1
  <2>. QED  BY <1>5, <1>6, <2>1, <2>2
<1>. QED  BY <1>7 DEF RetryCount, both, inS, inT, w

LEMMA LoopsAdd ==
    ASSUME NEW S, NEW s \in Seq(S), NEW t \in Seq(S), LoopActive(s \o t)
    PROVE  LoopActive(s) \/ LoopActive(t)
BY ConcatIsBoth DEF LoopActive

(* What one event of the runtime puts on the bus. *)
LEMMA TelemetryIsMute ==
    ASSUME NEW n \in Telemetry, NEW a \in Team
    PROVE  /\ Emitted(n, a) \in Seq(EventsOf(a)) /\ Mute(Emitted(n, a))
           /\ LoopActive(Emitted(n, a)) => a = "developer" /\ n = "continuation_mode_started"
<1>1. Emitted(n, a) = <<Event("telemetry_recorded", a, n), Event("log_emitted", a, n)>>
  BY DEF Emitted
<1>2. /\ Event("telemetry_recorded", a, n) \in EventsOf(a) /\ Event("log_emitted", a, n) \in EventsOf(a)
  BY DEF Event, EventsOf, RunEvents, Types, Names, StatusEvents, Completions, Failures
<1>3. Emitted(n, a) \in Seq(EventsOf(a))
  BY <1>1, <1>2
<1>4. /\ Len(Emitted(n, a)) = 2
      /\ Emitted(n, a)[1] = Event("telemetry_recorded", a, n)
      /\ Emitted(n, a)[2] = Event("log_emitted", a, n)
  BY <1>1
<1>5. \A j \in DOMAIN Emitted(n, a) : j = 1 \/ j = 2
  BY <1>3, <1>4
<1>6. \A j \in DOMAIN Emitted(n, a) :
        /\ Emitted(n, a)[j].agent = a /\ Emitted(n, a)[j].name = n
        /\ Emitted(n, a)[j].type \in {"telemetry_recorded", "log_emitted"}
  BY <1>4, <1>5 DEF Event
<1>. QED  BY <1>3, <1>6 DEF Mute, Hooked, LoopActive, StatusEvents, Completions, Failures

LEMMA MuteIsNoRetry ==
    ASSUME NEW s, Mute(s), NEW a
    PROVE  RetryCount(s, a) = 0 /\ Positions(s, {a}, StatusEvents) = {}
<1>1. Positions(s, {a}, StatusEvents) = {} /\ Positions(s, {a}, {"retry_started"}) = {}
  BY DEF Mute, Positions, StatusEvents
<1>. QED  BY <1>1, FS_EmptySet DEF RetryCount

LEMMA StageEventsSpeak ==
    ASSUME NEW n \in Names \ Telemetry, NEW a \in Team
    PROVE  /\ Emitted(n, a) \in Seq(EventsOf(a))
           /\ Speaks(Emitted(n, a), a, StatusFromEvent(EventType(n, a)))
           /\ RetryCount(Emitted(n, a), a) = (IF n = "retry_started" THEN 1 ELSE 0)
           /\ ~LoopActive(Emitted(n, a))
<1>. DEFINE t == Emitted(n, a)
            type == EventType(n, a)
<1>1. type \in StatusEvents /\ (type = "retry_started" <=> n = "retry_started")
  BY DEF EventType, StatusEvents, Completions, Failures
<1>2. /\ {"progress_updated", "log_emitted", "output_generated"} \cap StatusEvents = {}
      /\ StatusFromEvent(type) # "pending"
  BY DEF StatusEvents, Completions, Failures, StatusFromEvent
<1>3. Event(type, a, n) \in EventsOf(a) /\ Event("progress_updated", a, n) \in EventsOf(a)
      /\ Event("log_emitted", a, n) \in EventsOf(a) /\ Event("output_generated", a, n) \in EventsOf(a)
  BY <1>1 DEF Event, EventsOf, RunEvents, Types, Names, Hooked
<1>. HIDE DEF type
<1>4. t = <<Event(type, a, n), Event("progress_updated", a, n), Event("log_emitted", a, n)>>
           \o (IF n = "agent_completed" THEN <<Event("output_generated", a, n)>> ELSE <<>>)
  BY DEF Emitted, type
<1>5. /\ t \in Seq(EventsOf(a)) /\ Len(t) \in {3, 4} /\ t[1] = Event(type, a, n)
      /\ \A j \in DOMAIN t : j # 1 => t[j] \in {Event("progress_updated", a, n),
                                 Event("log_emitted", a, n), Event("output_generated", a, n)}
  BY <1>3, <1>4
<1>. HIDE DEF t
<1>6. /\ 1 \in DOMAIN t /\ t[1].type = type /\ t[1].agent = a /\ t[1].name = n
      /\ \A j \in DOMAIN t : t[j].agent = a /\ t[j].name = n
      /\ \A j \in DOMAIN t : j # 1 => t[j].type \in {"progress_updated", "log_emitted", "output_generated"}
  BY <1>5 DEF Event
<1>7. Positions(t, {a}, StatusEvents) = {1}
  BY <1>1, <1>2, <1>6 DEF Positions
<1>8. Shows(t, a, StatusFromEvent(type))
  <2>1. \A j \in Positions(t, {a}, StatusEvents) : j <= 1
    BY <1>7
  <2>2. StatusFromEvent(type) = StatusFromEvent(t[1].type) /\ 1 \in Positions(t, {a}, StatusEvents)
    BY <1>6, <1>7
  <2>. QED  BY <2>1, <2>2 DEF Shows
<1>9. Speaks(t, a, StatusFromEvent(type))
  <2>1. \A j \in DOMAIN t : Hooked(t[j]) /\ HookedStatus(t[j]) = StatusFromEvent(type)
    BY <1>6 DEF Hooked, HookedStatus, type
  <2>. QED  BY <1>2, <1>6, <1>8, <2>1 DEF Speaks
<1>10. Positions(t, {a}, {"retry_started"}) = IF n = "retry_started" THEN {1} ELSE {}
  BY <1>1, <1>6 DEF Positions
<1>11. RetryCount(t, a) = (IF n = "retry_started" THEN 1 ELSE 0)
  BY <1>10, FS_EmptySet, FS_Singleton DEF RetryCount
<1>12. ~LoopActive(t)
  <2>1. type # "telemetry_recorded"
    BY <1>1 DEF StatusEvents, Completions, Failures
  <2>. QED  BY <1>6, <2>1 DEF LoopActive
<1>. QED  BY <1>5, <1>9, <1>11, <1>12 DEF t, type

(* Telemetry that is only sometimes emitted. *)
LEMMA SometimesIsMute ==
    ASSUME NEW holds \in BOOLEAN, NEW n \in Telemetry, NEW a \in Team
    PROVE  /\ Sometimes(holds, n, a) \in Seq(EventsOf(a)) /\ Mute(Sometimes(holds, n, a))
           /\ LoopActive(Sometimes(holds, n, a)) =>
                holds /\ a = "developer" /\ n = "continuation_mode_started"
<1>1. CASE holds
  BY <1>1, TelemetryIsMute DEF Sometimes
<1>2. CASE ~holds
  <2>1. Sometimes(holds, n, a) = <<>>
    BY <1>2 DEF Sometimes
  <2>2. DOMAIN Sometimes(holds, n, a) = {}
    BY <2>1
  <2>. QED  BY <2>1, <2>2 DEF Mute, LoopActive
<1>. QED  BY <1>1, <1>2

(* A stage begins with its agent running, and a retry if it was begun      *)
(* before.                                                                 *)
LEMMA OpeningSpeaks ==
    ASSUME NEW a \in Team, NEW n \in Nat, NEW repair \in BOOLEAN, Compact \in BOOLEAN
    PROVE  /\ Opening(a, n, repair) \in Seq(EventsOf(a))
           /\ Speaks(Opening(a, n, repair), a, "running")
           /\ RetryCount(Opening(a, n, repair), a) = (IF n > 1 THEN 1 ELSE 0)
           /\ LoopActive(Opening(a, n, repair)) => a = "developer" /\ repair
<1>. DEFINE E  == EventsOf(a)
            e1 == Emitted("provider_selected_per_agent", a)
            e2 == Sometimes(Compact, "compact_mode_enabled", a)
            e3 == Sometimes(n > 1, "retry_started", a)
            e4 == Sometimes(a = "developer" /\ repair, "continuation_mode_started", a)
            e5 == Emitted("agent_started", a)
            e6 == Emitted("provider_call_started", a)
<1>1. e1 \in Seq(E) /\ Mute(e1) /\ ~LoopActive(e1)
  BY TelemetryIsMute DEF Telemetry
<1>2. e2 \in Seq(E) /\ Mute(e2) /\ ~LoopActive(e2)
  BY SometimesIsMute DEF Telemetry
<1>3. e3 \in Seq(E) /\ RetryCount(e3, a) = (IF n > 1 THEN 1 ELSE 0) /\ ~LoopActive(e3)
  <2>1. CASE n > 1
    BY <2>1, StageEventsSpeak DEF Sometimes, Names, Telemetry
  <2>2. CASE ~(n > 1)
    <3>1. e3 = <<>> /\ DOMAIN e3 = {}
      BY <2>2 DEF Sometimes
    <3>2. Positions(e3, {a}, {"retry_started"}) = {} /\ ~LoopActive(e3)
      BY <3>1 DEF Positions, LoopActive
    <3>3. e3 \in Seq(E)
      <4>1. <<>> \in Seq(E)
        OBVIOUS
      <4>. HIDE DEF E, e3
      <4>. QED  BY <3>1, <4>1
    <3>4. RetryCount(e3, a) = 0
      BY <3>2, FS_EmptySet DEF RetryCount
    <3>. QED  BY <2>2, <3>2, <3>3, <3>4
  <2>. QED  BY <2>1, <2>2
<1>4. e4 \in Seq(E) /\ Mute(e4) /\ (LoopActive(e4) => a = "developer" /\ repair)
  BY SometimesIsMute DEF Telemetry
<1>5. e5 \in Seq(E) /\ RetryCount(e5, a) = 0 /\ ~LoopActive(e5)
  BY StageEventsSpeak DEF Names, Telemetry
<1>6. e6 \in Seq(E) /\ RetryCount(e6, a) = 0 /\ ~LoopActive(e6) /\ Speaks(e6, a, "running")
  <2>1. StatusFromEvent(EventType("provider_call_started", a)) = "running"
    BY DEF StatusFromEvent, EventType
  <2>. QED  BY <2>1, StageEventsSpeak DEF Names, Telemetry
<1>7. RetryCount(e1, a) = 0 /\ RetryCount(e2, a) = 0 /\ RetryCount(e4, a) = 0
  BY <1>1, <1>2, <1>4, MuteIsNoRetry
<1>. DEFINE f2 == e1 \o e2
            f3 == f2 \o e3
            f4 == f3 \o e4
            f5 == f4 \o e5
            f6 == f5 \o e6
<1>8. Opening(a, n, repair) = f6
  BY DEF Opening
<1>. HIDE DEF E, e1, e2, e3, e4, e5, e6, f2, f3, f4, f5, f6
<1>9. /\ f2 \in Seq(E) /\ RetryCount(f2, a) = 0 /\ ~LoopActive(f2)
  BY <1>1, <1>2, <1>7, ConcatIsBoth, RetriesAdd, LoopsAdd DEF f2
<1>10. f3 \in Seq(E) /\ RetryCount(f3, a) = RetryCount(e3, a) /\ ~LoopActive(f3)
  <2>1. RetryCount(e3, a) \in Nat
    BY <1>3
  <2>. QED  BY <1>3, <1>9, <2>1, ConcatIsBoth, RetriesAdd, LoopsAdd DEF f3
<1>11. /\ f4 \in Seq(E) /\ RetryCount(f4, a) = RetryCount(e3, a)
       /\ LoopActive(f4) => a = "developer" /\ repair
  <2>1. RetryCount(e3, a) \in Nat
    BY <1>3
  <2>. QED  BY <1>4, <1>7, <1>10, <2>1, ConcatIsBoth, RetriesAdd, LoopsAdd DEF f4
<1>12. /\ f5 \in Seq(E) /\ RetryCount(f5, a) = RetryCount(e3, a)
       /\ LoopActive(f5) => a = "developer" /\ repair
  <2>1. RetryCount(e3, a) \in Nat
    BY <1>3
  <2>. QED  BY <1>5, <1>11, <2>1, ConcatIsBoth, RetriesAdd, LoopsAdd DEF f5
<1>13. /\ f6 \in Seq(E) /\ RetryCount(f6, a) = RetryCount(e3, a)
       /\ LoopActive(f6) => a = "developer" /\ repair
  <2>1. RetryCount(e3, a) \in Nat
    BY <1>3
  <2>. QED  BY <1>6, <1>12, <2>1, ConcatIsBoth, RetriesAdd, LoopsAdd DEF f6
<1>14. Speaks(f6, a, "running")
  BY <1>6, <1>12, LaterSpeaks DEF f6
<1>. QED  BY <1>3, <1>8, <1>13, <1>14 DEF E

(* It ends with its agent completed or failed.                             *)
LEMMA ClosingSpeaks ==
    ASSUME NEW a \in Team, NEW result \in {"completed", "failed", "rejected"}
    PROVE  /\ Closing(a, result) \in Seq(EventsOf(a))
           /\ Speaks(Closing(a, result), a, IF result = "failed" THEN "failed" ELSE "completed")
           /\ RetryCount(Closing(a, result), a) = 0
           /\ ~LoopActive(Closing(a, result))
<1>. DEFINE E  == EventsOf(a)
            status == IF result = "failed" THEN "failed" ELSE "completed"
            name == IF result = "failed" THEN "agent_failed" ELSE "agent_completed"
            e1 == Emitted("context_budget_estimated", a)
            e2 == Emitted("handoff_generated", a)
            e3 == Emitted(name, a)
            e4 == Sometimes(result = "rejected", "qa_feedback_generated", a)
            e5 == Sometimes(result # "failed", "stage_transition", a)
<1>1. /\ e1 \in Seq(E) /\ Mute(e1) /\ ~LoopActive(e1)
      /\ e2 \in Seq(E) /\ Mute(e2) /\ ~LoopActive(e2)
  BY TelemetryIsMute DEF Telemetry
<1>2. /\ e4 \in Seq(E) /\ Mute(e4) /\ ~LoopActive(e4)
      /\ e5 \in Seq(E) /\ Mute(e5) /\ ~LoopActive(e5)
  BY SometimesIsMute DEF Telemetry
<1>3. e3 \in Seq(E) /\ RetryCount(e3, a) = 0 /\ ~LoopActive(e3) /\ Speaks(e3, a, status)
  <2>1. name \in Names \ Telemetry /\ name # "retry_started"
    BY DEF Names, Telemetry
  <2>2. StatusFromEvent(EventType(name, a)) = status
    BY DEF StatusFromEvent, EventType, Completions
  <2>. HIDE DEF name, status
  <2>. QED  BY <2>1, <2>2, StageEventsSpeak
<1>4. RetryCount(e1, a) = 0 /\ RetryCount(e2, a) = 0 /\ RetryCount(e4, a) = 0 /\ RetryCount(e5, a) = 0
  BY <1>1, <1>2, MuteIsNoRetry
<1>. DEFINE f2 == e1 \o e2
            f3 == f2 \o e3
            f4 == f3 \o e4
            f5 == f4 \o e5
<1>5. Closing(a, result) = f5
  BY DEF Closing
<1>. HIDE DEF E, e1, e2, e3, e4, e5, f2, f3, f4, f5, status
<1>6. f2 \in Seq(E) /\ RetryCount(f2, a) = 0 /\ ~LoopActive(f2)
  BY <1>1, <1>4, ConcatIsBoth, RetriesAdd, LoopsAdd DEF f2
<1>7. /\ f3 \in Seq(E) /\ RetryCount(f3, a) = 0 /\ ~LoopActive(f3) /\ Speaks(f3, a, status)
  BY <1>3, <1>6, ConcatIsBoth, RetriesAdd, LoopsAdd, LaterSpeaks DEF f3
<1>8. f4 \in Seq(E) /\ RetryCount(f4, a) = 0 /\ ~LoopActive(f4) /\ Speaks(f4, a, status)
  BY <1>2, <1>4, <1>7, ConcatIsBoth, RetriesAdd, LoopsAdd, EarlierSpeaks DEF f4
<1>9. f5 \in Seq(E) /\ RetryCount(f5, a) = 0 /\ ~LoopActive(f5) /\ Speaks(f5, a, status)
  BY <1>2, <1>4, <1>8, ConcatIsBoth, RetriesAdd, LoopsAdd, EarlierSpeaks DEF f5
<1>. QED  BY <1>5, <1>9 DEF E, status

-----------------------------------------------------------------------------
Shown == {"pending", "running", "completed", "failed"}

ViewsTypeOK ==
    /\ log \in Seq(RunEvents) /\ \E a \in Team : todo \in Seq(EventsOf(a))
    /\ stored \in Nat
    /\ \/ stored = Len(log)
       \/ stored + 1 = Len(log) /\ todo # <<>> /\ log[Len(log)] = Head(todo)
    /\ attempts \in [Team -> Nat]
    /\ statuses \in [Team -> Shown] /\ outcome \in [Team -> Shown]
    /\ stage.agent \in Team /\ stage.repair \in BOOLEAN
    /\ DOMAIN stage = {"agent", "pc", "repair", "result"}
    /\ steps \in [completed : Nat, failed : BOOLEAN, active : Team \cup {"none"}]

(* The log as it will be once the hook is through with the stage.          *)
Unpublished == IF stored = Len(log) THEN todo ELSE Tail(todo)
Told == log \o Unpublished

StageStands ==
    /\ stage.pc = "working" => attempts[stage.agent] > 0
    /\ stage.agent # "developer" => attempts["developer"] > 0
    /\ stage.repair = TRUE => attempts["qa"] > 0 /\ attempts["developer"] > 0

LogTells ==
    /\ \A a \in Team :
         /\ Shows(Told, a, outcome[a])
         /\ RetryCount(Told, a) = (IF attempts[a] = 0 THEN 0 ELSE attempts[a] - 1)
    /\ LoopActive(Told) => attempts["qa"] > 0 /\ attempts["developer"] > 1

HookTells ==
    /\ \A a \in Team :
         (\A j \in DOMAIN todo : Hooked(todo[j]) => todo[j].agent # a) => statuses[a] = outcome[a]
    /\ \A j \in DOMAIN todo : LastHooked(todo, j) => HookedStatus(todo[j]) = outcome[todo[j].agent]

UpTo(n, s, types) == {i \in Positions(s, Team, types) : i <= n}

TrackerTells ==
    /\ steps.completed = Cardinality(UpTo(stored, log, Completions))
    /\ steps.failed = TRUE <=> UpTo(stored, log, Failures) # {}

ViewsInvariant == ViewsTypeOK /\ StageStands /\ LogTells /\ HookTells /\ TrackerTells

LEMMA SeqIsMonotone ==
    ASSUME NEW S, NEW T, S \subseteq T, NEW s \in Seq(S)
    PROVE  s \in Seq(T)
OBVIOUS

LEMMA EventsAreOfTheRun ==
    ASSUME NEW a \in Team, NEW s \in Seq(EventsOf(a))
    PROVE  s \in Seq(RunEvents)
<1>1. EventsOf(a) \subseteq RunEvents
  BY DEF EventsOf
<1>. QED  BY <1>1, SeqIsMonotone

(* A stage begins or ends: the events of a still to come say how it stands.*)
LEMMA StageIsTold ==
    ASSUME ViewsInvariant, Quiet, NEW a \in Team, NEW status \in Shown,
           NEW t \in Seq(EventsOf(a)), Speaks(t, a, status), todo' = t,
           UNCHANGED <<log, stored, statuses>>, outcome' = [outcome EXCEPT ![a] = status]
    PROVE  /\ \A b \in Team : Shows(Told', b, outcome'[b])
           /\ HookTells' /\ Told' = log \o t /\ Told = log
           /\ log \in Seq(RunEvents) /\ t \in Seq(RunEvents)
<1>1. /\ stored = Len(log) /\ todo = <<>> /\ log \in Seq(RunEvents) /\ t \in Seq(RunEvents)
  BY EventsAreOfTheRun DEF Quiet, ViewsInvariant, ViewsTypeOK
<1>2. Told' = log \o t
  BY <1>1 DEF Told, Unpublished
<1>3. Told = log
  <2>1. Told = log \o <<>>
    BY <1>1 DEF Told, Unpublished
  <2>. QED  BY <1>1, <2>1, ConcatEmptySeq
<1>4. ASSUME NEW b \in Team PROVE Shows(log \o t, b, outcome'[b])
  <2>1. CASE b = a
    BY <1>1, <2>1, LaterShows DEF Speaks, ViewsInvariant, ViewsTypeOK
  <2>2. CASE b # a
    <3>1. outcome'[b] = outcome[b] /\ Shows(log, b, outcome[b])
      BY <1>3, <2>2 DEF ViewsInvariant, ViewsTypeOK, LogTells
    <3>2. Positions(t, {b}, StatusEvents) = {}
      BY <2>2 DEF Positions, EventsOf
    <3>. QED  BY <1>1, <3>1, <3>2, EarlierShows
  <2>. QED  BY <2>1, <2>2
<1>5. HookTells'
  <2>1. \A j \in DOMAIN t : t[j].agent = a
    BY DEF EventsOf
  <2>2. outcome'[a] = status /\ \A b \in Team : b # a => outcome'[b] = outcome[b]
    BY DEF ViewsInvariant, ViewsTypeOK
  <2>3. \A b \in Team : statuses[b] = outcome[b]
    BY <1>1 DEF ViewsInvariant, HookTells
  <2>4. ASSUME NEW b \in Team, \A j \in DOMAIN t : Hooked(t[j]) => t[j].agent # b
        PROVE  statuses'[b] = outcome'[b]
    <3>1. b # a
      BY <2>1, <2>4 DEF Speaks
    <3>. QED  BY <2>2, <2>3, <3>1
  <2>5. \A j \in DOMAIN t : LastHooked(t, j) => HookedStatus(t[j]) = outcome'[t[j].agent]
    BY <2>1, <2>2 DEF Speaks
  <2>. QED  BY <2>4, <2>5 DEF HookTells
<1>. QED  BY <1>1, <1>2, <1>3, <1>4, <1>5

LEMMA SomethingIsTodo ==
    ASSUME ViewsTypeOK, todo # <<>>
    PROVE  \E a \in Team :
             /\ todo \in Seq(EventsOf(a)) /\ Head(todo) \in EventsOf(a) /\ Head(todo) = todo[1]
             /\ Tail(todo) \in Seq(EventsOf(a)) /\ Len(Tail(todo)) = Len(todo) - 1 /\ Len(todo) > 0
             /\ \A j \in DOMAIN Tail(todo) : j + 1 \in DOMAIN todo /\ Tail(todo)[j] = todo[j + 1]
             /\ \A j \in DOMAIN todo : j = 1 \/ (j - 1 \in DOMAIN Tail(todo) /\ Tail(todo)[j - 1] = todo[j])
             /\ \A j \in DOMAIN todo : todo[j] \in EventsOf(a) /\ j \in Nat
<1>1. PICK a \in Team : todo \in Seq(EventsOf(a))
  BY DEF ViewsTypeOK
<1>. DEFINE E == EventsOf(a)
<1>. HIDE DEF E
<1>2. todo \in Seq(E) /\ todo # <<>>
  BY <1>1 DEF E
<1>3. /\ Head(todo) \in E /\ Head(todo) = todo[1]
      /\ Tail(todo) \in Seq(E) /\ Len(Tail(todo)) = Len(todo) - 1 /\ Len(todo) > 0
      /\ DOMAIN todo = 1..Len(todo) /\ Len(todo) \in Nat
  BY <1>2
<1>4. /\ \A j \in DOMAIN Tail(todo) : j + 1 \in DOMAIN todo /\ Tail(todo)[j] = todo[j + 1]
      /\ \A j \in DOMAIN todo : j = 1 \/ (j - 1 \in DOMAIN Tail(todo) /\ Tail(todo)[j - 1] = todo[j])
      /\ \A j \in DOMAIN todo : todo[j] \in E /\ j \in Nat
  BY <1>2, <1>3
<1>. QED  BY <1>1, <1>3, <1>4 DEF E

(* The hook goes on after an event that is in the log.                     *)
LEMMA HookGoesOn ==
    ASSUME ViewsInvariant, todo # <<>>, AfterEvent, outcome' = outcome
    PROVE  HookTells' /\ statuses' \in [Team -> Shown]
<1>. DEFINE e == Head(todo)
            rest == Tail(todo)
            over == Len(todo) = 1 \/ todo[2].name # e.name
<1>1. PICK a \in Team :
             /\ todo \in Seq(EventsOf(a)) /\ e \in EventsOf(a) /\ e = todo[1]
             /\ rest \in Seq(EventsOf(a)) /\ Len(rest) = Len(todo) - 1 /\ Len(todo) > 0
             /\ \A j \in DOMAIN rest : j + 1 \in DOMAIN todo /\ rest[j] = todo[j + 1]
             /\ \A j \in DOMAIN todo : j = 1 \/ (j - 1 \in DOMAIN rest /\ rest[j - 1] = todo[j])
             /\ \A j \in DOMAIN todo : todo[j] \in EventsOf(a) /\ j \in Nat
  BY SomethingIsTodo DEF ViewsInvariant
<1>2. /\ todo' = rest
      /\ statuses' = IF Hooked(e) /\ over THEN [statuses EXCEPT ![e.agent] = HookedStatus(e)]
                     ELSE statuses
  BY DEF AfterEvent, Hooked, HookedStatus
<1>3. e.agent = a /\ \A j \in DOMAIN todo : todo[j].agent = a
  BY <1>1 DEF EventsOf
<1>4. HookedStatus(e) \in Shown
  BY DEF HookedStatus, StatusFromEvent, Shown
<1>5. /\ statuses \in [Team -> Shown] /\ outcome \in [Team -> Shown]
      /\ \A b \in Team : b # a => statuses[b] = outcome[b]
  BY <1>3 DEF ViewsInvariant, ViewsTypeOK, HookTells
<1>6. statuses' \in [Team -> Shown] /\ \A b \in Team : b # a => statuses'[b] = statuses[b]
  BY <1>2, <1>3, <1>4, <1>5
<1>. HIDE DEF e, rest
<1>7. ASSUME NEW j \in DOMAIN rest, LastHooked(rest, j)
      PROVE  HookedStatus(rest[j]) = outcome[rest[j].agent]
  <2>1. ASSUME NEW k \in DOMAIN todo, k > j + 1 PROVE ~Hooked(todo[k])
    <3>1. k - 1 \in DOMAIN rest /\ rest[k - 1] = todo[k] /\ k - 1 > j
      BY <1>1, <2>1
    <3>. QED  BY <1>7, <3>1 DEF LastHooked
  <2>2. LastHooked(todo, j + 1) /\ rest[j] = todo[j + 1] /\ j + 1 \in DOMAIN todo
    BY <1>1, <1>7, <2>1 DEF LastHooked
  <2>. QED  BY <2>2 DEF ViewsInvariant, HookTells
<1>8. ASSUME \A j \in DOMAIN rest : ~Hooked(rest[j])
      PROVE  statuses'[a] = outcome[a]
  <2>1. ASSUME NEW k \in DOMAIN todo, k > 1 PROVE ~Hooked(todo[k])
    <3>1. k \in Nat /\ k # 1
      BY <1>1, <2>1
    <3>2. k - 1 \in DOMAIN rest /\ rest[k - 1] = todo[k]
      BY <1>1, <3>1
    <3>. QED  BY <1>8, <3>2
  <2>2. CASE Hooked(e)
    <3>1. LastHooked(todo, 1) /\ 1 \in DOMAIN todo
      BY <1>1, <2>1, <2>2 DEF LastHooked
    <3>2. HookedStatus(e) = outcome[a]
      BY <1>1, <1>3, <3>1 DEF ViewsInvariant, HookTells
    <3>3. over
      <4>1. CASE Len(todo) > 1
        <5>1. 2 \in DOMAIN todo
          BY <1>1, <4>1
        <5>. QED  BY <2>1, <2>2, <5>1 DEF Hooked
      <4>. QED  BY <1>1, <4>1
    <3>. QED  BY <1>2, <1>3, <1>5, <2>2, <3>2, <3>3
  <2>3. CASE ~Hooked(e)
    <3>1. \A k \in DOMAIN todo : ~Hooked(todo[k])
      BY <1>1, <2>1, <2>3
    <3>2. statuses[a] = outcome[a]
      BY <3>1 DEF ViewsInvariant, HookTells
    <3>. QED  BY <1>2, <2>3, <3>2
  <2>. QED  BY <2>2, <2>3
<1>9. ASSUME NEW b \in Team, \A j \in DOMAIN rest : Hooked(rest[j]) => rest[j].agent # b
      PROVE  statuses'[b] = outcome[b]
  <2>1. CASE b = a
    <3>1. \A j \in DOMAIN rest : rest[j].agent = a
      BY <1>1, <1>3
    <3>. QED  BY <1>8, <1>9, <2>1, <3>1
  <2>. QED  BY <1>5, <1>6, <2>1
<1>. QED  BY <1>2, <1>6, <1>7, <1>9 DEF HookTells

LEMMA PastIsFinite ==
    ASSUME ViewsTypeOK, NEW types
    PROVE  IsFiniteSet(UpTo(stored, log, types)) /\ Cardinality(UpTo(stored, log, types)) \in Nat
<1>1. IsFiniteSet(Positions(log, Team, types)) /\ UpTo(stored, log, types) \subseteq Positions(log, Team, types)
  BY PositionsAreFinite DEF ViewsTypeOK, UpTo
<1>. QED  BY <1>1, FS_Subset, FS_CardinalityType

(* The tracker has counted what is stored.                                 *)
LEMMA TrackerGoesOn ==
    ASSUME ViewsInvariant, todo # <<>>, AfterEvent, stored' = stored + 1,
           Len(log') = stored + 1, log' \in Seq(RunEvents), log'[stored + 1] = Head(todo),
           \A i \in 1..stored : log'[i] = log[i]
    PROVE  TrackerTells' /\ steps' \in [completed : Nat, failed : BOOLEAN, active : Team \cup {"none"}]
<1>. DEFINE e == Head(todo)
            n == stored + 1
<1>1. PICK a \in Team : e \in EventsOf(a)
  BY SomethingIsTodo DEF ViewsInvariant
<1>2. e \in RunEvents /\ (e.type \in StatusEvents => Hooked(e)) /\ e.agent \in Team
  BY <1>1 DEF EventsOf
<1>3. steps' = IF e.type \in StatusEvents THEN Tracked(steps, e) ELSE steps
  BY <1>2 DEF AfterEvent, Hooked
<1>4. /\ steps \in [completed : Nat, failed : BOOLEAN, active : Team \cup {"none"}]
      /\ steps.completed = Cardinality(UpTo(stored, log, Completions))
      /\ steps.failed = TRUE <=> UpTo(stored, log, Failures) # {}
      /\ stored \in Nat /\ stored <= Len(log) /\ Len(log) \in Nat /\ DOMAIN log = 1..Len(log)
  BY DEF ViewsInvariant, ViewsTypeOK, TrackerTells
<1>5. ASSUME NEW types
      PROVE  /\ UpTo(n, log', types) = UpTo(stored, log, types) \cup (IF e.type \in types THEN {n} ELSE {})
             /\ n \notin UpTo(stored, log, types)
  <2>1. /\ DOMAIN log' = 1..n /\ log'[n] = e /\ n = stored + 1 /\ stored' = n
        /\ \A i \in 1..stored : i \in DOMAIN log /\ log'[i] = log[i]
    BY <1>4
  <2>. HIDE DEF e, n
  <2>2. UpTo(n, log', types) = {i \in 1..n : log'[i].agent \in Team /\ log'[i].type \in types}
    BY <1>4, <2>1 DEF UpTo, Positions
  <2>3. UpTo(stored, log, types) = {i \in 1..stored : log'[i].agent \in Team /\ log'[i].type \in types}
    BY <1>4, <2>1 DEF UpTo, Positions
  <2>. QED  BY <1>2, <1>4, <2>1, <2>2, <2>3
<1>6. Completions \subseteq StatusEvents /\ Failures \subseteq StatusEvents /\ Completions \cap Failures = {}
      /\ "agent_started" \notin Completions \cup Failures
  BY DEF StatusEvents, Completions, Failures
<1>7. IsFiniteSet(UpTo(stored, log, Completions)) /\ Cardinality(UpTo(stored, log, Completions)) \in Nat
  BY PastIsFinite DEF ViewsInvariant
<1>8. CASE e.type \in Completions
  <2>1. steps' = [steps EXCEPT !.completed = @ + 1, !.active = e.agent]
    BY <1>3, <1>6, <1>8 DEF Tracked
  <2>2. UpTo(n, log', Completions) = UpTo(stored, log, Completions) \cup {n} /\ UpTo(n, log', Failures) = UpTo(stored, log, Failures)
    BY <1>5, <1>6, <1>8
  <2>3. Cardinality(UpTo(stored, log, Completions) \cup {n}) = Cardinality(UpTo(stored, log, Completions)) + 1
    BY <1>5, <1>7, FS_AddElement
  <2>4. Cardinality(UpTo(n, log', Completions)) = steps.completed + 1
    BY <1>4, <2>2, <2>3
  <2>5. steps'.completed = steps.completed + 1 /\ steps'.failed = steps.failed
    BY <1>4, <2>1
  <2>6. steps' \in [completed : Nat, failed : BOOLEAN, active : Team \cup {"none"}]
    <3>1. steps.completed \in Nat /\ steps.completed + 1 \in Nat
      BY <1>4
    <3>. QED  BY <1>2, <1>4, <2>1, <3>1
  <2>. QED  BY <1>4, <2>2, <2>4, <2>5, <2>6 DEF TrackerTells, n
<1>9. CASE e.type \in Failures
  <2>1. steps' = [steps EXCEPT !.failed = TRUE, !.active = e.agent]
    BY <1>3, <1>6, <1>9 DEF Tracked
  <2>2. UpTo(n, log', Completions) = UpTo(stored, log, Completions) /\ UpTo(n, log', Failures) # {}
    BY <1>5, <1>6, <1>9
  <2>3. steps'.completed = steps.completed /\ steps'.failed = TRUE
    BY <1>4, <2>1
  <2>4. steps' \in [completed : Nat, failed : BOOLEAN, active : Team \cup {"none"}]
    BY <1>2, <1>4, <2>1
  <2>. QED  BY <1>4, <2>2, <2>3, <2>4 DEF TrackerTells, n
<1>10. CASE e.type \notin Completions \cup Failures
  <2>1. steps' = steps \/ steps' = [steps EXCEPT !.active = e.agent]
    BY <1>3, <1>10 DEF Tracked
  <2>2. UpTo(n, log', Completions) = UpTo(stored, log, Completions) /\ UpTo(n, log', Failures) = UpTo(stored, log, Failures)
    BY <1>5, <1>10
  <2>3. steps'.completed = steps.completed /\ steps'.failed = steps.failed
    BY <1>4, <2>1
  <2>4. steps' \in [completed : Nat, failed : BOOLEAN, active : Team \cup {"none"}]
    BY <1>2, <1>4, <2>1
  <2>. QED  BY <1>4, <2>2, <2>3, <2>4 DEF TrackerTells, n
<1>. QED  BY <1>8, <1>9, <1>10

LEMMA StageStartsWell == ViewsInvariant /\ StageStarts => ViewsInvariant'
<1> SUFFICES ASSUME ViewsInvariant, StageStarts PROVE ViewsInvariant'
  OBVIOUS
<1>. DEFINE a == stage.agent
            n == attempts[a] + 1
            t == Opening(a, n, stage.repair)
<1>1. /\ a \in Team /\ n \in Nat /\ n > 0 /\ stage.repair \in BOOLEAN /\ Compact \in BOOLEAN
      /\ attempts \in [Team -> Nat] /\ outcome \in [Team -> Shown] /\ "developer" \in Team /\ "qa" \in Team
  BY StreamAssumption DEF ViewsInvariant, ViewsTypeOK, Team, Delivery, ToSet
<1>2. /\ Quiet /\ attempts' = [attempts EXCEPT ![a] = n] /\ stage' = [stage EXCEPT !.pc = "working"]
      /\ outcome' = [outcome EXCEPT ![a] = "running"]
      /\ UNCHANGED <<log, stored, steps, statuses>>
  BY DEF StageStarts
<1>3. todo' = t
  BY <1>1, <1>2 DEF StageStarts
<1>4. /\ t \in Seq(EventsOf(a)) /\ Speaks(t, a, "running")
      /\ RetryCount(t, a) = (IF n > 1 THEN 1 ELSE 0)
      /\ LoopActive(t) => a = "developer" /\ stage.repair
  BY <1>1, OpeningSpeaks
<1>. HIDE DEF t
<1>5. /\ \A b \in Team : Shows(Told', b, outcome'[b])
      /\ HookTells' /\ Told' = log \o t /\ Told = log
      /\ log \in Seq(RunEvents) /\ t \in Seq(RunEvents)
  BY <1>1, <1>2, <1>3, <1>4, StageIsTold DEF Shown
<1>6. /\ attempts' \in [Team -> Nat] /\ attempts'[a] = n
      /\ \A b \in Team : b # a => attempts'[b] = attempts[b]
      /\ \A b \in Team : attempts'[b] >= attempts[b]
  BY <1>1, <1>2
<1>. HIDE DEF n
<1>7. ASSUME NEW b \in Team
      PROVE  RetryCount(Told', b) = (IF attempts'[b] = 0 THEN 0 ELSE attempts'[b] - 1)
  <2>1. RetryCount(Told', b) = RetryCount(log, b) + RetryCount(t, b)
    BY <1>5, RetriesAdd
  <2>2. RetryCount(log, b) = (IF attempts[b] = 0 THEN 0 ELSE attempts[b] - 1) /\ attempts[b] \in Nat
    BY <1>1, <1>5 DEF ViewsInvariant, LogTells
  <2>3. CASE b = a
    BY <1>1, <1>4, <1>6, <2>1, <2>2, <2>3 DEF n
  <2>4. CASE b # a
    <3>1. Positions(t, {b}, {"retry_started"}) = {}
      BY <1>4, <2>4 DEF Positions, EventsOf
    <3>2. RetryCount(t, b) = 0
      BY <3>1, FS_EmptySet DEF RetryCount
    <3>. QED  BY <1>6, <2>1, <2>2, <2>4, <3>2
  <2>. QED  BY <2>3, <2>4
<1>8. ASSUME LoopActive(Told')
      PROVE  attempts'["qa"] > 0 /\ attempts'["developer"] > 1
  <2>1. CASE LoopActive(log)
    <3>1. attempts["qa"] > 0 /\ attempts["developer"] > 1
      BY <1>5, <2>1 DEF ViewsInvariant, LogTells
    <3>. QED  BY <1>1, <1>6, <3>1
  <2>2. CASE LoopActive(t)
    <3>1. a = "developer" /\ attempts["qa"] > 0 /\ attempts["developer"] > 0
      BY <1>4, <2>2 DEF ViewsInvariant, StageStands
    <3>. QED  BY <1>1, <1>6, <3>1 DEF n
  <2>. QED  BY <1>5, <1>8, <2>1, <2>2, LoopsAdd
<1>9. LogTells'
  BY <1>5, <1>7, <1>8 DEF LogTells
<1>10. /\ stage'.pc = "working" /\ stage'.agent = a /\ stage'.repair = stage.repair
       /\ DOMAIN stage' = {"agent", "pc", "repair", "result"}
  BY <1>2 DEF ViewsInvariant, ViewsTypeOK
<1>11. StageStands'
  <2>1. attempts'[a] > 0
    BY <1>1, <1>6
  <2>2. a # "developer" => attempts'["developer"] > 0
    BY <1>1, <1>6 DEF ViewsInvariant, StageStands
  <2>3. stage.repair = TRUE => attempts'["qa"] > 0 /\ attempts'["developer"] > 0
    BY <1>1, <1>6 DEF ViewsInvariant, StageStands
  <2>. QED  BY <1>10, <2>1, <2>2, <2>3 DEF StageStands
<1>12. outcome' \in [Team -> Shown]
  BY <1>1, <1>2 DEF Shown
<1>13. ViewsTypeOK'
  <2>1. stored' = Len(log')
    BY <1>2 DEF Quiet
  <2>. QED  BY <1>1, <1>2, <1>3, <1>4, <1>6, <1>10, <1>12, <2>1 DEF ViewsInvariant, ViewsTypeOK
<1>14. TrackerTells'
  BY <1>2 DEF ViewsInvariant, TrackerTells
<1>. QED  BY <1>5, <1>9, <1>11, <1>13, <1>14 DEF ViewsInvariant

LEMMA StageEndsWell == ViewsInvariant /\ StageEnds => ViewsInvariant'
<1> SUFFICES ASSUME ViewsInvariant, StageEnds PROVE ViewsInvariant'
  OBVIOUS
<1>. DEFINE a == stage.agent
<1>1. /\ a \in Team /\ attempts \in [Team -> Nat] /\ outcome \in [Team -> Shown]
      /\ Team = {"developer", "qa", "docs"} /\ stage.repair \in BOOLEAN
      /\ DOMAIN stage = {"agent", "pc", "repair", "result"}
  BY DEF ViewsInvariant, ViewsTypeOK, Team, Delivery, ToSet
<1>2. PICK r \in {"completed", "failed"} \cup (IF a = "qa" THEN {"rejected"} ELSE {}) :
        /\ todo' = Closing(a, r)
        /\ outcome' = [outcome EXCEPT ![a] = IF r = "failed" THEN "failed" ELSE "completed"]
        /\ stage' =
             CASE r = "failed" -> [stage EXCEPT !.pc = "next"]
               [] r = "rejected" -> [stage EXCEPT !.pc = "next", !.agent = "developer", !.repair = TRUE]
               [] r = "completed" /\ a = "docs" -> [stage EXCEPT !.pc = "over"]
               [] OTHER -> [stage EXCEPT !.pc = "next", !.agent = IF a = "qa" THEN "docs" ELSE "qa",
                                         !.repair = FALSE]
  BY DEF StageEnds
<1>. DEFINE status == IF r = "failed" THEN "failed" ELSE "completed"
            t == Closing(a, r)
<1>3. Quiet /\ stage.pc = "working" /\ UNCHANGED <<log, stored, steps, statuses, attempts>>
  BY DEF StageEnds
<1>4. /\ t \in Seq(EventsOf(a)) /\ Speaks(t, a, status) /\ RetryCount(t, a) = 0 /\ ~LoopActive(t)
  BY <1>1, <1>2, ClosingSpeaks
<1>5. todo' = t /\ outcome' = [outcome EXCEPT ![a] = status] /\ status \in Shown
  BY <1>2 DEF Shown
<1>. HIDE DEF t, status
<1>6. /\ \A b \in Team : Shows(Told', b, outcome'[b])
      /\ HookTells' /\ Told' = log \o t /\ Told = log
      /\ log \in Seq(RunEvents) /\ t \in Seq(RunEvents)
  BY <1>1, <1>3, <1>4, <1>5, StageIsTold
<1>7. ASSUME NEW b \in Team
      PROVE  RetryCount(Told', b) = (IF attempts[b] = 0 THEN 0 ELSE attempts[b] - 1)
  <2>1. RetryCount(Told', b) = RetryCount(log, b) + RetryCount(t, b)
    BY <1>6, RetriesAdd
  <2>2. RetryCount(log, b) = (IF attempts[b] = 0 THEN 0 ELSE attempts[b] - 1) /\ attempts[b] \in Nat
    BY <1>1, <1>6 DEF ViewsInvariant, LogTells
  <2>3. RetryCount(t, b) = 0
    <3>1. CASE b = a
      BY <1>4, <3>1
    <3>2. CASE b # a
      <4>1. Positions(t, {b}, {"retry_started"}) = {}
        BY <1>4, <3>2 DEF Positions, EventsOf
      <4>. QED  BY <4>1, FS_EmptySet DEF RetryCount
    <3>. QED  BY <3>1, <3>2
  <2>. QED  BY <2>1, <2>2, <2>3
<1>8. LoopActive(Told') => attempts["qa"] > 0 /\ attempts["developer"] > 1
  BY <1>4, <1>6, LoopsAdd DEF ViewsInvariant, LogTells
<1>9. LogTells'
  BY <1>3, <1>6, <1>7, <1>8 DEF LogTells
<1>10. /\ attempts[a] > 0 /\ (a # "developer" => attempts["developer"] > 0)
       /\ stage.repair = TRUE => attempts["qa"] > 0 /\ attempts["developer"] > 0
  BY <1>3 DEF ViewsInvariant, StageStands
<1>11. /\ stage'.agent \in Team /\ stage'.repair \in BOOLEAN /\ stage'.pc # "working"
       /\ DOMAIN stage' = {"agent", "pc", "repair", "result"}
       /\ stage'.agent # "developer" => attempts["developer"] > 0
       /\ stage'.repair = TRUE => attempts["qa"] > 0 /\ attempts["developer"] > 0
  <2>1. CASE r = "failed"
    <3>1. stage' = [stage EXCEPT !.pc = "next"]
      BY <1>2, <2>1
    <3>2. stage'.agent = a /\ stage'.repair = stage.repair /\ stage'.pc = "next" /\ DOMAIN stage' = DOMAIN stage
      BY <1>1, <3>1
    <3>. QED  BY <1>1, <1>10, <3>2
  <2>2. CASE r = "rejected"
    <3>1. stage' = [stage EXCEPT !.pc = "next", !.agent = "developer", !.repair = TRUE]
      BY <1>2, <2>2
    <3>2. stage'.agent = "developer" /\ stage'.repair = TRUE /\ stage'.pc = "next" /\ DOMAIN stage' = DOMAIN stage
      BY <1>1, <3>1
    <3>3. a = "qa"
      BY <1>2, <2>2
    <3>. QED  BY <1>1, <1>10, <3>2, <3>3
  <2>3. CASE r = "completed" /\ a = "docs"
    <3>1. stage' = [stage EXCEPT !.pc = "over"]
      BY <1>2, <2>3
    <3>2. stage'.agent = a /\ stage'.repair = stage.repair /\ stage'.pc = "over" /\ DOMAIN stage' = DOMAIN stage
      BY <1>1, <3>1
    <3>. QED  BY <1>1, <1>10, <3>2
  <2>4. CASE r = "completed" /\ a # "docs"
    <3>. DEFINE next == IF a = "qa" THEN "docs" ELSE "qa"
    <3>1. stage' = [stage EXCEPT !.pc = "next", !.agent = next, !.repair = FALSE]
      BY <1>2, <2>4
    <3>2. next \in Team /\ attempts["developer"] > 0
      BY <1>1, <1>10, <2>4
    <3>. HIDE DEF next
    <3>3. stage'.agent = next /\ stage'.repair = FALSE /\ stage'.pc = "next" /\ DOMAIN stage' = DOMAIN stage
      BY <1>1, <3>1
    <3>. QED  BY <1>1, <3>2, <3>3
  <2>. QED  BY <1>2, <2>1, <2>2, <2>3, <2>4
<1>12. StageStands'
  BY <1>3, <1>11 DEF StageStands
<1>13. outcome' \in [Team -> Shown]
  BY <1>1, <1>5
<1>14. ViewsTypeOK'
  <2>1. stored' = Len(log')
    BY <1>3 DEF Quiet
  <2>. QED  BY <1>1, <1>3, <1>4, <1>5, <1>11, <1>13, <2>1 DEF ViewsInvariant, ViewsTypeOK
<1>15. TrackerTells'
  BY <1>3 DEF ViewsInvariant, TrackerTells
<1>. QED  BY <1>6, <1>9, <1>12, <1>14, <1>15 DEF ViewsInvariant

LEMMA HeadOfTheRest ==
    ASSUME NEW S, NEW s \in Seq(S), NEW q \in Seq(S), q # <<>>
    PROVE  Append(s, Head(q)) \o Tail(q) = s \o q
<1>. DEFINE x == Append(s, Head(q)) \o Tail(q)
            y == s \o q
<1>1. x \in Seq(S) /\ y \in Seq(S) /\ Len(x) = Len(y)
      /\ \A i \in 1..Len(x) : x[i] = y[i]
  OBVIOUS
<1>. HIDE DEF x, y
<1>2. x = y
  BY <1>1, SeqEqual
<1>. QED  BY <1>2 DEF x, y

LEMMA PublishesWell == ViewsInvariant /\ Publish => ViewsInvariant'
<1> SUFFICES ASSUME ViewsInvariant, Publish PROVE ViewsInvariant'
  OBVIOUS
<1>1. /\ todo # <<>> /\ stored = Len(log) /\ log' = Append(log, Head(todo))
      /\ UNCHANGED <<stage, attempts, outcome>>
      /\ IF bus = "memory" THEN stored' = stored + 1 /\ AfterEvent
         ELSE UNCHANGED <<stored, todo, steps, statuses>>
  BY DEF Publish
<1>2. PICK a \in Team : /\ todo \in Seq(EventsOf(a)) /\ Head(todo) \in EventsOf(a)
                        /\ Tail(todo) \in Seq(EventsOf(a))
  BY <1>1, SomethingIsTodo DEF ViewsInvariant
<1>3. Head(todo) \in RunEvents /\ todo \in Seq(RunEvents) /\ log \in Seq(RunEvents)
  BY <1>2, EventsAreOfTheRun DEF EventsOf, ViewsInvariant, ViewsTypeOK
<1>4. /\ log' \in Seq(RunEvents) /\ Len(log') = stored + 1 /\ log'[stored + 1] = Head(todo)
      /\ \A i \in 1..stored : log'[i] = log[i]
      /\ stored \in Nat /\ stored # Len(log')
  BY <1>1, <1>3
<1>5. Append(log, Head(todo)) \o Tail(todo) = log \o todo
  BY <1>1, <1>3, HeadOfTheRest
<1>6. Told = log \o todo
  BY <1>1 DEF Told, Unpublished
<1>7. CASE bus = "memory"
  <2>1. stored' = stored + 1 /\ AfterEvent /\ todo' = Tail(todo)
    BY <1>1, <1>7 DEF AfterEvent
  <2>2. Told' = Told
    BY <1>1, <1>4, <1>5, <1>6, <2>1 DEF Told, Unpublished
  <2>3. HookTells' /\ statuses' \in [Team -> Shown]
    BY <1>1, <2>1, HookGoesOn
  <2>4. TrackerTells' /\ steps' \in [completed : Nat, failed : BOOLEAN, active : Team \cup {"none"}]
    BY <1>1, <1>4, <2>1, TrackerGoesOn
  <2>5. ViewsTypeOK'
    BY <1>1, <1>2, <1>4, <2>1, <2>3, <2>4 DEF ViewsInvariant, ViewsTypeOK
  <2>. QED  BY <1>1, <2>2, <2>3, <2>4, <2>5 DEF ViewsInvariant, StageStands, LogTells
<1>8. CASE bus # "memory"
  <2>1. UNCHANGED <<stored, todo, steps, statuses>>
    BY <1>1, <1>8
  <2>2. Told' = Told
    BY <1>1, <1>4, <1>5, <1>6, <2>1 DEF Told, Unpublished
  <2>3. HookTells'
    BY <1>1, <2>1 DEF ViewsInvariant, HookTells, LastHooked
  <2>4. ASSUME NEW types PROVE UpTo(stored, log', types) = UpTo(stored, log, types)
    <3>1. \A i \in 1..stored : i \in DOMAIN log' /\ i \in DOMAIN log
      BY <1>1, <1>3, <1>4
    <3>. QED  BY <1>1, <1>3, <1>4, <3>1 DEF UpTo, Positions
  <2>5. TrackerTells'
    BY <2>1, <2>4 DEF ViewsInvariant, TrackerTells
  <2>6. ViewsTypeOK'
    BY <1>1, <1>2, <1>4, <2>1 DEF ViewsInvariant, ViewsTypeOK
  <2>. QED  BY <1>1, <2>2, <2>3, <2>5, <2>6 DEF ViewsInvariant, StageStands, LogTells
<1>. QED  BY <1>7, <1>8

LEMMA StoresWell == ViewsInvariant /\ Store => ViewsInvariant'
<1> SUFFICES ASSUME ViewsInvariant, Store PROVE ViewsInvariant'
  OBVIOUS
<1>1. /\ stored < Len(log) /\ stored' = stored + 1 /\ AfterEvent
      /\ UNCHANGED <<log, stage, attempts, outcome>> /\ todo' = Tail(todo)
  BY DEF Store, AfterEvent
<1>2. /\ stored + 1 = Len(log) /\ todo # <<>> /\ log[Len(log)] = Head(todo)
      /\ log \in Seq(RunEvents) /\ stored \in Nat /\ stored # Len(log) /\ stored' = Len(log')
  BY <1>1 DEF ViewsInvariant, ViewsTypeOK
<1>3. PICK a \in Team : Tail(todo) \in Seq(EventsOf(a))
  BY <1>2, SomethingIsTodo DEF ViewsInvariant
<1>4. Told' = Told
  BY <1>1, <1>2 DEF Told, Unpublished
<1>5. HookTells' /\ statuses' \in [Team -> Shown]
  BY <1>1, <1>2, HookGoesOn
<1>6. TrackerTells' /\ steps' \in [completed : Nat, failed : BOOLEAN, active : Team \cup {"none"}]
  BY <1>1, <1>2, TrackerGoesOn
<1>7. ViewsTypeOK'
  BY <1>1, <1>2, <1>3, <1>5, <1>6 DEF ViewsInvariant, ViewsTypeOK
<1>. QED  BY <1>1, <1>4, <1>5, <1>6, <1>7 DEF ViewsInvariant, StageStands, LogTells

LEMMA ViewsInvariantIsKept == ViewsInvariant /\ [EventNext]_eventVars => ViewsInvariant'
<1>1. ASSUME ViewsInvariant, UNCHANGED pubVars PROVE ViewsInvariant'
  <2>1. UNCHANGED <<log, stored, todo, steps, statuses, stage, attempts, outcome>>
    BY <1>1 DEF pubVars
  <2>2. Told' = Told
    BY <2>1 DEF Told, Unpublished
  <2>. QED  BY <1>1, <2>1, <2>2 DEF ViewsInvariant, ViewsTypeOK, StageStands, LogTells, HookTells,
              LastHooked, TrackerTells
<1>2. ASSUME NEW w \in Watchers, ReadHistory(w) \/ FirstSnapshot(w) \/ Subscribe(w) \/ Deliver(w)
      PROVE  UNCHANGED pubVars
  BY <1>2 DEF ReadHistory, FirstSnapshot, Subscribe, Deliver
<1>3. UNCHANGED eventVars => UNCHANGED pubVars
  BY DEF eventVars
<1>. QED  BY <1>1, <1>2, <1>3, StageStartsWell, StageEndsWell, PublishesWell, StoresWell
          DEF EventNext

LEMMA ViewsInvariantHolds == EventInit => ViewsInvariant
<1> SUFFICES ASSUME EventInit PROVE ViewsInvariant
  OBVIOUS
<1>1. /\ log = <<>> /\ stored = 0 /\ todo = <<>> /\ stage = NoStage
      /\ steps = [completed |-> 0, failed |-> FALSE, active |-> "none"]
      /\ statuses = [a \in Team |-> "pending"] /\ attempts = [a \in Team |-> 0]
      /\ outcome = [a \in Team |-> "pending"]
  BY DEF EventInit
<1>2. "developer" \in Team /\ stored = Len(log) /\ DOMAIN log = {} /\ DOMAIN todo = {}
  BY <1>1 DEF Team, Delivery, ToSet
<1>3. Told = <<>> /\ DOMAIN Told = {}
  <2>1. Told = <<>> \o <<>>
    BY <1>1, <1>2 DEF Told, Unpublished
  <2>. QED  BY <2>1
<1>4. \A agents, types : Positions(Told, agents, types) = {} /\ Positions(log, agents, types) = {}
  BY <1>2, <1>3 DEF Positions
<1>5. log \in Seq(RunEvents) /\ todo \in Seq(EventsOf("developer"))
  BY <1>1
<1>6. /\ stage.agent \in Team /\ stage.repair = FALSE /\ stage.pc = "next" /\ stage.agent = "developer"
      /\ DOMAIN stage = {"agent", "pc", "repair", "result"}
  BY <1>1, <1>2 DEF NoStage
<1>7. ViewsTypeOK
  <2>1. steps \in [completed : Nat, failed : BOOLEAN, active : Team \cup {"none"}]
    BY <1>1
  <2>2. attempts \in [Team -> Nat] /\ statuses \in [Team -> Shown] /\ outcome \in [Team -> Shown]
    BY <1>1 DEF Shown
  <2>. QED  BY <1>1, <1>2, <1>5, <1>6, <2>1, <2>2 DEF ViewsTypeOK
<1>8. StageStands
  BY <1>6 DEF StageStands
<1>9. LogTells
  <2>1. \A a \in Team : RetryCount(Told, a) = 0
    BY <1>4, FS_EmptySet DEF RetryCount
  <2>2. ~LoopActive(Told)
    BY <1>3 DEF LoopActive
  <2>. QED  BY <1>1, <1>4, <2>1, <2>2 DEF LogTells, Shows
<1>10. HookTells
  BY <1>1, <1>2 DEF HookTells
<1>11. TrackerTells
  <2>1. UpTo(stored, log, Completions) = {} /\ UpTo(stored, log, Failures) = {}
    BY <1>4 DEF UpTo
  <2>2. steps.completed = 0 /\ steps.failed = FALSE
    BY <1>1
  <2>. QED  BY <2>1, <2>2, FS_EmptySet DEF TrackerTells
<1>. QED  BY <1>7, <1>8, <1>9, <1>10, <1>11 DEF ViewsInvariant

LEMMA LastIsLargest ==
    ASSUME NEW S \in SUBSET Nat, NEW i \in S, \A j \in S : j <= i
    PROVE  Max(S) = i
<1>1. \E k \in S : \A j \in S : k >= j
  <2>1. \A j \in S : i >= j
    OBVIOUS
  <2>. QED  BY <2>1
<1>2. Max(S) \in S /\ \A j \in S : Max(S) >= j
  BY <1>1 DEF Max
<1>3. Max(S) >= i /\ Max(S) <= i /\ Max(S) \in Nat /\ i \in Nat
  BY <1>2
<1>. QED  BY <1>3

LEMMA NodeShows ==
    ASSUME NEW s \in Seq(RunEvents), NEW a \in Team, NEW status \in Shown, Shows(s, a, status)
    PROVE  NodeStatus(s, a) = status
<1>. DEFINE own == Positions(s, {a}, StatusEvents)
<1>1. own \subseteq Nat /\ \A i \in own : s[i].type \in StatusEvents
  BY DEF Positions
<1>2. CASE own = {}
  BY <1>2 DEF Shows, NodeStatus
<1>3. ASSUME NEW i \in own, \A j \in own : j <= i, status = StatusFromEvent(s[i].type)
      PROVE  NodeStatus(s, a) = status
  <2>1. Max(own) = i /\ own # {}
    BY <1>1, <1>3, LastIsLargest
  <2>2. NodeStatus(s, a) = IF s[i].type \in Completions THEN "completed"
                           ELSE IF s[i].type \in Failures THEN "failed" ELSE "running"
    BY <2>1 DEF NodeStatus
  <2>. QED  BY <1>1, <1>3, <2>2 DEF StatusFromEvent, StatusEvents, Completions, Failures
<1>. QED  BY <1>2, <1>3 DEF Shows

(* Once the hook is through, the agents' statuses, the nodes of the        *)
(* telemetry, the tracker's steps and the totals say how the run stands,   *)
(* however many attempts it took, on either bus.                           *)
THEOREM ViewsAlwaysShowTheRun == EventSpec => []ViewsShowTheRun
<1>1. ASSUME ViewsInvariant PROVE ViewsShowTheRun
  <2> SUFFICES ASSUME Quiet PROVE ViewsShowTheRun!2
    BY DEF ViewsShowTheRun
  <2>1. /\ todo = <<>> /\ stored = Len(log) /\ log \in Seq(RunEvents)
        /\ statuses \in [Team -> Shown] /\ outcome \in [Team -> Shown]
        /\ steps.failed \in BOOLEAN
    BY <1>1 DEF Quiet, ViewsInvariant, ViewsTypeOK
  <2>2. Told = log
    <3>1. Told = log \o <<>>
      BY <2>1 DEF Told, Unpublished
    <3>. QED  BY <2>1, <3>1, ConcatEmptySeq
  <2>3. statuses = outcome
    <3>1. \A a \in Team : statuses[a] = outcome[a]
      BY <1>1, <2>1 DEF ViewsInvariant, HookTells
    <3>. QED  BY <2>1, <3>1
  <2>4. ASSUME NEW a \in Team
        PROVE  /\ NodeStatus(log, a) = outcome[a]
               /\ RetryCount(log, a) = (IF attempts[a] = 0 THEN 0 ELSE attempts[a] - 1)
    <3>1. Shows(log, a, outcome[a]) /\ outcome[a] \in Shown
      BY <1>1, <2>1, <2>2 DEF ViewsInvariant, LogTells
    <3>. QED  BY <1>1, <2>1, <2>2, <3>1, NodeShows DEF ViewsInvariant, LogTells
  <2>5. \A types : UpTo(stored, log, types) = Positions(log, Team, types)
    BY <2>1 DEF UpTo, Positions
  <2>6. steps.completed = Cardinality(Positions(log, Team, Completions))
    BY <1>1, <2>5 DEF ViewsInvariant, TrackerTells
  <2>7. steps.failed = TRUE <=> Totals(log).failures > 0
    <3>1. steps.failed = TRUE <=> Positions(log, Team, Failures) # {}
      BY <1>1, <2>5 DEF ViewsInvariant, TrackerTells
    <3>2. IsFiniteSet(Positions(log, Team, Failures))
      BY <2>1, PositionsAreFinite
    <3>3. Cardinality(Positions(log, Team, Failures)) \in Nat
          /\ (Cardinality(Positions(log, Team, Failures)) = 0 <=> Positions(log, Team, Failures) = {})
      BY <3>2, FS_CardinalityType, FS_EmptySet
    <3>. QED  BY <3>1, <3>3 DEF Totals
  <2>8. steps.failed = (Totals(log).failures > 0)
    <3>1. CASE Totals(log).failures > 0
      <4>1. steps.failed = TRUE /\ (Totals(log).failures > 0) = TRUE
        BY <2>7, <3>1
      <4>. QED  BY <4>1
    <3>2. CASE ~(Totals(log).failures > 0)
      <4>1. steps.failed = FALSE /\ (Totals(log).failures > 0) = FALSE
        BY <2>1, <2>7, <3>2
      <4>. QED  BY <4>1
    <3>. QED  BY <3>1, <3>2
  <2>9. LoopActive(log) => attempts["qa"] > 0 /\ attempts["developer"] > 1
    BY <1>1, <2>2 DEF ViewsInvariant, LogTells
  <2>. QED  BY <2>3, <2>4, <2>6, <2>8, <2>9, Zenon
<1>. QED  BY <1>1, ViewsInvariantHolds, ViewsInvariantIsKept, PTL DEF EventSpec

-----------------------------------------------------------------------------
DocSpec == DocInit /\ [][DocNext]_docVars

Texts == Files \cup Clients \cup {Nothing}

Document == [key : Keys \cup {Nothing}, text : Texts, version : Nat, source : Texts,
             path : Texts, protected : BOOLEAN]

Job == [pc : {"idle", "document", "version"}, key : Keys \cup {Nothing}, text : Texts,
        id : Ids \cup {0}, new : Document]

DocTypeOK ==
    /\ keyOf \in [Files -> Keys]
    /\ document \in [Ids -> Document]
    /\ history \subseteq Ids \X Nat \X Texts /\ IsFiniteSet(history)
    /\ unseeded \subseteq Files
    /\ job \in [Writers -> Job]
    /\ restarts \in Nat

(* Only the PostgreSQL repository has saves under way, and while the       *)
(* process seeds they are the seeder's.                                    *)
JobsStand ==
    /\ \A w \in Writers :
         /\ job[w].pc = "idle" => job[w] = NoJob
         /\ job[w].pc # "idle" => Suspends /\ job[w].id \in Ids /\ job[w].new.version > 0
    /\ unseeded # {} \/ job[Seeder] # NoJob => \A c \in Clients : job[c] = NoJob

(* Where a document came from a file, the file has its key.                *)
Sourced(x) == x.source # Nothing => x.source \in Files /\ keyOf[x.source] = x.key

SourcesStand ==
    /\ \A d \in Ids : Sourced(document[d])
    /\ \A d \in Ids : document[d].version = 0 => document[d] = NoDocument
    /\ \A w \in Writers : Sourced(job[w].new)

(* Every document, and what every save makes, has a key.                   *)
KeysStand ==
    /\ \A d \in Documents : document[d].key \in Keys
    /\ \A w \in Writers : job[w].pc # "idle" => job[w].new.key \in Keys

(* What the process has left to seed is in no document, and what it is     *)
(* seeding goes to the document of its key.                                *)
SeedsAreNew ==
    /\ \A f \in unseeded, d \in Ids : document[d].source # f
    /\ job[Seeder].pc # "idle" =>
         LET j == job[Seeder] IN
         /\ j.text \in Files \ unseeded
         /\ j.new.key = keyOf[j.text] /\ j.new.text = j.text /\ j.new.source = j.text
         /\ j.pc = "document" =>
              /\ document[j.id] = NoDocument \/ document[j.id].key = j.new.key
              /\ \A d \in Ids : document[d].source # j.text

SeededFiles ==
    (inTree \/ restarts = 0) /\ ~Serving =>
            \A f \in Files \ unseeded :
                \/ \E d \in Ids : document[d].key = keyOf[f]
                \/ job[Seeder].pc = "document" /\ job[Seeder].new.key = keyOf[f]

(* The text and the number of a document are in its history, or a save     *)
(* that has written them has still to write its version; what a crash cut  *)
(* there stays torn until another save gets that far.                      *)
VersionDue(w, d) == job[w].pc = "version" /\ job[w].id = d

Recorded(d) ==
    \/ Entry(d, document[d]) \in history
    \/ \E w \in Writers : VersionDue(w, d) /\ Entry(d, job[w].new) = Entry(d, document[d])

TextsAreRecorded ==
    \A d \in Documents :
        Recorded(d) \/ (d \in torn /\ \A w \in Writers : ~VersionDue(w, d))

(* Without suspensions: one document for a key, and its numbers 1, 2, ...  *)
Own(d) == {entry \in history : entry[1] = d}

NumbersStand ==
    ~Suspends =>
        /\ \A d, e \in Documents : document[d].key = document[e].key => d = e
        /\ \A d \in Documents :
             /\ {entry[2] : entry \in Own(d)} = 1 .. document[d].version
             /\ Cardinality(Own(d)) = document[d].version

DocInvariant ==
    /\ DocTypeOK /\ JobsStand /\ SourcesStand /\ KeysStand /\ SeedsAreNew
    /\ SeededFiles /\ TextsAreRecorded /\ NumbersStand

(* A save that starts: a client's while the process serves, or a seed.     *)
Begins(w, key, text) ==
    /\ \/ w \in Clients /\ Serving /\ unseeded' = unseeded
       \/ /\ w = Seeder /\ text \in unseeded /\ key = keyOf[text]
          /\ unseeded' = unseeded \ {text}
    /\ job[w] = NoJob
    /\ Upsert(w, key, text)
    /\ UNCHANGED <<built, torn, restarts>>

(* The document a save goes to, and what it makes of it.                   *)
GoesTo(w, d, new, key, text) ==
    /\ new.key = key /\ new.text = text /\ new.version = document[d].version + 1
    /\ new.source = (IF w = Seeder THEN text ELSE document[d].source)
    /\ \/ d \in Documents /\ document[d].key = key
       \/ /\ d \notin Documents /\ d \notin torn
          /\ \A e \in Documents : document[e].key # key
          /\ \A v \in Writers : job[v].id # d
          /\ Own(d) = {}

LEMMA NoDocumentIsOne ==
    /\ NoDocument \in Document /\ NoDocument.key = Nothing /\ NoDocument.text = Nothing
    /\ NoDocument.version = 0 /\ NoDocument.source = Nothing
    /\ NoJob \in Job /\ NoJob.pc = "idle" /\ NoJob.id = 0 /\ NoJob.new = NoDocument
BY DEF NoDocument, NoJob, Document, Job, Texts

LEMMA SavesGoTo ==
    ASSUME DocInvariant, NEW w \in Writers, NEW key \in Keys, NEW text \in Texts,
           Begins(w, key, text)
    PROVE  \E d \in Ids, new \in Document :
             /\ GoesTo(w, d, new, key, text)
             /\ IF Suspends
                THEN /\ job' = [job EXCEPT ![w] = [pc |-> "document", key |-> key, text |-> text,
                                                   id |-> d, new |-> new]]
                     /\ UNCHANGED <<document, history>>
                ELSE StoreBoth(w, d, new)
<1>1. PICK d \in Found(key) :
        IF Suspends
        THEN /\ job' = [job EXCEPT ![w] = [pc |-> "document", key |-> key, text |-> text,
                                           id |-> d, new |-> Revised(document[d], w, key, text)]]
             /\ UNCHANGED <<document, history>>
        ELSE StoreBoth(w, d, Revised(document[d], w, key, text))
  BY DEF Begins, Upsert
<1>2. d \in Ids
  BY DEF Found, Documents, Fresh
<1>3. document[d] \in Document
  BY <1>2 DEF DocInvariant, DocTypeOK
<1>. DEFINE new == Revised(document[d], w, key, text)
<1>4. new \in Document
  <2>. DEFINE old == document[d]
              path == IF old = NoDocument /\ Suspends /\ w = Seeder THEN text ELSE old.path
              protected == IF old = NoDocument THEN Suspends /\ w = Seeder ELSE old.protected
              source == IF w = Seeder THEN text ELSE old.source
  <2>1. old.protected \in BOOLEAN /\ old.version \in Nat /\ path \in Texts /\ source \in Texts
    BY <1>3 DEF Document
  <2>2. protected \in BOOLEAN
    BY <2>1, Zenon
  <2>3. new = [key |-> key, text |-> text, version |-> old.version + 1, source |-> source,
               path |-> path, protected |-> protected]
    BY DEF Revised
  <2>. HIDE DEF old, path, protected, source, new
  <2>. QED  BY <2>1, <2>2, <2>3 DEF Document
<1>5. /\ new.key = key /\ new.text = text /\ new.version = document[d].version + 1
      /\ new.source = (IF w = Seeder THEN text ELSE document[d].source)
  BY DEF Revised
<1>6. \/ d \in Documents /\ document[d].key = key
      \/ /\ d \notin Documents /\ d \notin torn
         /\ \A e \in Documents : document[e].key # key
         /\ \A v \in Writers : job[v].id # d
         /\ Own(d) = {}
  BY DEF Found, Fresh, Own
<1>. HIDE DEF new
<1>7. GoesTo(w, d, new, key, text)
  BY <1>5, <1>6 DEF GoesTo
<1>. QED  BY <1>1, <1>2, <1>4, <1>7 DEF new

LEMMA SavesAreSourced ==
    ASSUME DocInvariant, NEW w \in Writers, NEW key \in Keys, NEW text \in Texts,
           Begins(w, key, text), NEW d \in Ids, NEW new, GoesTo(w, d, new, key, text)
    PROVE  Sourced(new)
<1>1. CASE w = Seeder
  <2>1. text \in Files /\ key = keyOf[text]
    BY <1>1, DocumentsAssumption DEF Begins, DocInvariant, DocTypeOK
  <2>. QED  BY <1>1, <2>1 DEF GoesTo, Sourced
<1>2. CASE w # Seeder
  <2>1. new.source = document[d].source /\ new.key = key
    BY <1>2 DEF GoesTo
  <2>2. Sourced(document[d])
    BY DEF DocInvariant, SourcesStand
  <2>3. document[d].source = Nothing \/ document[d].key = key
    BY NoDocumentIsOne DEF GoesTo, Documents
  <2>. QED  BY <2>1, <2>2, <2>3 DEF Sourced
<1>. QED  BY <1>1, <1>2

(* The two ways a save leaves the documents.                               *)
LEMMA JobBeginsWell ==
    ASSUME DocInvariant, NEW w \in Writers, NEW key \in Keys, NEW text \in Texts,
           Begins(w, key, text), Suspends, NEW d \in Ids, NEW new \in Document,
           GoesTo(w, d, new, key, text),
           job' = [job EXCEPT ![w] = [pc |-> "document", key |-> key, text |-> text,
                                      id |-> d, new |-> new]],
           UNCHANGED <<document, history>>
    PROVE  DocInvariant'
<1>. DEFINE j == [pc |-> "document", key |-> key, text |-> text, id |-> d, new |-> new]
<1>1. j \in Job
  BY DEF Job
<1>2. /\ j.pc = "document" /\ j.id = d /\ j.new = new /\ j.text = text
  OBVIOUS
<1>3. job' = [job EXCEPT ![w] = j]
  OBVIOUS
<1>. HIDE DEF j
<1>4. /\ UNCHANGED <<document, history, torn, restarts, keyOf, repository, studio, inTree>>
      /\ unseeded' \subseteq unseeded
  BY DEF Begins, built
<1>5. /\ DocTypeOK' /\ job'[w] = j /\ \A v \in Writers \ {w} : job'[v] = job[v]
      /\ DocTypeOK
  BY <1>1, <1>3, <1>4 DEF DocInvariant, DocTypeOK
<1>6. new.version > 0
  BY <1>5 DEF GoesTo, DocTypeOK, Document
<1>7. Seeder \in Writers /\ Seeder \notin Clients
  BY DocumentsAssumption DEF Writers
<1>8. JobsStand'
  <2>1. \A v \in Writers :
          /\ job'[v].pc = "idle" => job'[v] = NoJob
          /\ job'[v].pc # "idle" => Suspends' /\ job'[v].id \in Ids /\ job'[v].new.version > 0
    BY <1>2, <1>4, <1>5, <1>6 DEF DocInvariant, JobsStand, Suspends
  <2>2. unseeded' # {} \/ job'[Seeder] # NoJob => \A c \in Clients : job'[c] = NoJob
    <3>1. CASE w = Seeder
      BY <1>4, <1>5, <1>7, <3>1 DEF Begins, DocInvariant, JobsStand, Writers, Serving
    <3>2. CASE w # Seeder
      BY <1>4, <1>5, <1>7, <3>2 DEF Begins, Serving
    <3>. QED  BY <3>1, <3>2
  <2>. QED  BY <2>1, <2>2 DEF JobsStand
<1>9. SourcesStand'
  <2>1. Sourced(new)
    BY SavesAreSourced
  <2>. QED  BY <1>2, <1>4, <1>5, <2>1 DEF DocInvariant, SourcesStand, Sourced
<1>10. SeedsAreNew'
  <2>1. CASE w = Seeder
    <3>1. /\ text \in unseeded /\ key = keyOf[text] /\ unseeded' = unseeded \ {text}
      BY <1>7, <2>1 DEF Begins
    <3>2. /\ text \in Files \ unseeded' /\ new.key = keyOf[text] /\ new.text = text
          /\ new.source = text
      BY <1>5, <2>1, <3>1 DEF GoesTo, DocTypeOK
    <3>3. document[d] = NoDocument \/ document[d].key = new.key
      BY DEF GoesTo, Documents
    <3>4. \A e \in Ids : document[e].source # text
      BY <3>1 DEF DocInvariant, SeedsAreNew
    <3>. QED  BY <1>2, <1>4, <1>5, <2>1, <3>2, <3>3, <3>4 DEF DocInvariant, SeedsAreNew
  <2>2. CASE w # Seeder
    BY <1>4, <1>5, <1>7, <2>2 DEF Begins, DocInvariant, SeedsAreNew
  <2>. QED  BY <2>1, <2>2
<1>11. SeededFiles'
  <2>1. CASE w = Seeder
    <3>1. /\ text \in unseeded /\ key = keyOf[text] /\ unseeded' = unseeded \ {text}
          /\ ~Serving
      BY <1>7, <2>1 DEF Begins, Serving
    <3>2. job[Seeder].pc # "document"
      BY <2>1, NoDocumentIsOne DEF Begins
    <3>3. new.key = keyOf[text]
      BY <3>1 DEF GoesTo
    <3>. QED  BY <1>2, <1>4, <1>5, <2>1, <3>1, <3>2, <3>3 DEF DocInvariant, SeededFiles
  <2>2. CASE w # Seeder
    BY <1>4, <1>5, <1>7, <2>2 DEF Begins, DocInvariant, SeededFiles, Serving
  <2>. QED  BY <2>1, <2>2
<1>12. TextsAreRecorded'
  <2>1. \A v \in Writers, e \in Ids : VersionDue(v, e)' <=> VersionDue(v, e)
    BY <1>2, <1>5, NoDocumentIsOne DEF VersionDue, Begins
  <2>2. \A v \in Writers, e \in Ids : VersionDue(v, e) => job'[v].new = job[v].new
    BY <1>5, NoDocumentIsOne DEF VersionDue, Begins
  <2>3. \A e \in Ids : Recorded(e) => Recorded(e)'
    BY <1>4, <2>1, <2>2 DEF Recorded, Entry
  <2>4. Documents' = Documents /\ Documents \subseteq Ids
    BY <1>4 DEF Documents
  <2>. QED  BY <1>4, <2>1, <2>3, <2>4 DEF DocInvariant, TextsAreRecorded
<1>13. NumbersStand'
  BY <1>4 DEF NumbersStand, Suspends
<1>20. KeysStand'
  <2>1. Documents' = Documents /\ Documents \subseteq Ids
    BY <1>4 DEF Documents
  <2>. QED  BY <1>2, <1>4, <1>5, <2>1 DEF DocInvariant, KeysStand, GoesTo
<1>. QED  BY <1>5, <1>8, <1>9, <1>10, <1>11, <1>12, <1>13, <1>20 DEF DocInvariant

LEMMA NoSaveUnderWay ==
    ASSUME DocInvariant, ~Suspends
    PROVE  \A w \in Writers : job[w] = NoJob
BY DEF DocInvariant, JobsStand, DocTypeOK, Job

LEMMA OwnIsFinite ==
    ASSUME DocInvariant, NEW d
    PROVE  IsFiniteSet(Own(d))
<1>1. Own(d) \subseteq history /\ IsFiniteSet(history)
  BY DEF Own, DocInvariant, DocTypeOK
<1>. QED  BY <1>1, FS_Subset

LEMMA StoredSeedsFillIn ==
    ASSUME DocInvariant, NEW w \in Writers, NEW key \in Keys, NEW text \in Texts,
           Begins(w, key, text), ~Suspends, NEW d \in Ids, NEW new \in Document,
           GoesTo(w, d, new, key, text), StoreBoth(w, d, new),
           ~Serving, inTree \/ restarts = 0, NEW f \in Files \ unseeded'
    PROVE  \E e \in Ids : document'[e].key = keyOf[f]
<1>1. /\ document'[d] = new /\ \A e \in Ids \ {d} : document'[e] = document[e]
      /\ w = Seeder /\ new.key = key /\ key = keyOf[text] /\ unseeded' = unseeded \ {text}
  BY DEF Begins, StoreBoth, DocInvariant, DocTypeOK, GoesTo
<1>2. CASE f = text
  BY <1>1, <1>2
<1>3. CASE f # text
  <2>1. PICK e \in Ids : document[e].key = keyOf[f]
    BY <1>1, <1>3, NoSaveUnderWay, NoDocumentIsOne DEF DocInvariant, SeededFiles
  <2>2. keyOf[f] # Nothing
    BY DocumentsAssumption DEF DocInvariant, DocTypeOK
  <2>3. CASE e = d
    BY <1>1, <2>1, <2>2, <2>3, NoDocumentIsOne DEF GoesTo, Documents
  <2>4. CASE e # d
    BY <1>1, <2>1, <2>4
  <2>. QED  BY <2>3, <2>4
<1>. QED  BY <1>2, <1>3

LEMMA StoredWell ==
    ASSUME DocInvariant, NEW w \in Writers, NEW key \in Keys, NEW text \in Texts,
           Begins(w, key, text), ~Suspends, NEW d \in Ids, NEW new \in Document,
           GoesTo(w, d, new, key, text), StoreBoth(w, d, new)
    PROVE  DocInvariant'
<1>1. /\ UNCHANGED <<torn, restarts, keyOf, repository, studio, inTree>> /\ unseeded' \subseteq unseeded
      /\ document' = [document EXCEPT ![d] = new]
      /\ history' = history \cup {Entry(d, new)}
  BY DEF Begins, built, StoreBoth
<1>2. \A v \in Writers : job[v] = NoJob /\ job'[v] = NoJob
  BY NoSaveUnderWay DEF StoreBoth, DocInvariant, DocTypeOK
<1>3. job' \in [Writers -> Job]
  BY NoDocumentIsOne DEF StoreBoth, DocInvariant, DocTypeOK
<1>4. /\ document \in [Ids -> Document] /\ document'[d] = new
      /\ \A e \in Ids \ {d} : document'[e] = document[e]
  BY <1>1 DEF DocInvariant, DocTypeOK
<1>5. document[d].version \in Nat /\ new.version = document[d].version + 1 /\ new # NoDocument
  BY <1>4, NoDocumentIsOne DEF GoesTo, Document
<1>6. DocTypeOK'
  <2>1. Entry(d, new) \in Ids \X Nat \X Texts
    BY DEF Entry, Document
  <2>2. IsFiniteSet(history')
    BY <1>1, FS_AddElement DEF DocInvariant, DocTypeOK
  <2>. QED  BY <1>1, <1>3, <2>1, <2>2 DEF DocInvariant, DocTypeOK
<1>7. JobsStand'
  BY <1>2, NoDocumentIsOne, DocumentsAssumption DEF JobsStand, Writers
<1>8. SourcesStand'
  <2>1. Sourced(new)
    BY SavesAreSourced
  <2>. QED  BY <1>1, <1>2, <1>4, <1>5, <2>1 DEF DocInvariant, SourcesStand, Sourced
<1>9. SeedsAreNew'
  <2>1. job'[Seeder].pc = "idle"
    BY <1>2, NoDocumentIsOne DEF Writers
  <2>2. CASE w = Seeder
    <3>1. unseeded' = unseeded \ {text} /\ new.source = text
      BY <2>2, DocumentsAssumption DEF Begins, GoesTo
    <3>. QED  BY <1>4, <2>1, <3>1 DEF DocInvariant, SeedsAreNew
  <2>3. CASE w # Seeder
    <3>1. new.source = document[d].source
      BY <2>3 DEF GoesTo
    <3>. QED  BY <1>1, <1>4, <2>1, <3>1 DEF DocInvariant, SeedsAreNew
  <2>. QED  BY <2>2, <2>3
<1>10. SeededFiles'
  <2>1. ~Serving' => ~Serving
    BY <1>1, <1>2, DocumentsAssumption DEF Serving, Writers
  <2>. QED  BY <1>1, <2>1, StoredSeedsFillIn DEF SeededFiles
<1>11. TextsAreRecorded'
  <2>1. \A v \in Writers, e \in Ids : ~VersionDue(v, e) /\ ~VersionDue(v, e)'
    BY <1>2, NoDocumentIsOne DEF VersionDue
  <2>2. Recorded(d)'
    BY <1>1, <1>4 DEF Recorded
  <2>3. ASSUME NEW e \in Documents', e # d
        PROVE  Recorded(e)' \/ (e \in torn' /\ \A v \in Writers : ~VersionDue(v, e)')
    <3>1. e \in Documents /\ e \in Ids /\ document'[e] = document[e]
      BY <1>4, <2>3 DEF Documents
    <3>2. Recorded(e) => Entry(e, document[e]) \in history
      BY <2>1, <3>1 DEF Recorded
    <3>3. Recorded(e) => Recorded(e)'
      BY <1>1, <3>1, <3>2 DEF Recorded
    <3>. QED  BY <1>1, <2>1, <3>1, <3>3 DEF DocInvariant, TextsAreRecorded
  <2>. QED  BY <2>2, <2>3 DEF TextsAreRecorded
<1>12. NumbersStand'
  <2>. DEFINE n == document[d].version
              entry == Entry(d, new)
  <2>1. entry[1] = d /\ entry[2] = n + 1
    BY <1>5 DEF Entry
  <2>2. {x[2] : x \in Own(d)} = 1 .. n /\ Cardinality(Own(d)) = n
    <3>1. CASE d \in Documents
      BY <3>1 DEF DocInvariant, NumbersStand
    <3>2. CASE d \notin Documents
      <4>1. n = 0 /\ Own(d) = {}
        BY <3>2, NoDocumentIsOne DEF GoesTo, Documents
      <4>. QED  BY <4>1, FS_EmptySet
    <3>. QED  BY <3>1, <3>2
  <2>3. Own(d)' = Own(d) \cup {entry}
    BY <1>1, <2>1 DEF Own
  <2>4. \A e \in Ids \ {d} : Own(e)' = Own(e)
    BY <1>1, <2>1 DEF Own
  <2>5. entry \notin Own(d)
    <3>1. entry \in Own(d) => entry[2] \in {x[2] : x \in Own(d)}
      OBVIOUS
    <3>2. n + 1 \notin 1 .. n
      BY <1>5
    <3>. QED  BY <2>1, <2>2, <3>1, <3>2
  <2>6. Cardinality(Own(d)') = n + 1
    BY <2>2, <2>3, <2>5, OwnIsFinite, FS_AddElement
  <2>7. {x[2] : x \in Own(d)'} = 1 .. (n + 1)
    <3>1. {x[2] : x \in Own(d)'} = {x[2] : x \in Own(d)} \cup {n + 1}
      BY <2>1, <2>3
    <3>2. (1 .. n) \cup {n + 1} = 1 .. (n + 1)
      BY <1>5
    <3>. QED  BY <2>2, <3>1, <3>2
  <2>8. \A e \in Documents' \ {d} : e \in Documents /\ e \in Ids /\ document'[e] = document[e]
    BY <1>4 DEF Documents
  <2>9. \A e \in Documents \ {d} : document[e].key # new.key
    BY DEF GoesTo, DocInvariant, NumbersStand
  <2>10. \A e, g \in Documents' : document'[e].key = document'[g].key => e = g
    BY <1>4, <2>8, <2>9 DEF DocInvariant, NumbersStand
  <2>11. \A e \in Documents' : {x[2] : x \in Own(e)'} = 1 .. document'[e].version
                               /\ Cardinality(Own(e)') = document'[e].version
    <3> SUFFICES ASSUME NEW e \in Documents'
                 PROVE  /\ {x[2] : x \in Own(e)'} = 1 .. document'[e].version
                        /\ Cardinality(Own(e)') = document'[e].version
      OBVIOUS
    <3>1. CASE e = d
      BY <1>4, <1>5, <2>6, <2>7, <3>1
    <3>2. CASE e # d
      BY <2>4, <2>8, <3>2 DEF DocInvariant, NumbersStand
    <3>. QED  BY <3>1, <3>2
  <2>. QED  BY <2>10, <2>11 DEF NumbersStand
<1>20. KeysStand'
  BY <1>2, <1>4, NoDocumentIsOne DEF DocInvariant, KeysStand, GoesTo, Documents
<1>. QED  BY <1>6, <1>7, <1>8, <1>9, <1>10, <1>11, <1>12, <1>20 DEF DocInvariant

LEMMA DocumentWrittenWell ==
    ASSUME DocInvariant, NEW w \in Writers, WriteDocument(w)
    PROVE  DocInvariant'
<1>. DEFINE j == job[w]
            k == [j EXCEPT !.pc = "version"]
<1>0. PICK d : d = j.id
  OBVIOUS
<1>1. /\ UNCHANGED <<keyOf, repository, studio, inTree, history, unseeded, torn, restarts>>
      /\ document' = [document EXCEPT ![d] = j.new] /\ j.pc = "document"
      /\ job' = [job EXCEPT ![w] = k] /\ DocTypeOK
  BY <1>0 DEF WriteDocument, built, DocInvariant, DocTypeOK
<1>2. /\ j \in Job /\ j # NoJob /\ Suspends /\ d \in Ids /\ j.new \in Document
      /\ j.new.version > 0
  BY <1>0, <1>1, NoDocumentIsOne DEF DocInvariant, DocTypeOK, JobsStand, Job
<1>3. k \in Job /\ k.pc = "version" /\ k.id = d /\ k.new = j.new /\ k.text = j.text
  BY <1>0, <1>2 DEF Job
<1>. HIDE DEF k
<1>4. /\ DocTypeOK' /\ job'[w] = k /\ \A v \in Writers \ {w} : job'[v] = job[v]
      /\ document'[d] = j.new /\ \A e \in Ids \ {d} : document'[e] = document[e]
  BY <1>1, <1>2, <1>3 DEF DocTypeOK
<1>5. Seeder \in Writers /\ Seeder \notin Clients
  BY DocumentsAssumption DEF Writers
<1>. DEFINE Seeds == SeedsAreNew' /\ SeededFiles'
<1>6. ASSUME w # Seeder PROVE Seeds
  <2>1. w \in Clients /\ unseeded = {} /\ job[Seeder] = NoJob
    BY <1>2, <1>6 DEF Writers, DocInvariant, JobsStand
  <2>2. Serving' /\ job'[Seeder] = NoJob
    BY <1>1, <1>4, <1>5, <1>6, <2>1 DEF Serving
  <2>. QED  BY <1>1, <2>1, <2>2, NoDocumentIsOne DEF SeedsAreNew, SeededFiles
<1>7. ASSUME w = Seeder PROVE Seeds
  <2>1. /\ j.text \in Files \ unseeded
        /\ j.new.key = keyOf[j.text] /\ j.new.text = j.text /\ j.new.source = j.text
        /\ document[d] = NoDocument \/ document[d].key = j.new.key
    BY <1>0, <1>1, <1>7 DEF DocInvariant, SeedsAreNew
  <2>2. SeedsAreNew'
    BY <1>1, <1>3, <1>4, <1>7, <2>1 DEF DocInvariant, SeedsAreNew
  <2>3. SeededFiles'
    <3> SUFFICES ASSUME inTree \/ restarts = 0, NEW f \in Files \ unseeded
                 PROVE  \E e \in Ids : document'[e].key = keyOf[f]
      BY <1>1 DEF SeededFiles
    <3>1. ~Serving
      BY <1>2, <1>7 DEF Serving
    <3>2. CASE j.new.key = keyOf[f]
      BY <1>2, <1>4, <3>2
    <3>3. CASE j.new.key # keyOf[f]
      <4>1. PICK e \in Ids : document[e].key = keyOf[f]
        BY <1>7, <3>1, <3>3 DEF DocInvariant, SeededFiles
      <4>2. keyOf[f] # Nothing
        BY <1>1, DocumentsAssumption DEF DocTypeOK
      <4>3. e # d
        BY <2>1, <3>3, <4>1, <4>2, NoDocumentIsOne
      <4>. QED  BY <1>4, <4>1, <4>3
    <3>. QED  BY <3>2, <3>3
  <2>. QED  BY <2>2, <2>3
<1>8. Seeds
  BY <1>6, <1>7
<1>9. JobsStand'
  BY <1>1, <1>2, <1>3, <1>4, NoDocumentIsOne DEF DocInvariant, JobsStand, Suspends
<1>10. SourcesStand'
  <2>1. Sourced(j.new) /\ j.new.version # 0
    BY <1>2 DEF DocInvariant, SourcesStand, Document
  <2>. QED  BY <1>1, <1>3, <1>4, <2>1 DEF DocInvariant, SourcesStand, Sourced
<1>11. TextsAreRecorded'
  <2>1. VersionDue(w, d)' /\ Recorded(d)'
    BY <1>3, <1>4 DEF VersionDue, Recorded, Entry
  <2>2. ASSUME NEW e \in Documents', e # d
        PROVE  Recorded(e)' \/ (e \in torn' /\ \A v \in Writers : ~VersionDue(v, e)')
    <3>1. e \in Documents /\ e \in Ids /\ document'[e] = document[e]
      BY <1>4, <2>2 DEF Documents
    <3>2. \A v \in Writers : VersionDue(v, e)' <=> VersionDue(v, e)
      BY <1>0, <1>1, <1>3, <1>4, <2>2 DEF VersionDue
    <3>3. \A v \in Writers : VersionDue(v, e) => job'[v].new = job[v].new
      BY <1>1, <1>4 DEF VersionDue
    <3>4. Recorded(e) => Recorded(e)'
      BY <1>1, <3>1, <3>2, <3>3 DEF Recorded, Entry
    <3>. QED  BY <1>1, <3>1, <3>2, <3>4 DEF DocInvariant, TextsAreRecorded
  <2>. QED  BY <2>1, <2>2 DEF TextsAreRecorded
<1>12. NumbersStand'
  BY <1>1, <1>2 DEF NumbersStand, Suspends
<1>20. KeysStand'
  BY <1>1, <1>3, <1>4 DEF DocInvariant, KeysStand, Documents
<1>. QED  BY <1>4, <1>8, <1>9, <1>10, <1>11, <1>12, <1>20 DEF DocInvariant

LEMMA VersionWrittenWell ==
    ASSUME DocInvariant, NEW w \in Writers, WriteVersion(w)
    PROVE  DocInvariant'
<1>. DEFINE j == job[w]
            d == j.id
<1>1. /\ UNCHANGED <<keyOf, repository, studio, inTree, document, unseeded, restarts>>
      /\ j.pc = "version" /\ history' = history \cup {Entry(d, j.new)}
      /\ job' = [job EXCEPT ![w] = NoJob] /\ torn' = torn \ {d} /\ DocTypeOK
  BY DEF WriteVersion, built, DocInvariant, DocTypeOK
<1>2. j \in Job /\ j # NoJob /\ Suspends /\ d \in Ids /\ j.new \in Document
  BY <1>1, NoDocumentIsOne DEF DocInvariant, DocTypeOK, JobsStand, Job
<1>3. /\ job' \in [Writers -> Job] /\ job'[w] = NoJob
      /\ \A v \in Writers \ {w} : job'[v] = job[v]
  BY <1>1, NoDocumentIsOne DEF DocTypeOK
<1>4. Seeder \in Writers /\ Seeder \notin Clients
  BY DocumentsAssumption DEF Writers
<1>5. DocTypeOK'
  <2>1. Entry(d, j.new) \in Ids \X Nat \X Texts
    BY <1>2 DEF Entry, Document
  <2>2. IsFiniteSet(history')
    BY <1>1, FS_AddElement DEF DocTypeOK
  <2>. QED  BY <1>1, <1>3, <2>1, <2>2 DEF DocTypeOK
<1>6. JobsStand'
  <2>1. \A v \in Writers :
          /\ job'[v].pc = "idle" => job'[v] = NoJob
          /\ job'[v].pc # "idle" => Suspends' /\ job'[v].id \in Ids /\ job'[v].new.version > 0
    BY <1>1, <1>3, NoDocumentIsOne DEF DocInvariant, JobsStand, Suspends
  <2>2. unseeded' # {} \/ job'[Seeder] # NoJob => \A c \in Clients : job'[c] = NoJob
    BY <1>1, <1>3, <1>4 DEF DocInvariant, JobsStand, Writers
  <2>. QED  BY <2>1, <2>2 DEF JobsStand
<1>7. SourcesStand'
  BY <1>1, <1>3, NoDocumentIsOne DEF DocInvariant, SourcesStand, Sourced
<1>8. SeedsAreNew'
  BY <1>1, <1>3, <1>4, NoDocumentIsOne DEF DocInvariant, SeedsAreNew
<1>9. SeededFiles'
  <2>1. ~Serving' => ~Serving
    BY <1>1, <1>2, <1>3, <1>4 DEF Serving, DocInvariant, JobsStand, Writers
  <2>2. job[Seeder].pc = "document" => job'[Seeder] = job[Seeder]
    BY <1>1, <1>3, <1>4
  <2>. QED  BY <1>1, <2>1, <2>2 DEF DocInvariant, SeededFiles
<1>10. TextsAreRecorded'
  <2> SUFFICES ASSUME NEW e \in Documents
               PROVE  Recorded(e)' \/ (e \in torn' /\ \A v \in Writers : ~VersionDue(v, e)')
    BY <1>1 DEF TextsAreRecorded, Documents
  <2>2. \A v \in Writers \ {w} : /\ VersionDue(v, e)' <=> VersionDue(v, e)
                                 /\ job'[v].new = job[v].new
    BY <1>3 DEF VersionDue
  <2>3. ~VersionDue(w, e)'
    BY <1>3, NoDocumentIsOne DEF VersionDue
  <2>4. ASSUME Recorded(e) PROVE Recorded(e)'
    <3>1. CASE Entry(e, document[e]) \in history
      BY <1>1, <3>1 DEF Recorded
    <3>2. ASSUME NEW v \in Writers, VersionDue(v, e), Entry(e, job[v].new) = Entry(e, document[e])
          PROVE  Recorded(e)'
      <4>1. CASE v = w
        BY <1>1, <3>2, <4>1 DEF VersionDue, Recorded
      <4>2. CASE v # w
        BY <1>1, <2>2, <3>2, <4>2 DEF Recorded
      <4>. QED  BY <4>1, <4>2
    <3>. QED  BY <2>4, <3>1, <3>2 DEF Recorded
  <2>5. CASE ~Recorded(e)
    <3>1. e \in torn /\ \A v \in Writers : ~VersionDue(v, e)
      BY <2>5 DEF DocInvariant, TextsAreRecorded
    <3>2. e # d
      BY <1>1, <3>1 DEF VersionDue
    <3>. QED  BY <1>1, <2>2, <2>3, <3>1, <3>2
  <2>. QED  BY <2>4, <2>5
<1>11. NumbersStand'
  BY <1>1, <1>2 DEF NumbersStand, Suspends
<1>20. KeysStand'
  BY <1>1, <1>3, NoDocumentIsOne DEF DocInvariant, KeysStand, Documents
<1>. QED  BY <1>5, <1>6, <1>7, <1>8, <1>9, <1>10, <1>11, <1>20 DEF DocInvariant

LEMMA DeletedWell ==
    ASSUME DocInvariant, NEW d \in Ids, Delete(d)
    PROVE  DocInvariant'
<1>1. /\ UNCHANGED <<keyOf, repository, studio, inTree, unseeded, job, torn, restarts>>
      /\ document' = [document EXCEPT ![d] = NoDocument] /\ Serving
      /\ history' = IF Suspends THEN history ELSE {entry \in history : entry[1] # d}
  BY DEF Delete, built
<1>2. /\ document' \in [Ids -> Document] /\ document'[d] = NoDocument
      /\ \A e \in Ids \ {d} : document'[e] = document[e]
  BY <1>1, NoDocumentIsOne DEF DocInvariant, DocTypeOK
<1>3. history' \subseteq history /\ \A entry \in history : entry[1] # d => entry \in history'
  BY <1>1
<1>4. DocTypeOK'
  <2>1. IsFiniteSet(history')
    BY <1>3, FS_Subset DEF DocInvariant, DocTypeOK
  <2>. QED  BY <1>1, <1>2, <1>3, <2>1 DEF DocInvariant, DocTypeOK
<1>5. JobsStand'
  BY <1>1 DEF DocInvariant, JobsStand, Suspends
<1>6. SourcesStand'
  BY <1>1, <1>2, NoDocumentIsOne DEF DocInvariant, SourcesStand, Sourced
<1>7. unseeded = {} /\ job[Seeder].pc = "idle"
  BY <1>1, NoDocumentIsOne DEF Serving
<1>8. SeedsAreNew' /\ SeededFiles'
  BY <1>1, <1>7 DEF SeedsAreNew, SeededFiles, Serving
<1>9. \A e \in Documents' : e \in Documents /\ e # d /\ e \in Ids /\ document'[e] = document[e]
  BY <1>2 DEF Documents
<1>10. TextsAreRecorded'
  <2> SUFFICES ASSUME NEW e \in Documents'
               PROVE  Recorded(e)' \/ (e \in torn' /\ \A v \in Writers : ~VersionDue(v, e)')
    BY DEF TextsAreRecorded
  <2>1. Entry(e, document[e])[1] = e
    BY DEF Entry
  <2>2. Recorded(e) => Recorded(e)'
    BY <1>1, <1>3, <1>9, <2>1 DEF Recorded, VersionDue
  <2>. QED  BY <1>1, <1>9, <2>2 DEF DocInvariant, TextsAreRecorded, VersionDue
<1>11. NumbersStand'
  <2>1. \A e \in Documents' : Own(e)' = Own(e)
    BY <1>3, <1>9 DEF Own
  <2>. QED  BY <1>1, <1>9, <2>1 DEF DocInvariant, NumbersStand, Suspends
<1>20. KeysStand'
  BY <1>1, <1>2 DEF DocInvariant, KeysStand, Documents
<1>. QED  BY <1>4, <1>5, <1>6, <1>8, <1>10, <1>11, <1>20 DEF DocInvariant

LEMMA RestartsFillIn ==
    ASSUME DocInvariant, Restart, inTree \/ restarts' = 0,
           NEW f \in Files \ unseeded'
    PROVE  \E d \in Ids : document'[d].key = keyOf[f]
<1>1. inTree
  BY DEF Restart, DocInvariant, DocTypeOK
<1>2. \/ unseeded' = {g \in Files : \A d \in Ids : document'[d].source # g}
      \/ unseeded' = {g \in Files : \A d \in Ids : document'[d].key # keyOf[g]}
  BY <1>1 DEF Restart, LeftToSeed, GovernanceSeeds, PromptSeeds
<1>3. PICK d \in Ids : document'[d].source = f \/ document'[d].key = keyOf[f]
  BY <1>2
<1>4. document'[d] = NoDocument \/ document'[d] = document[d]
  BY DEF Restart
<1>5. Sourced(document[d])
  BY DEF DocInvariant, SourcesStand
<1>. QED  BY <1>3, <1>4, <1>5, NoDocumentIsOne, DocumentsAssumption DEF Sourced

LEMMA RestartedWell ==
    ASSUME DocInvariant, Restart
    PROVE  DocInvariant'
<1>. DEFINE stay == IF repository = "memory" THEN [d \in Ids |-> NoDocument] ELSE document
<1>1. /\ UNCHANGED <<keyOf, repository, studio, inTree>> /\ restarts' = restarts + 1 /\ DocTypeOK
      /\ document' = stay /\ unseeded' = LeftToSeed(stay)
      /\ history' = IF repository = "memory" THEN {} ELSE history
      /\ torn' = torn \cup {job[w].id : w \in {v \in Writers : job[v].pc = "version"}}
      /\ job' = [w \in Writers |-> NoJob]
  BY DEF Restart, built, DocInvariant
<1>2. \A d \in Ids : stay[d] = NoDocument \/ (stay[d] = document[d] /\ repository # "memory")
  OBVIOUS
<1>3. stay \in [Ids -> Document]
  BY <1>1, NoDocumentIsOne DEF DocTypeOK
<1>. HIDE DEF stay
<1>4. \A w \in Writers : job'[w] = NoJob
  BY <1>1
<1>5. Seeder \in Writers /\ Clients \subseteq Writers
  BY DEF Writers
<1>6. unseeded' \subseteq Files /\ \A f \in unseeded', d \in Ids : stay[d].source # f
  <2>1. CASE studio = "governance"
    BY <1>1, <2>1 DEF LeftToSeed, GovernanceSeeds
  <2>2. CASE studio # "governance" /\ inTree
    <3> SUFFICES ASSUME NEW f \in Files, \A d \in Ids : stay[d].key # keyOf[f], NEW d \in Ids
                 PROVE  stay[d].source # f
      BY <1>1, <2>2 DEF LeftToSeed, PromptSeeds
    <3>1. Sourced(document[d]) /\ NoDocument.source = Nothing
      BY NoDocumentIsOne DEF DocInvariant, SourcesStand
    <3>. QED  BY <1>2, <3>1, DocumentsAssumption DEF Sourced
  <2>3. CASE studio # "governance" /\ ~inTree
    BY <1>1, <2>3, NoDocumentIsOne, DocumentsAssumption DEF LeftToSeed, PromptSeeds
  <2>. QED  BY <2>1, <2>2, <2>3
<1>7. DocTypeOK'
  <2>1. IsFiniteSet(history') /\ history' \subseteq history
    BY <1>1, FS_EmptySet DEF DocTypeOK
  <2>2. job' \in [Writers -> Job]
    BY <1>1, NoDocumentIsOne
  <2>. QED  BY <1>1, <1>3, <1>6, <2>1, <2>2 DEF DocTypeOK
<1>8. JobsStand'
  BY <1>4, <1>5, NoDocumentIsOne DEF JobsStand
<1>9. SourcesStand'
  BY <1>1, <1>2, <1>4, NoDocumentIsOne DEF DocInvariant, SourcesStand, Sourced
<1>10. KeysStand'
  BY <1>1, <1>2, <1>4, NoDocumentIsOne DEF DocInvariant, KeysStand, Documents
<1>11. SeedsAreNew'
  BY <1>1, <1>4, <1>5, <1>6, NoDocumentIsOne DEF SeedsAreNew
<1>12. SeededFiles'
  BY <1>1, RestartsFillIn DEF SeededFiles
<1>13. TextsAreRecorded'
  <2> SUFFICES ASSUME NEW d \in Documents'
               PROVE  Recorded(d)' \/ (d \in torn' /\ \A w \in Writers : ~VersionDue(w, d)')
    BY DEF TextsAreRecorded
  <2>1. d \in Documents /\ d \in Ids /\ document'[d] = document[d] /\ repository # "memory"
    BY <1>1, <1>2 DEF Documents
  <2>2. \A w \in Writers : ~VersionDue(w, d)'
    BY <1>4, NoDocumentIsOne DEF VersionDue
  <2>3. CASE Entry(d, document[d]) \in history
    BY <1>1, <2>1, <2>3 DEF Recorded
  <2>4. CASE \E w \in Writers : VersionDue(w, d)
    BY <1>1, <2>2, <2>4 DEF VersionDue
  <2>5. CASE d \in torn
    BY <1>1, <2>2, <2>5
  <2>. QED  BY <2>1, <2>3, <2>4, <2>5 DEF DocInvariant, TextsAreRecorded, Recorded
<1>14. NumbersStand'
  <2>1. CASE repository = "memory"
    BY <1>1, <1>2, <2>1 DEF NumbersStand, Documents
  <2>2. CASE repository # "memory"
    <3>1. Documents' \subseteq Documents /\ Documents \subseteq Ids
      BY <1>1, <1>2 DEF Documents
    <3>2. \A d \in Documents' : document'[d] = document[d]
      BY <1>1, <1>2 DEF Documents
    <3>3. \A d \in Ids : Own(d)' = Own(d)
      BY <1>1, <2>2 DEF Own
    <3>. QED  BY <1>1, <3>1, <3>2, <3>3 DEF DocInvariant, NumbersStand, Suspends
  <2>. QED  BY <2>1, <2>2
<1>. QED  BY <1>7, <1>8, <1>9, <1>10, <1>11, <1>12, <1>13, <1>14 DEF DocInvariant

LEMMA DocInvariantHolds == DocInit => DocInvariant
<1> SUFFICES ASSUME DocInit PROVE DocInvariant
  OBVIOUS
<1>1. /\ document = [d \in Ids |-> NoDocument] /\ job = [w \in Writers |-> NoJob]
      /\ history = {} /\ unseeded = Files /\ restarts = 0 /\ keyOf \in [Files -> Keys]
  BY DocumentsAssumption DEF DocInit
<1>2. /\ \A d \in Ids : document[d] = NoDocument
      /\ \A w \in Writers : job[w] = NoJob
      /\ Documents = {} /\ Seeder \in Writers /\ Clients \subseteq Writers
  BY <1>1 DEF Documents, Writers
<1>3. DocTypeOK
  BY <1>1, NoDocumentIsOne, FS_EmptySet DEF DocTypeOK
<1>4. JobsStand /\ SourcesStand /\ KeysStand
  BY <1>2, NoDocumentIsOne DEF JobsStand, SourcesStand, Sourced, KeysStand
<1>5. SeedsAreNew /\ SeededFiles
  BY <1>1, <1>2, NoDocumentIsOne, DocumentsAssumption DEF SeedsAreNew, SeededFiles
<1>6. TextsAreRecorded /\ NumbersStand
  BY <1>2 DEF TextsAreRecorded, NumbersStand
<1>. QED  BY <1>3, <1>4, <1>5, <1>6 DEF DocInvariant

(* A save, a rollback and a seed are saves that begin.                     *)
LEMMA BegunWell ==
    ASSUME DocInvariant, NEW w \in Writers, NEW key \in Keys, NEW text \in Texts,
           Begins(w, key, text)
    PROVE  DocInvariant'
<1>1. PICK d \in Ids, new \in Document :
        /\ GoesTo(w, d, new, key, text)
        /\ IF Suspends
           THEN /\ job' = [job EXCEPT ![w] = [pc |-> "document", key |-> key, text |-> text,
                                              id |-> d, new |-> new]]
                /\ UNCHANGED <<document, history>>
           ELSE StoreBoth(w, d, new)
  BY SavesGoTo
<1>2. CASE Suspends
  BY <1>1, <1>2, JobBeginsWell
<1>3. CASE ~Suspends
  BY <1>1, <1>3, StoredWell
<1>. QED  BY <1>2, <1>3

LEMMA SeedsBegin ==
    ASSUME DocInvariant, NEW f \in Files, Seed(f)
    PROVE  Seeder \in Writers /\ keyOf[f] \in Keys /\ f \in Texts /\ Begins(Seeder, keyOf[f], f)
BY DEF Seed, Begins, Writers, Texts, DocInvariant, DocTypeOK, built

LEMMA SavesBegin ==
    ASSUME NEW c \in Clients, NEW key \in Keys, Save(c, key)
    PROVE  c \in Writers /\ c \in Texts /\ Begins(c, key, c)
BY DEF Save, Asks, Begins, Writers, Texts, built

LEMMA RollbacksBegin ==
    ASSUME DocInvariant, NEW c \in Clients, NEW d \in Ids, Rollback(c, d)
    PROVE  /\ c \in Writers /\ document[d].key \in Keys
           /\ \E text \in Texts : Begins(c, document[d].key, text)
<1>1. PICK text \in EarlierTexts(d) : Upsert(c, document[d].key, text)
  BY DEF Rollback
<1>2. text \in Texts
  BY <1>1 DEF EarlierTexts, DocInvariant, DocTypeOK
<1>3. Begins(c, document[d].key, text)
  BY <1>1 DEF Rollback, Asks, Begins, built
<1>. QED  BY <1>2, <1>3 DEF Rollback, Writers, DocInvariant, KeysStand

LEMMA DocInvariantIsKept == DocInvariant /\ [DocNext]_docVars => DocInvariant'
<1> SUFFICES ASSUME DocInvariant, [DocNext]_docVars PROVE DocInvariant'
  OBVIOUS
<1>1. ASSUME NEW f \in Files, Seed(f) PROVE DocInvariant'
  BY <1>1, SeedsBegin, BegunWell
<1>2. ASSUME NEW c \in Clients, NEW key \in Keys, Save(c, key) PROVE DocInvariant'
  BY <1>2, SavesBegin, BegunWell
<1>3. ASSUME NEW c \in Clients, NEW d \in Ids, Rollback(c, d) PROVE DocInvariant'
  BY <1>3, RollbacksBegin, BegunWell
<1>4. CASE UNCHANGED docVars
  BY <1>4 DEF docVars, built, DocInvariant, DocTypeOK, JobsStand, SourcesStand, Sourced,
              KeysStand, SeedsAreNew, SeededFiles, Serving, TextsAreRecorded, Recorded,
              VersionDue, Entry, NumbersStand, Own, Documents, Suspends
<1>. QED  BY <1>1, <1>2, <1>3, <1>4, RestartedWell, DeletedWell, DocumentWrittenWell,
             VersionWrittenWell DEF DocNext

(* While nothing comes between the steps of a save, a key has one document *)
(* and its history is 1, 2, ... up to its version, once each; and the text *)
(* a document shows can be rolled back to, unless a save of it is under    *)
(* way or died between its two writes.                                     *)
THEOREM HistoriesAlwaysStand == DocSpec => []HistoryStands
<1>1. DocInvariant => HistoryStands
  <2> SUFFICES ASSUME DocInvariant PROVE HistoryStands
    OBVIOUS
  <2>1. ~Suspends =>
          /\ \A d, e \in Documents : document[d].key = document[e].key => d = e
          /\ \A d \in Documents :
               LET own == {entry \in history : entry[1] = d} IN
               /\ {entry[2] : entry \in own} = 1 .. document[d].version
               /\ Cardinality(own) = document[d].version
    BY DEF DocInvariant, NumbersStand, Own
  <2>2. ASSUME NEW d \in Documents, d \notin torn, \A w \in Writers : job[w].id # d
        PROVE  <<d, document[d].version, document[d].text>> \in history
    <3>1. Recorded(d)
      BY <2>2 DEF DocInvariant, TextsAreRecorded
    <3>. QED  BY <2>2, <3>1 DEF Recorded, VersionDue, Entry
  <2>. QED  BY <2>1, <2>2 DEF HistoryStands
<1>. QED  BY <1>1, DocInvariantHolds, DocInvariantIsKept, PTL DEF DocSpec

(* What a start may do to the documents, and what it leaves.               *)
ReplacesNoEdit ==
    \A d \in Documents :
        document[d].text \notin Files /\ document[d].source # Nothing
          /\ document'[d].text \in Files /\ unseeded # {}
            => \E f, g \in Files : f # g /\ keyOf[f] = document[d].key
                                       /\ keyOf[g] = document[d].key

FillsIn ==
    ~Serving /\ Serving' /\ (inTree \/ restarts' = 0) =>
        \A f \in Files : \E d \in Ids : document'[d].key = keyOf[f]

(* Two files claim the key of a document that came from one of them and    *)
(* that another is written to.                                             *)
LEMMA AnotherFileClaims ==
    ASSUME DocInvariant, NEW d \in Documents, document[d].source # Nothing,
           NEW f \in Files, keyOf[f] = document[d].key, document[d].source # f
    PROVE  \E g, h \in Files : g # h /\ keyOf[g] = document[d].key
                                   /\ keyOf[h] = document[d].key
<1>1. document[d].source \in Files /\ keyOf[document[d].source] = document[d].key
  BY DEF Documents, DocInvariant, SourcesStand, Sourced
<1>. QED  BY <1>1

LEMMA SeedsOnlyFillIn ==
    ASSUME DocInvariant, NEW f \in Files, Seed(f)
    PROVE  ReplacesNoEdit /\ FillsIn
<1>1. PICK d \in Ids, new \in Document :
        /\ GoesTo(Seeder, d, new, keyOf[f], f)
        /\ IF Suspends
           THEN /\ job' = [job EXCEPT ![Seeder] = [pc |-> "document", key |-> keyOf[f],
                                                   text |-> f, id |-> d, new |-> new]]
                /\ UNCHANGED <<document, history>>
           ELSE StoreBoth(Seeder, d, new)
  BY SeedsBegin, SavesGoTo
<1>2. /\ ~Serving /\ UNCHANGED <<inTree, restarts, keyOf>> /\ f \in unseeded
      /\ document \in [Ids -> Document] /\ job \in [Writers -> Job] /\ Seeder \in Writers
  BY DEF Seed, Serving, built, DocInvariant, DocTypeOK, Writers
<1>3. CASE Suspends
  <2>1. ReplacesNoEdit
    BY <1>1, <1>3 DEF ReplacesNoEdit
  <2>2. job'[Seeder] # NoJob
    BY <1>1, <1>2, <1>3, NoDocumentIsOne
  <2>. QED  BY <2>1, <2>2 DEF FillsIn, Serving
<1>4. CASE ~Suspends
  <2>1. /\ document'[d] = new /\ \A e \in Ids \ {d} : document'[e] = document[e]
    BY <1>1, <1>2, <1>4 DEF StoreBoth
  <2>2. ReplacesNoEdit
    <3> SUFFICES ASSUME NEW e \in Documents,
                        document[e].text \notin Files, document[e].source # Nothing,
                        document'[e].text \in Files
                 PROVE  \E g, h \in Files : g # h /\ keyOf[g] = document[e].key
                                                /\ keyOf[h] = document[e].key
      BY DEF ReplacesNoEdit
    <3>1. e = d /\ document[e].key = keyOf[f]
      BY <1>1, <2>1 DEF Documents, GoesTo
    <3>2. document[e].source # f
      BY <1>2 DEF Documents, DocInvariant, SeedsAreNew
    <3>. QED  BY <3>1, <3>2, AnotherFileClaims
  <2>3. FillsIn
    BY <1>1, <1>2, <1>4, SeedsBegin, StoredSeedsFillIn DEF FillsIn, Serving
  <2>. QED  BY <2>2, <2>3
<1>. QED  BY <1>3, <1>4

LEMMA WritesOnlyFillIn ==
    ASSUME DocInvariant, NEW w \in Writers, WriteDocument(w)
    PROVE  ReplacesNoEdit /\ FillsIn
<1>1. PICK d : d = job[w].id
  OBVIOUS
<1>2. /\ job[w] # NoJob /\ d \in Ids /\ job[w].pc = "document"
      /\ document'[d] = job[w].new /\ \A e \in Ids \ {d} : document'[e] = document[e]
      /\ unseeded' = unseeded /\ job'[w].pc = "version"
      /\ \A v \in Writers \ {w} : job'[v] = job[v]
  BY <1>1, NoDocumentIsOne DEF WriteDocument, DocInvariant, DocTypeOK, JobsStand, Job
<1>3. Seeder \in Writers /\ (w # Seeder => w \in Clients)
  BY DEF Writers
<1>4. CASE w # Seeder
  <2>1. unseeded = {} /\ Serving
    BY <1>2, <1>3, <1>4 DEF DocInvariant, JobsStand, Serving
  <2>. QED  BY <2>1 DEF ReplacesNoEdit, FillsIn
<1>5. CASE w = Seeder
  <2>1. ~Serving'
    BY <1>2, <1>5, NoDocumentIsOne DEF Serving
  <2>2. ReplacesNoEdit
    <3> SUFFICES ASSUME NEW e \in Documents,
                        document[e].text \notin Files, document[e].source # Nothing,
                        document'[e].text \in Files
                 PROVE  \E g, h \in Files : g # h /\ keyOf[g] = document[e].key
                                                /\ keyOf[h] = document[e].key
      BY DEF ReplacesNoEdit
    <3>1. e = d /\ document[d] # NoDocument
      BY <1>2 DEF Documents
    <3>2. PICK f : f = job[w].text
      OBVIOUS
    <3>3. f \in Files /\ keyOf[f] = document[e].key /\ document[e].source # f
      BY <1>1, <1>2, <1>5, <3>1, <3>2 DEF DocInvariant, SeedsAreNew
    <3>. QED  BY <3>3, AnotherFileClaims
  <2>. QED  BY <2>1, <2>2 DEF FillsIn
<1>. QED  BY <1>4, <1>5

LEMMA VersionsOnlyFillIn ==
    ASSUME DocInvariant, NEW w \in Writers, WriteVersion(w)
    PROVE  ReplacesNoEdit /\ FillsIn
<1>1. /\ UNCHANGED <<document, unseeded, inTree, restarts, keyOf>> /\ job[w].pc = "version"
      /\ \A v \in Writers \ {w} : job'[v] = job[v]
  BY DEF WriteVersion, built, DocInvariant, DocTypeOK
<1>2. ReplacesNoEdit
  BY <1>1 DEF ReplacesNoEdit
<1>3. ASSUME ~Serving, Serving' PROVE w = Seeder /\ unseeded = {}
  BY <1>1, <1>3 DEF Serving, Writers
<1>. QED  BY <1>1, <1>2, <1>3 DEF FillsIn, DocInvariant, SeededFiles

LEMMA RestartsOnlyFillIn ==
    ASSUME DocInvariant, Restart
    PROVE  ReplacesNoEdit /\ FillsIn
<1>1. \A d \in Ids : document'[d] = NoDocument \/ document'[d] = document[d]
  BY DEF Restart
<1>2. ReplacesNoEdit
  BY <1>1, NoDocumentIsOne, DocumentsAssumption DEF ReplacesNoEdit, Documents
<1>3. FillsIn
  BY RestartsFillIn DEF FillsIn, Serving
<1>. QED  BY <1>2, <1>3

LEMMA ServedStepsFillIn ==
    ASSUME Serving
    PROVE  ReplacesNoEdit /\ FillsIn
BY DEF Serving, ReplacesNoEdit, FillsIn

(* A start of the process replaces no edit of a document that came from a  *)
(* file, unless another file claims the same key; and when it begins to    *)
(* serve, every file has its document, but for the prompt studio's own     *)
(* defaults after a start that died half way.                              *)
THEOREM StartsOnlyFillIn == DocSpec => StartsFillIn
<1>1. ASSUME DocInvariant, [DocNext]_docVars PROVE [ReplacesNoEdit /\ FillsIn]_docVars
  <2>1. ASSUME NEW c \in Clients, NEW key \in Keys, Save(c, key) PROVE Serving
    BY <2>1 DEF Save, Asks
  <2>2. ASSUME NEW c \in Clients, NEW d \in Ids, Rollback(c, d) PROVE Serving
    BY <2>2 DEF Rollback, Asks
  <2>3. ASSUME NEW d \in Ids, Delete(d) PROVE Serving
    BY <2>3 DEF Delete
  <2>. QED  BY <1>1, <2>1, <2>2, <2>3, SeedsOnlyFillIn, WritesOnlyFillIn, VersionsOnlyFillIn,
               RestartsOnlyFillIn, ServedStepsFillIn DEF DocNext
<1>. QED  BY <1>1, DocInvariantHolds, DocInvariantIsKept, PTL
          DEF DocSpec, StartsFillIn, ReplacesNoEdit, FillsIn

-----------------------------------------------------------------------------
PlaySpec == PlayInit /\ [][PlayNext]_playVars

Handoffs == Requests \cup {"derived"}

Artifact == [id : Requests, agent : ToSet(Agents), handoff : Handoffs]

PlayRequest ==
    [pc : {"new", "running", "storing", "answered", "refused", "querying", "loading",
           "keeping", "cut"},
     on : Requests \cup {"none", "upload"},
     text : Handoffs \cup {"none", "manual", "context", "absent"},
     artifact : Artifact \cup {NoArtifact}, rows : SUBSET Artifact]

PlayTypeOK ==
    /\ db \in BOOLEAN /\ kept \subseteq Artifact
    /\ list \in Seq(Artifact)
    /\ request \in [Requests -> PlayRequest]
    /\ due \in [Requests -> Artifact \cup {NoArtifact}]
    /\ uploads \in [memory : SUBSET Requests, store : SUBSET Requests]
    /\ IsFiniteSet(kept) /\ \A r \in Requests : IsFiniteSet(request[r].rows)

HasStore == db = TRUE

(* Whatever is listed, kept, read or being stored was produced once, by    *)
(* the run whose id it has.                                                *)
ArtifactsAreDue ==
    /\ \A i \in DOMAIN list : due[list[i].id] # NoArtifact
    /\ \A x \in kept : due[x.id] # NoArtifact
    /\ \A r \in Requests :
         /\ \A x \in request[r].rows : due[x.id] # NoArtifact
         /\ due[r] # NoArtifact => due[r].id = r /\ request[r].pc \notin {"new", "running"}
         /\ request[r].pc = "storing" =>
              HasStore /\ request[r].on \in Requests /\ request[r].artifact \in Artifact
                 /\ request[r].artifact.id = request[r].on /\ due[request[r].on] # NoArtifact

(* Where no writes overlapped, the one that is under way has the artifact  *)
(* as it was last edited.                                                  *)
CutShort(id) == \E q \in Requests : request[q].pc = "cut" /\ request[q].on = id

StoredInTime(id) ==
    \/ ~HasStore \/ due[id] = NoArtifact \/ due[id] \in kept
    \/ id \in overlapped \/ Storing(id) \/ CutShort(id)

WritesStand ==
    /\ \A id \in Requests : StoredInTime(id)
    /\ \A r, q \in Requests :
         request[r].pc = "storing" /\ request[q].pc = "storing"
           /\ request[r].on = request[q].on /\ request[r].on \notin overlapped
             => r = q /\ request[r].artifact = due[request[r].on]

(* An upload that was answered for is where a workflow will find it; the   *)
(* one that a workflow did not find was cut short.                         *)
UploadStands(r) ==
    /\ request[r].on = "upload" =>
         /\ request[r].pc \in {"keeping", "answered", "cut"}
         /\ request[r].pc # "cut" => r \in uploads.memory \cup uploads.store
         /\ request[r].pc = "answered" /\ HasStore => r \in uploads.store
    /\ request[r].text = "absent" =>
         /\ request[r].pc = "answered" /\ request[r].on \in Requests
         /\ request[request[r].on].pc = "cut"

UploadsStand == \A r \in Requests : UploadStands(r)

PlayInvariant == PlayTypeOK /\ ArtifactsAreDue /\ WritesStand /\ UploadsStand

(* A step of one request that touches neither the artifacts nor a store.   *)
LEMMA HasStoreIsDb ==
    /\ db \in BOOLEAN => (HasStore <=> db)
    /\ UNCHANGED db => (HasStore' <=> HasStore)
BY Zenon DEF HasStore

LEMMA OtherStepsKeep ==
    ASSUME PlayInvariant, NEW r \in Requests, request' \in [Requests -> PlayRequest],
           \A q \in Requests \ {r} : request'[q] = request[q],
           request[r].pc \notin {"storing", "cut"},
           request'[r].pc \notin {"storing", "new"},
           request'[r].pc = "running" => request[r].pc = "new",
           request'[r].rows \subseteq request[r].rows \cup kept,
           UNCHANGED <<db, kept, due, overlapped>>
    PROVE  /\ WritesStand'
           /\ (\A i \in DOMAIN list' : due'[list'[i].id] # NoArtifact) => ArtifactsAreDue'
<1>1. \A id \in Requests : Storing(id) => Storing(id)'
  BY DEF Storing
<1>2. \A id \in Requests : CutShort(id) => CutShort(id)'
  BY DEF CutShort
<1>3. \A id \in Requests : StoredInTime(id)'
  BY <1>1, <1>2, HasStoreIsDb DEF PlayInvariant, WritesStand, StoredInTime
<1>4. WritesStand'
  BY <1>3 DEF PlayInvariant, WritesStand
<1>5. ASSUME \A i \in DOMAIN list' : due'[list'[i].id] # NoArtifact PROVE ArtifactsAreDue'
  BY <1>5, HasStoreIsDb DEF PlayInvariant, ArtifactsAreDue
<1>. QED  BY <1>4, <1>5

LEMMA NoArtifactIsNone == NoArtifact \notin Artifact /\ NoArtifact.id = "none"
BY PlaygroundAssumption DEF NoArtifact, Artifact

LEMMA PlayTypes ==
    ASSUME PlayTypeOK
    PROVE  /\ \A i \in DOMAIN list : list[i] \in Artifact /\ list[i].id \in Requests
                                                        /\ list[i].handoff \in Handoffs
           /\ \A x \in kept : x.id \in Requests
           /\ \A r \in Requests :
                /\ request[r] \in PlayRequest
                /\ \A x \in request[r].rows : x \in Artifact /\ x.id \in Requests
<1>1. \A i \in DOMAIN list : list[i] \in Artifact
  BY DEF PlayTypeOK
<1>2. \A r \in Requests : request[r] \in PlayRequest /\ request[r].rows \subseteq Artifact
  BY DEF PlayTypeOK, PlayRequest
<1>3. \A x \in Artifact : x.id \in Requests /\ x.handoff \in Handoffs
  BY DEF Artifact
<1>. QED  BY <1>1, <1>2, <1>3 DEF PlayTypeOK

(* What a request's step leaves of the others' uploads, and, if it is no   *)
(* upload and found none, of its own.                                      *)
LEMMA OthersUploadsStand ==
    ASSUME PlayInvariant, NEW r \in Requests, \A q \in Requests \ {r} : request'[q] = request[q],
           request[r].pc # "cut", UNCHANGED db,
           uploads.memory \subseteq uploads'.memory, uploads.store \subseteq uploads'.store
    PROVE  \A q \in Requests \ {r} : UploadStands(q)'
<1> SUFFICES ASSUME NEW q \in Requests \ {r} PROVE UploadStands(q)'
  OBVIOUS
<1>1. UploadStands(q) /\ request'[q] = request[q] /\ (HasStore' <=> HasStore)
  BY HasStoreIsDb DEF PlayInvariant, UploadsStand
<1>2. request[q].text = "absent" => request[q].on # r
  BY <1>1 DEF UploadStands
<1>. QED  BY <1>1, <1>2 DEF UploadStands

LEMMA UploadsOfOthers ==
    ASSUME PlayInvariant, NEW r \in Requests, \A q \in Requests \ {r} : request'[q] = request[q],
           request[r].pc \notin {"cut", "keeping", "answered"},
           request'[r].on # "upload" \/ request'[r].on = request[r].on,
           request'[r].text # "absent" \/ request'[r].text = request[r].text,
           UNCHANGED <<db, uploads>>
    PROVE  UploadsStand'
<1>1. request[r].on # "upload" /\ request[r].text # "absent"
  BY DEF PlayInvariant, UploadsStand, UploadStands
<1>2. UploadStands(r)'
  BY <1>1 DEF UploadStands
<1>. QED  BY <1>2, OthersUploadsStand DEF UploadsStand

LEMMA RunStartsWell ==
    ASSUME PlayInvariant, NEW r \in Requests, RunStarts(r)
    PROVE  PlayInvariant'
<1>1. PICK text \in {"manual"} \cup UNION {Latest(a) : a \in ToSet(Agents) \cup {"any"}} :
        request' = [request EXCEPT ![r].pc = "running", ![r].text = text]
  BY DEF RunStarts
<1>2. text \in Handoffs \cup {"manual"}
  <2>1. \A i \in DOMAIN list : list[i].handoff \in Handoffs
    BY PlayTypes DEF PlayInvariant
  <2>. QED  BY <1>1, <2>1 DEF Latest
<1>3. text # "absent"
  BY <1>2, PlaygroundAssumption DEF Handoffs
<1>4. /\ request' \in [Requests -> PlayRequest] /\ request'[r].pc = "running"
      /\ request'[r].rows = request[r].rows /\ request'[r].on = request[r].on
      /\ request'[r].text = text
      /\ \A q \in Requests \ {r} : request'[q] = request[q]
  <2>. DEFINE new == [request[r] EXCEPT !.pc = "running", !.text = text]
  <2>1. request[r] \in PlayRequest /\ request \in [Requests -> PlayRequest]
    BY DEF PlayInvariant, PlayTypeOK
  <2>2. /\ new \in PlayRequest /\ new.pc = "running" /\ new.text = text
        /\ new.rows = request[r].rows /\ new.on = request[r].on
    BY <1>2, <2>1 DEF PlayRequest
  <2>3. request' = [request EXCEPT ![r] = new]
    BY <1>1, <2>1
  <2>. HIDE DEF new
  <2>. QED  BY <2>1, <2>2, <2>3
<1>5. request[r].pc = "new" /\ UNCHANGED <<db, list, kept, uploads, due, overlapped>>
  BY DEF RunStarts
<1>6. PlayTypeOK'
  BY <1>4, <1>5 DEF PlayInvariant, PlayTypeOK
<1>7. WritesStand' /\ ArtifactsAreDue'
  <2>1. \A i \in DOMAIN list' : due'[list'[i].id] # NoArtifact
    BY <1>5 DEF PlayInvariant, ArtifactsAreDue
  <2>. QED  BY <1>4, <1>5, <2>1, OtherStepsKeep
<1>8. UploadsStand'
  BY <1>3, <1>4, <1>5, UploadsOfOthers
<1>. QED  BY <1>6, <1>7, <1>8 DEF PlayInvariant

Beginning(r) == request[r].pc \in {"new", "running"} /\ request[r].text # "absent"

LEMMA BeginningIsNew ==
    \A r \in Requests :
        Beginning(r) => request[r].pc \notin {"storing", "cut"} /\ request[r].text # "absent"
BY DEF Beginning

(* An artifact is produced or edited: it is due, and its write begins.     *)
LEMMA KeptWell ==
    ASSUME PlayInvariant, NEW r \in Requests, NEW artifact \in Artifact,
           NEW id \in Requests, artifact.id = id,
           Beginning(r), request' = Keeping(r, artifact), due' = [due EXCEPT ![id] = artifact],
           id = r \/ due[id] # NoArtifact,
           Storing(id) => id \in overlapped', overlapped \subseteq overlapped',
           list' \in Seq(Artifact), \A i \in DOMAIN list' : due'[list'[i].id] # NoArtifact,
           UNCHANGED <<db, kept, uploads>>
    PROVE  PlayInvariant'
<1>1. /\ request' \in [Requests -> PlayRequest]
      /\ \/ request'[r].pc = "storing" /\ HasStore
         \/ request'[r].pc = "answered" /\ ~HasStore
      /\ request'[r].on = id /\ request'[r].artifact = artifact
      /\ request'[r].text = request[r].text /\ request'[r].rows = request[r].rows
      /\ \A q \in Requests \ {r} : request'[q] = request[q]
  <2>0. PICK pc : pc = IF db THEN "storing" ELSE "answered"
    OBVIOUS
  <2>4. \/ pc = "storing" /\ HasStore
        \/ pc = "answered" /\ ~HasStore
    BY <2>0, HasStoreIsDb, Zenon DEF PlayInvariant, PlayTypeOK
  <2>. DEFINE new == [request[r] EXCEPT !.pc = pc, !.on = id, !.artifact = artifact]
  <2>1. request[r] \in PlayRequest /\ request \in [Requests -> PlayRequest]
    BY DEF PlayInvariant, PlayTypeOK
  <2>2. /\ new \in PlayRequest /\ new.pc = pc /\ new.text = request[r].text /\ new.on = id
        /\ new.rows = request[r].rows /\ new.artifact = artifact
    BY <2>1, <2>4 DEF PlayRequest
  <2>3. request' = [request EXCEPT ![r] = new]
    BY <2>0, <2>1 DEF Keeping
  <2>. HIDE DEF new
  <2>. QED  BY <2>1, <2>2, <2>3, <2>4
<1>0. HasStore' <=> HasStore
  BY HasStoreIsDb
<1>2. due'[id] = artifact /\ \A i \in Requests \ {id} : due'[i] = due[i]
  BY DEF PlayInvariant, PlayTypeOK
<1>3. artifact # NoArtifact /\ id # "upload"
  BY NoArtifactIsNone, PlaygroundAssumption
<1>4. PlayTypeOK'
  BY <1>1 DEF PlayInvariant, PlayTypeOK
<1>5. \A i \in Requests : due[i] # NoArtifact => due'[i] # NoArtifact
  BY <1>2, <1>3
<1>6. id # r => request[id].pc \notin {"new", "running"}
  BY DEF PlayInvariant, ArtifactsAreDue
<1>7. ArtifactsAreDue'
  <2>1. \A x \in kept' : due'[x.id] # NoArtifact
    BY <1>5, PlayTypes DEF PlayInvariant, ArtifactsAreDue
  <2>2. \A q \in Requests : \A x \in request'[q].rows : due'[x.id] # NoArtifact
    BY <1>1, <1>5, PlayTypes DEF PlayInvariant, ArtifactsAreDue
  <2>3. \A q \in Requests :
          due'[q] # NoArtifact => due'[q].id = q /\ request'[q].pc \notin {"new", "running"}
    BY <1>1, <1>2, <1>6 DEF PlayInvariant, ArtifactsAreDue
  <2>4. \A q \in Requests : request'[q].pc = "storing" =>
          HasStore' /\ request'[q].on \in Requests /\ request'[q].artifact \in Artifact
             /\ request'[q].artifact.id = request'[q].on /\ due'[request'[q].on] # NoArtifact
    BY <1>0, <1>1, <1>2, <1>3, <1>5 DEF PlayInvariant, ArtifactsAreDue
  <2>. QED  BY <2>1, <2>2, <2>3, <2>4 DEF ArtifactsAreDue
<1>8. WritesStand'
  <2>1. \A i \in Requests : Storing(i) => Storing(i)'
    BY <1>1, BeginningIsNew DEF Storing
  <2>2. \A i \in Requests : CutShort(i) => CutShort(i)'
    BY <1>1, BeginningIsNew DEF CutShort
  <2>3. StoredInTime(id)'
    BY <1>0, <1>1 DEF StoredInTime, Storing
  <2>4. \A i \in Requests \ {id} : StoredInTime(i)'
    BY <1>0, <1>2, <2>1, <2>2 DEF PlayInvariant, WritesStand, StoredInTime
  <2>5. ASSUME NEW q \in Requests, NEW p \in Requests,
               request'[q].pc = "storing", request'[p].pc = "storing",
               request'[q].on = request'[p].on, request'[q].on \notin overlapped'
        PROVE  q = p /\ request'[q].artifact = due'[request'[q].on]
    <3>1. CASE request'[q].on = id
      <4>1. \A v \in Requests \ {r} : ~(request[v].pc = "storing" /\ request[v].on = id)
        BY <2>5, <3>1 DEF Storing
      <4>2. q = r /\ p = r
        BY <1>1, <2>5, <3>1, <4>1
      <4>. QED  BY <1>1, <1>2, <3>1, <4>2
    <3>2. CASE request'[q].on # id
      <4>1. q # r /\ p # r
        BY <1>1, <2>5, <3>2
      <4>2. request[q].on \in Requests
        BY <1>1, <2>5, <4>1 DEF PlayInvariant, ArtifactsAreDue
      <4>. QED  BY <1>1, <1>2, <2>5, <3>2, <4>1, <4>2 DEF PlayInvariant, WritesStand
    <3>. QED  BY <3>1, <3>2
  <2>. QED  BY <2>3, <2>4, <2>5 DEF WritesStand
<1>9. UploadsStand'
  <2>. QED  BY <1>0, <1>1, <1>3, BeginningIsNew DEF PlayInvariant, UploadsStand, UploadStands
<1>. QED  BY <1>4, <1>7, <1>8, <1>9 DEF PlayInvariant

LEMMA RunEndsWell ==
    ASSUME PlayInvariant, NEW r \in Requests, RunEnds(r)
    PROVE  PlayInvariant'
<1>1. PICK a \in ToSet(Agents) :
        LET artifact == [id |-> r, agent |-> a, handoff |-> "derived"]
        IN  /\ list' = Append(list, artifact) /\ request' = Keeping(r, artifact)
            /\ due' = [due EXCEPT ![r] = artifact]
  BY DEF RunEnds
<1>. DEFINE artifact == [id |-> r, agent |-> a, handoff |-> "derived"]
<1>2. artifact \in Artifact /\ artifact.id = r
  BY DEF Artifact, Handoffs
<1>. HIDE DEF artifact
<1>3. /\ list' = Append(list, artifact) /\ request' = Keeping(r, artifact)
      /\ due' = [due EXCEPT ![r] = artifact]
  BY <1>1 DEF artifact
<1>4. request[r].pc = "running" /\ UNCHANGED <<db, kept, uploads, overlapped>>
  BY DEF RunEnds
<1>5. request[r].text # "absent" /\ due[r] = NoArtifact
  BY <1>4 DEF PlayInvariant, UploadsStand, UploadStands, ArtifactsAreDue
<1>9. Beginning(r)
  BY <1>4, <1>5 DEF Beginning
<1>6. ~Storing(r)
  BY <1>5 DEF PlayInvariant, ArtifactsAreDue, Storing
<1>7. list \in Seq(Artifact) /\ list' \in Seq(Artifact)
  BY <1>2, <1>3 DEF PlayInvariant, PlayTypeOK
<1>8. \A i \in DOMAIN list' : due'[list'[i].id] # NoArtifact
  <2> SUFFICES ASSUME NEW i \in DOMAIN list' PROVE due'[list'[i].id] # NoArtifact
    OBVIOUS
  <2>1. due'[r] = artifact /\ \A q \in Requests \ {r} : due'[q] = due[q]
    BY <1>3 DEF PlayInvariant, PlayTypeOK
  <2>2. list'[i] = artifact \/ (i \in DOMAIN list /\ list'[i] = list[i])
    BY <1>2, <1>3, <1>7
  <2>3. list'[i].id \in Requests
    <3>1. list'[i] \in Artifact
      BY <1>7
    <3>. QED  BY <3>1 DEF Artifact
  <2>. QED  BY <1>2, <2>1, <2>2, <2>3, NoArtifactIsNone DEF PlayInvariant, ArtifactsAreDue
<1>. QED  BY <1>2, <1>3, <1>4, <1>6, <1>7, <1>8, <1>9, KeptWell

LEMMA EditedWell ==
    ASSUME PlayInvariant, NEW r \in Requests, NEW id \in Requests, request[r].pc = "new",
           id \in Listed, Edited(r, id), due' = [due EXCEPT ![id] = list'[Position(id)]],
           overlapped' = overlapped \cup (IF Storing(id) THEN {id} ELSE {}),
           UNCHANGED <<db, kept, uploads>>
    PROVE  PlayInvariant'
<1>1. Position(id) \in DOMAIN list /\ list[Position(id)].id = id
  BY DEF Listed, Position
<1>2. PICK p : p = Position(id)
  OBVIOUS
<1>3. /\ list' = [list EXCEPT ![p].handoff = r] /\ list \in Seq(Artifact)
      /\ p \in DOMAIN list /\ list[p].id = id
  BY <1>1, <1>2 DEF Edited, PlayInvariant, PlayTypeOK
<1>. DEFINE artifact == [list[p] EXCEPT !.handoff = r]
<1>4. artifact \in Artifact /\ artifact.id = id
  <2>1. list[p] \in Artifact
    BY <1>3
  <2>. QED  BY <1>3, <2>1 DEF Artifact, Handoffs
<1>5. list' = [list EXCEPT ![p] = artifact]
  BY <1>3
<1>. HIDE DEF artifact
<1>6. list'[p] = artifact /\ list' \in Seq(Artifact) /\ DOMAIN list' = DOMAIN list
      /\ \A i \in DOMAIN list \ {p} : list'[i] = list[i]
  BY <1>3, <1>4, <1>5
<1>7. request' = Keeping(r, artifact) /\ due' = [due EXCEPT ![id] = artifact]
  BY <1>2, <1>6 DEF Edited
<1>8. due[id] # NoArtifact
  BY <1>3 DEF PlayInvariant, ArtifactsAreDue
<1>9. \A i \in DOMAIN list' : due'[list'[i].id] # NoArtifact
  <2>1. due'[id] = artifact /\ \A q \in Requests \ {id} : due'[q] = due[q]
    BY <1>7 DEF PlayInvariant, PlayTypeOK
  <2>2. \A i \in DOMAIN list : list'[i].id = list[i].id /\ list[i].id \in Requests
    BY <1>3, <1>4, <1>6, PlayTypes DEF PlayInvariant
  <2>. QED  BY <1>4, <1>6, <2>1, <2>2, NoArtifactIsNone DEF PlayInvariant, ArtifactsAreDue
<1>10. Beginning(r)
  BY DEF PlayInvariant, UploadsStand, UploadStands, Beginning
<1>. QED  BY <1>4, <1>6, <1>7, <1>8, <1>9, <1>10, KeptWell

LEMMA EditWell ==
    ASSUME PlayInvariant, NEW r \in Requests, Edit(r)
    PROVE  PlayInvariant'
<1>1. request[r].pc = "new" /\ UNCHANGED <<db, kept, uploads>>
  BY DEF Edit
<1>2. PICK id \in Requests :
        IF id \in Listed
        THEN /\ Edited(r, id)
             /\ due' = [due EXCEPT ![id] = list'[Position(id)]]
             /\ overlapped' = overlapped \cup (IF Storing(id) THEN {id} ELSE {})
        ELSE /\ request' = [request EXCEPT ![r].pc = "refused"]
             /\ UNCHANGED <<list, due, overlapped>>
  BY DEF Edit
<1>3. CASE id \in Listed
  BY <1>1, <1>2, <1>3, EditedWell
<1>4. CASE id \notin Listed
  <2>1. UNCHANGED <<list, due, overlapped>>
    BY <1>2, <1>4
  <2>2. /\ request' \in [Requests -> PlayRequest] /\ request'[r].pc = "refused"
        /\ request'[r].rows = request[r].rows /\ request'[r].on = request[r].on
        /\ request'[r].text = request[r].text
        /\ \A q \in Requests \ {r} : request'[q] = request[q]
    BY <1>2, <1>4 DEF PlayInvariant, PlayTypeOK, PlayRequest
  <2>3. PlayTypeOK'
    BY <1>1, <2>1, <2>2 DEF PlayInvariant, PlayTypeOK
  <2>6. \A i \in DOMAIN list' : due'[list'[i].id] # NoArtifact
    BY <2>1 DEF PlayInvariant, ArtifactsAreDue
  <2>4. WritesStand' /\ ArtifactsAreDue'
    BY <1>1, <2>1, <2>2, <2>6, OtherStepsKeep
  <2>5. UploadsStand'
    BY <1>1, <2>2, UploadsOfOthers
  <2>. QED  BY <2>3, <2>4, <2>5 DEF PlayInvariant
<1>. QED  BY <1>3, <1>4

LEMMA StoreArtifactWell ==
    ASSUME PlayInvariant, NEW r \in Requests, StoreArtifact(r)
    PROVE  PlayInvariant'
<1>1. /\ request[r].pc = "storing" /\ UNCHANGED <<db, list, uploads, due, overlapped>>
      /\ kept' = Stored(request[r].artifact)
  BY DEF StoreArtifact
<1>2. /\ request' \in [Requests -> PlayRequest] /\ request'[r].pc = "answered"
      /\ request'[r].rows = request[r].rows /\ request'[r].on = request[r].on
      /\ request'[r].text = request[r].text
      /\ \A q \in Requests \ {r} : request'[q] = request[q]
  BY DEF StoreArtifact, PlayInvariant, PlayTypeOK, PlayRequest
<1>3. PICK id \in Requests, artifact \in Artifact :
        /\ id = request[r].on /\ artifact = request[r].artifact /\ artifact.id = id
        /\ due[id] # NoArtifact
  BY <1>1 DEF PlayInvariant, ArtifactsAreDue
<1>4. HasStore' <=> HasStore
  BY <1>1, HasStoreIsDb
<1>5. kept' = {x \in kept : x.id # id} \cup {artifact}
  BY <1>1, <1>3 DEF Stored
<1>6. PlayTypeOK'
  <2>1. IsFiniteSet(kept')
    BY <1>5, FS_Subset, FS_AddElement DEF PlayInvariant, PlayTypeOK
  <2>. QED  BY <1>1, <1>2, <1>5, <2>1 DEF PlayInvariant, PlayTypeOK
<1>7. ArtifactsAreDue'
  BY <1>1, <1>2, <1>3, <1>4, <1>5 DEF PlayInvariant, ArtifactsAreDue
<1>8. WritesStand'
  <2>1. \A i \in Requests \ {id} : Storing(i) => Storing(i)'
    BY <1>2, <1>3 DEF Storing
  <2>2. \A i \in Requests : CutShort(i) => CutShort(i)'
    BY <1>1, <1>2 DEF CutShort
  <2>3. ASSUME NEW i \in Requests PROVE StoredInTime(i)'
    <3>1. CASE i = id
      <4>1. id \in overlapped \/ artifact = due[id]
        BY <1>1, <1>3 DEF PlayInvariant, WritesStand
      <4>. QED  BY <1>1, <1>5, <3>1, <4>1 DEF StoredInTime
    <3>2. CASE i # id
      <4>1. due[i] = NoArtifact \/ due[i].id = i
        BY DEF PlayInvariant, ArtifactsAreDue
      <4>2. due[i] = NoArtifact \/ (due[i] \in kept => due[i] \in kept')
        BY <1>5, <3>2, <4>1
      <4>3. StoredInTime(i)
        BY DEF PlayInvariant, WritesStand
      <4>. QED  BY <1>1, <1>4, <2>1, <2>2, <3>2, <4>2, <4>3 DEF StoredInTime
    <3>. QED  BY <3>1, <3>2
  <2>4. \A q \in Requests : request'[q].pc = "storing" => q # r /\ request'[q] = request[q]
    BY <1>2
  <2>. QED  BY <1>1, <2>3, <2>4 DEF PlayInvariant, WritesStand
<1>9. UploadsStand'
  BY <1>1, <1>2, UploadsOfOthers
<1>. QED  BY <1>6, <1>7, <1>8, <1>9 DEF PlayInvariant

LEMMA ListWell ==
    ASSUME PlayInvariant, NEW r \in Requests, ListReads(r) \/ ListLoads(r) \/ ListReturns(r)
    PROVE  PlayInvariant'
<1>1. /\ request[r].pc \in {"new", "querying", "loading"}
      /\ UNCHANGED <<db, kept, uploads, due, overlapped>>
  BY DEF ListReads, ListLoads, ListReturns
<1>2. PICK pc \in {"querying", "answered", "loading"}, rows \in SUBSET Artifact :
        /\ request' = [request EXCEPT ![r] = [request[r] EXCEPT !.pc = pc, !.rows = rows]]
        /\ rows \subseteq request[r].rows \cup kept /\ IsFiniteSet(rows)
  <2>1. request \in [Requests -> PlayRequest] /\ request[r] \in PlayRequest
        /\ kept \in SUBSET Artifact /\ IsFiniteSet(kept) /\ IsFiniteSet(request[r].rows)
        /\ {} \in SUBSET Artifact /\ IsFiniteSet({}) /\ request[r].rows \in SUBSET Artifact
    BY FS_EmptySet DEF PlayInvariant, PlayTypeOK, PlayRequest
  <2>2. CASE ListReads(r)
    <3>0. (IF db /\ list = <<>> THEN "querying" ELSE "answered") \in {"querying", "answered"}
      BY Zenon
    <3>1. PICK pc \in {"querying", "answered"} :
            pc = IF db /\ list = <<>> THEN "querying" ELSE "answered"
      BY <3>0, Zenon
    <3>. QED  BY <2>1, <2>2, <3>1 DEF ListReads, PlayRequest
  <2>3. CASE ListLoads(r)
    BY <2>1, <2>3 DEF ListLoads, PlayRequest
  <2>4. CASE ListReturns(r)
    <3>1. request' = [request EXCEPT ![r] = [request[r] EXCEPT !.pc = "answered", !.rows = {}]]
      BY <2>1, <2>4 DEF ListReturns
    <3>. QED  BY <2>1, <3>1
  <2>. QED  BY <2>2, <2>3, <2>4
<1>3. /\ request' \in [Requests -> PlayRequest] /\ request'[r].pc = pc
      /\ request'[r].rows = rows /\ request'[r].on = request[r].on
      /\ request'[r].text = request[r].text
      /\ \A q \in Requests \ {r} : request'[q] = request[q]
  <2>. DEFINE new == [request[r] EXCEPT !.pc = pc, !.rows = rows]
  <2>1. request[r] \in PlayRequest /\ request \in [Requests -> PlayRequest]
    BY DEF PlayInvariant, PlayTypeOK
  <2>2. /\ new \in PlayRequest /\ new.pc = pc /\ new.rows = rows
        /\ new.on = request[r].on /\ new.text = request[r].text
    BY <2>1 DEF PlayRequest
  <2>3. request' = [request EXCEPT ![r] = new]
    BY <1>2
  <2>. HIDE DEF new
  <2>. QED  BY <2>1, <2>2, <2>3
<1>4. list' = list \/ (list' \in Seq(Artifact) /\ \A i \in DOMAIN list' : list'[i] \in request[r].rows)
  <2>1. CASE ListReturns(r)
    <3>1. list' \in [1 .. Cardinality(request[r].rows) -> request[r].rows]
      BY <2>1 DEF ListReturns, SetToSeqs
    <3>2. Cardinality(request[r].rows) \in Nat
      BY FS_CardinalityType DEF PlayInvariant, PlayTypeOK
    <3>3. request[r].rows \subseteq Artifact
      BY PlayTypes DEF PlayInvariant
    <3>. QED  BY <3>1, <3>2, <3>3
  <2>. QED  BY <2>1 DEF ListReads, ListLoads
<1>5. PlayTypeOK'
  BY <1>1, <1>2, <1>3, <1>4 DEF PlayInvariant, PlayTypeOK
<1>6. \A i \in DOMAIN list' : due'[list'[i].id] # NoArtifact
  BY <1>1, <1>4 DEF PlayInvariant, ArtifactsAreDue
<1>7. WritesStand' /\ ArtifactsAreDue'
  BY <1>1, <1>2, <1>3, <1>6, OtherStepsKeep
<1>8. UploadsStand'
  BY <1>1, <1>3, UploadsOfOthers
<1>. QED  BY <1>5, <1>6, <1>7, <1>8 DEF PlayInvariant

LEMMA UploadWell ==
    ASSUME PlayInvariant, NEW r \in Requests, Upload(r)
    PROVE  PlayInvariant'
<1>1. /\ request[r].pc = "new" /\ uploads' = [uploads EXCEPT !.memory = @ \cup {r}]
      /\ UNCHANGED <<db, list, kept, due, overlapped>> /\ (HasStore' <=> HasStore)
  BY HasStoreIsDb DEF Upload
<1>2. PICK pc : pc = IF db THEN "keeping" ELSE "answered"
  OBVIOUS
<1>3. \/ pc = "keeping" /\ HasStore
      \/ pc = "answered" /\ ~HasStore
  BY <1>2, HasStoreIsDb, Zenon DEF PlayInvariant, PlayTypeOK
<1>4. /\ request' \in [Requests -> PlayRequest] /\ request'[r].pc = pc
      /\ request'[r].rows = request[r].rows /\ request'[r].on = "upload"
      /\ request'[r].text = request[r].text
      /\ \A q \in Requests \ {r} : request'[q] = request[q]
  <2>. DEFINE new == [request[r] EXCEPT !.pc = pc, !.on = "upload"]
  <2>1. request[r] \in PlayRequest /\ request \in [Requests -> PlayRequest]
    BY DEF PlayInvariant, PlayTypeOK
  <2>2. /\ new \in PlayRequest /\ new.rows = request[r].rows
        /\ new.pc = pc /\ new.on = "upload" /\ new.text = request[r].text
    BY <1>3, <2>1 DEF PlayRequest
  <2>3. request' = [request EXCEPT ![r] = new]
    BY <1>2, <2>1 DEF Upload
  <2>. HIDE DEF new
  <2>. QED  BY <2>1, <2>2, <2>3
<1>5. /\ uploads' \in [memory : SUBSET Requests, store : SUBSET Requests]
      /\ uploads.memory \subseteq uploads'.memory /\ uploads.store \subseteq uploads'.store
      /\ r \in uploads'.memory
  BY <1>1 DEF PlayInvariant, PlayTypeOK
<1>6. PlayTypeOK'
  BY <1>1, <1>4, <1>5 DEF PlayInvariant, PlayTypeOK
<1>7. \A i \in DOMAIN list' : due'[list'[i].id] # NoArtifact
  BY <1>1 DEF PlayInvariant, ArtifactsAreDue
<1>8. WritesStand' /\ ArtifactsAreDue'
  BY <1>1, <1>3, <1>4, <1>7, OtherStepsKeep
<1>9. UploadStands(r)'
  <2>1. request[r].text # "absent"
    BY <1>1 DEF PlayInvariant, UploadsStand, UploadStands
  <2>. QED  BY <1>1, <1>3, <1>4, <1>5, <2>1 DEF UploadStands
<1>10. UploadsStand'
  BY <1>1, <1>4, <1>5, <1>9, OthersUploadsStand DEF UploadsStand
<1>. QED  BY <1>6, <1>8, <1>10 DEF PlayInvariant

LEMMA UploadKeptWell ==
    ASSUME PlayInvariant, NEW r \in Requests, UploadKept(r)
    PROVE  PlayInvariant'
<1>1. /\ request[r].pc = "keeping" /\ uploads' = [uploads EXCEPT !.store = @ \cup {r}]
      /\ UNCHANGED <<db, list, kept, due, overlapped>>
  BY DEF UploadKept
<1>2. /\ request' \in [Requests -> PlayRequest] /\ request'[r].pc = "answered"
      /\ request'[r].rows = request[r].rows /\ request'[r].text = request[r].text
      /\ \A q \in Requests \ {r} : request'[q] = request[q]
  BY DEF UploadKept, PlayInvariant, PlayTypeOK, PlayRequest
<1>3. /\ uploads' \in [memory : SUBSET Requests, store : SUBSET Requests]
      /\ uploads.memory \subseteq uploads'.memory /\ uploads.store \subseteq uploads'.store
      /\ r \in uploads'.store
  BY <1>1 DEF PlayInvariant, PlayTypeOK
<1>4. PlayTypeOK'
  BY <1>1, <1>2, <1>3 DEF PlayInvariant, PlayTypeOK
<1>5. \A i \in DOMAIN list' : due'[list'[i].id] # NoArtifact
  BY <1>1 DEF PlayInvariant, ArtifactsAreDue
<1>6. WritesStand' /\ ArtifactsAreDue'
  BY <1>1, <1>2, <1>5, OtherStepsKeep
<1>7. UploadStands(r)'
  <2>1. request[r].text # "absent"
    BY <1>1 DEF PlayInvariant, UploadsStand, UploadStands
  <2>. QED  BY <1>2, <1>3, <2>1 DEF UploadStands
<1>8. UploadsStand'
  BY <1>1, <1>2, <1>3, <1>7, OthersUploadsStand DEF UploadsStand
<1>. QED  BY <1>4, <1>6, <1>8 DEF PlayInvariant

LEMMA HydrateWell ==
    ASSUME PlayInvariant, NEW r \in Requests, Hydrate(r)
    PROVE  PlayInvariant'
<1>1. request[r].pc = "new" /\ UNCHANGED <<db, list, kept, due, overlapped>>
  BY DEF Hydrate
<1>2. PICK u \in Requests :
        /\ request[u].on = "upload"
        /\ LET found == u \in uploads.memory \cup uploads.store IN
           /\ request' = [request EXCEPT ![r].pc = "answered", ![r].on = u,
                              ![r].text = IF found THEN "context" ELSE "absent"]
           /\ uploads' = IF found THEN [uploads EXCEPT !.memory = @ \cup {u}] ELSE uploads
  BY DEF Hydrate
<1>3. PICK text \in {"context", "absent"} :
        /\ request' = [request EXCEPT ![r].pc = "answered", ![r].on = u, ![r].text = text]
        /\ text = "absent" => u \notin uploads.memory \cup uploads.store
  BY <1>2
<1>4. /\ request' \in [Requests -> PlayRequest] /\ request'[r].pc = "answered"
      /\ request'[r].rows = request[r].rows /\ request'[r].on = u
      /\ request'[r].text = text
      /\ \A q \in Requests \ {r} : request'[q] = request[q]
  <2>. DEFINE new == [request[r] EXCEPT !.pc = "answered", !.on = u, !.text = text]
  <2>1. request[r] \in PlayRequest /\ request \in [Requests -> PlayRequest]
    BY DEF PlayInvariant, PlayTypeOK
  <2>2. /\ new \in PlayRequest /\ new.rows = request[r].rows
        /\ new.pc = "answered" /\ new.on = u /\ new.text = text
    BY <1>3, <2>1 DEF PlayRequest
  <2>3. request' = [request EXCEPT ![r] = new]
    BY <1>3, <2>1
  <2>. HIDE DEF new
  <2>. QED  BY <2>1, <2>2, <2>3
<1>5. /\ uploads' \in [memory : SUBSET Requests, store : SUBSET Requests]
      /\ uploads.memory \subseteq uploads'.memory /\ uploads.store \subseteq uploads'.store
  BY <1>2 DEF PlayInvariant, PlayTypeOK
<1>6. PlayTypeOK'
  BY <1>1, <1>4, <1>5 DEF PlayInvariant, PlayTypeOK
<1>7. \A i \in DOMAIN list' : due'[list'[i].id] # NoArtifact
  BY <1>1 DEF PlayInvariant, ArtifactsAreDue
<1>8. WritesStand' /\ ArtifactsAreDue'
  BY <1>1, <1>4, <1>7, OtherStepsKeep
<1>9. UploadStands(r)'
  <2>1. u # "upload" /\ u # r
    BY <1>1, <1>2, PlaygroundAssumption DEF PlayInvariant, UploadsStand, UploadStands
  <2>2. text = "absent" => request[u].pc = "cut"
    BY <1>2, <1>3 DEF PlayInvariant, UploadsStand, UploadStands
  <2>. QED  BY <1>4, <2>1, <2>2 DEF UploadStands
<1>10. UploadsStand'
  BY <1>1, <1>4, <1>5, <1>9, OthersUploadsStand DEF UploadsStand
<1>. QED  BY <1>6, <1>8, <1>10 DEF PlayInvariant

LEMMA RebootWell ==
    ASSUME PlayInvariant, Reboot
    PROVE  PlayInvariant'
<1>1. /\ HasStore /\ HasStore' /\ UNCHANGED <<db, kept, due, overlapped>>
      /\ list' = <<>> /\ uploads' = [uploads EXCEPT !.memory = {}]
  BY HasStoreIsDb DEF Reboot, PlayInvariant, PlayTypeOK
<1>2. \A r \in Requests :
        request'[r] = IF request[r].pc \in {"new", "answered", "refused"} THEN request[r]
                      ELSE [request[r] EXCEPT !.pc = "cut"]
  BY DEF Reboot
<1>3. \A r \in Requests :
        /\ request'[r] \in PlayRequest /\ request'[r].on = request[r].on
        /\ request'[r].text = request[r].text /\ request'[r].rows = request[r].rows
        /\ request'[r].pc = IF request[r].pc \in {"new", "answered", "refused"}
                            THEN request[r].pc ELSE "cut"
  <2> SUFFICES ASSUME NEW r \in Requests
               PROVE  /\ request'[r] \in PlayRequest /\ request'[r].on = request[r].on
                      /\ request'[r].text = request[r].text
                      /\ request'[r].rows = request[r].rows
                      /\ request'[r].pc = IF request[r].pc \in {"new", "answered", "refused"}
                                          THEN request[r].pc ELSE "cut"
    OBVIOUS
  <2>1. request[r] \in PlayRequest
    BY DEF PlayInvariant, PlayTypeOK
  <2>. QED  BY <1>2, <2>1 DEF PlayRequest
<1>4. request' \in [Requests -> PlayRequest]
  <2>1. request' = [r \in Requests |-> request'[r]]
    BY DEF Reboot
  <2>. QED  BY <1>3, <2>1
<1>5. /\ uploads' \in [memory : SUBSET Requests, store : SUBSET Requests]
      /\ uploads'.store = uploads.store
  BY <1>1 DEF PlayInvariant, PlayTypeOK
<1>6. PlayTypeOK'
  BY <1>1, <1>3, <1>4, <1>5 DEF PlayInvariant, PlayTypeOK
<1>7. \A r \in Requests : request'[r].pc # "storing"
  BY <1>3
<1>8. ArtifactsAreDue'
  BY <1>1, <1>3, <1>7 DEF PlayInvariant, ArtifactsAreDue
<1>9. WritesStand'
  <2>1. \A i \in Requests : Storing(i) \/ CutShort(i) => CutShort(i)'
    BY <1>3 DEF Storing, CutShort
  <2>. QED  BY <1>1, <1>7, <2>1 DEF PlayInvariant, WritesStand, StoredInTime
<1>10. UploadsStand'
  <2> SUFFICES ASSUME NEW r \in Requests PROVE UploadStands(r)'
    BY DEF UploadsStand
  <2>1. UploadStands(r)
    BY DEF PlayInvariant, UploadsStand
  <2>. QED  BY <1>1, <1>3, <1>5, <2>1 DEF UploadStands
<1>. QED  BY <1>6, <1>8, <1>9, <1>10 DEF PlayInvariant

LEMMA PlayInvariantIsKept == PlayInvariant /\ [PlayNext]_playVars => PlayInvariant'
<1> SUFFICES ASSUME PlayInvariant, [PlayNext]_playVars PROVE PlayInvariant'
  OBVIOUS
<1>1. CASE UNCHANGED playVars
  <2>1. HasStore' <=> HasStore
    BY <1>1, HasStoreIsDb DEF playVars
  <2>. QED  BY <1>1, <2>1 DEF playVars, PlayInvariant, PlayTypeOK, ArtifactsAreDue, WritesStand,
                StoredInTime, Storing, CutShort, UploadsStand, UploadStands
<1>. QED  BY <1>1, RebootWell, RunStartsWell, RunEndsWell, StoreArtifactWell, EditWell, ListWell,
             UploadWell, UploadKeptWell, HydrateWell DEF PlayNext

LEMMA PlayInvariantHolds == PlayInit => PlayInvariant
<1> SUFFICES ASSUME PlayInit PROVE PlayInvariant
  OBVIOUS
<1>1. /\ db \in BOOLEAN /\ list = <<>> /\ kept = {} /\ due = [r \in Requests |-> NoArtifact]
      /\ uploads = [memory |-> {}, store |-> {}] /\ request = [r \in Requests |-> NoRequest]
  BY DEF PlayInit
<1>2. /\ NoRequest \in PlayRequest /\ NoRequest.pc = "new" /\ NoRequest.on = "none"
      /\ NoRequest.text = "none" /\ NoRequest.rows = {}
  BY DEF NoRequest, PlayRequest
<1>3. \A r \in Requests : request[r] = NoRequest /\ due[r] = NoArtifact
  BY <1>1
<1>4. PlayTypeOK
  <2>1. list \in Seq(Artifact) /\ IsFiniteSet({})
    BY <1>1, FS_EmptySet
  <2>2. uploads \in [memory : SUBSET Requests, store : SUBSET Requests]
    BY <1>1
  <2>3. request \in [Requests -> PlayRequest] /\ due \in [Requests -> Artifact \cup {NoArtifact}]
    BY <1>1, <1>2
  <2>. QED  BY <1>1, <1>2, <1>3, <2>1, <2>2, <2>3 DEF PlayTypeOK
<1>5. ArtifactsAreDue /\ WritesStand
  BY <1>1, <1>2, <1>3 DEF ArtifactsAreDue, WritesStand, StoredInTime
<1>6. UploadsStand
  BY <1>2, <1>3 DEF UploadsStand, UploadStands
<1>. QED  BY <1>4, <1>5, <1>6 DEF PlayInvariant

(* The store has each artifact of the playground as it was last produced   *)
(* or edited, unless a write of it is under way, was cut short or          *)
(* overlapped another; and a workflow that names an upload which was       *)
(* answered for gets its context, restarts or not.                         *)
THEOREM AnswersAlwaysStand == PlaySpec => []AnswersStand
<1>1. PlayInvariant => AnswersStand
  <2> SUFFICES ASSUME PlayInvariant PROVE AnswersStand
    OBVIOUS
  <2>1. ASSUME NEW id \in Requests
        PROVE  \/ ~db \/ due[id] = NoArtifact \/ due[id] \in kept
               \/ id \in overlapped \/ Storing(id)
               \/ \E q \in Requests : request[q].pc = "cut" /\ request[q].on = id
    <3>1. StoredInTime(id) /\ (HasStore <=> db)
      BY HasStoreIsDb DEF PlayInvariant, PlayTypeOK, WritesStand
    <3>. QED  BY <3>1, Zenon DEF StoredInTime, CutShort
  <2>2. ASSUME NEW r \in Requests, request[r].pc = "answered", request[r].text = "absent"
        PROVE  request[request[r].on].pc # "answered"
    BY <2>2 DEF PlayInvariant, UploadsStand, UploadStands
  <2>. QED  BY <2>1, <2>2, Zenon DEF AnswersStand
<1>. QED  BY <1>1, PlayInvariantHolds, PlayInvariantIsKept, PTL DEF PlaySpec
-----------------------------------------------------------------------------
ArtSpec == ArtInit /\ [][ArtNext]_artVars

ArtInvariant == bundles \in Nat /\ RequiredFilesStand

(* The files an agent is required to have are none that any answer writes  *)
(* by itself: they are its documents, the templates and the reports.       *)
LEMMA RequiredFilesAreDocuments ==
  ASSUME NEW parts, NEW failed
  PROVE  (BundleFiles(writer, parts, failed) \cup AgentFiles(writer, parts))
            \cap RequiredFiles(writer) = {}
<1>1. CASE writer = "ba"
  <2>1. RequiredFiles(writer) = BaRequired /\ AgentFiles(writer, parts) = {}
    BY <1>1 DEF RequiredFiles, AgentFiles
  <2>. QED  BY <1>1, <2>1 DEF BundleFiles, Needs, BaRequired
<1>2. CASE writer = "architect"
  <2>1. RequiredFiles(writer) = ArchitectRequired /\ AgentFiles(writer, parts) = {}
    BY <1>2 DEF RequiredFiles, AgentFiles
  <2>. QED  BY <1>2, <2>1 DEF BundleFiles, Needs, ArchitectRequired, ThinTemplates, RichTemplates
<1>3. CASE writer \notin {"ba", "architect"}
  BY <1>3 DEF RequiredFiles
<1>. QED  BY <1>1, <1>2, <1>3

LEMMA OnlySomeAgentsHaveRequirements ==
  writer \notin {"ba", "architect"} => RequiredFiles(writer) = {}
BY DEF RequiredFiles

(* What an attempt of the BA or the architect leaves of the files it found *)
(* after its answer was written.                                           *)
LEMMA FinalizingFillsTheGaps ==
  ASSUME NEW files, Finalized(files), NEW f \in RequiredFiles(writer)
  PROVE  /\ f \in DOMAIN dir' /\ f \in index'.seen
         /\ dir'[f].depth = "sparse" => f \in ThinTemplates /\ f \in index'.repaired
         /\ f \notin Gaps(files) \cup Reports(writer) => dir'[f] = files[f]
<1> DEFINE gaps == Gaps(files)
           filled == [g \in DOMAIN files \cup gaps |->
                        IF g \in gaps THEN File("template", TemplateDepth(g)) ELSE files[g]]
<1>1. /\ index' = Indexed(filled, gaps)
      /\ dir' = [g \in DOMAIN filled \cup Reports(writer) |->
                    IF g \in Reports(writer) THEN File("report", "full") ELSE filled[g]]
  BY DEF Finalized
<1>2. f \in gaps \/ (f \in DOMAIN files /\ files[f].depth # "sparse")
  BY DEF Gaps
<1>3. f \in DOMAIN filled
  BY <1>2
<1>4. f \in DOMAIN dir' /\ f \in index'.seen /\ index'.repaired = gaps
  BY <1>1, <1>3 DEF Indexed
<1>5. dir'[f] = IF f \in Reports(writer) THEN File("report", "full") ELSE filled[f]
  BY <1>1, <1>3
<1>6. filled[f] = IF f \in gaps THEN File("template", TemplateDepth(f)) ELSE files[f]
  BY <1>3
<1>7. File("report", "full").depth = "full"
  BY DEF File
<1>8. File("template", TemplateDepth(f)).depth = TemplateDepth(f)
  BY DEF File
<1> HIDE DEF gaps, filled
<1>9. dir'[f].depth = "sparse" => f \in ThinTemplates /\ f \in gaps
  BY <1>2, <1>5, <1>6, <1>7, <1>8 DEF TemplateDepth
<1>. QED  BY <1>4, <1>5, <1>6, <1>9 DEF gaps

LEMMA BundlesLeaveTheFilesStanding ==
  ASSUME bundles \in Nat, Bundle
  PROVE  /\ bundles' \in Nat /\ RequiredFilesStand'
         /\ \A f \in DOMAIN dir :
              dir[f].by = "answer" /\ dir[f].depth = "full"
                /\ f \in RequiredFiles(writer) \ Reports(writer) =>
                  f \in DOMAIN dir' /\ (dir'[f] = dir[f] \/ f \in DOMAIN answer'.documents)
<1>1. PICK parts \in Answers, failed \in BOOLEAN, documents \in Drafts :
        /\ answer' = [parts |-> parts, documents |-> documents, failed |-> failed]
        /\ LET files == Written(parts, documents, failed) IN
           IF writer \in {"ba", "architect"} THEN Finalized(files)
           ELSE dir' = files /\ UNCHANGED index
  BY DEF Bundle
<1> DEFINE files == Written(parts, documents, failed)
<1>2. bundles' = bundles + 1 /\ writer' = writer /\ RequiredFiles(writer)' = RequiredFiles(writer)
  BY DEF Bundle, RequiredFiles
<1>3. answer'.documents = documents
  BY <1>1
<1>4. ASSUME NEW f \in DOMAIN dir, f \in RequiredFiles(writer), f \notin DOMAIN documents
      PROVE  f \in DOMAIN files /\ files[f] = dir[f]
  BY <1>4, RequiredFilesAreDocuments DEF Written
<1> HIDE DEF files
<1>5. CASE writer \in {"ba", "architect"}
  <2>1. Finalized(files)
    BY <1>1, <1>5 DEF files
  <2>2. RequiredFilesStand'
    BY <1>2, <2>1, FinalizingFillsTheGaps DEF RequiredFilesStand
  <2>3. ASSUME NEW f \in DOMAIN dir, dir[f].depth = "full",
               f \in RequiredFiles(writer) \ Reports(writer), f \notin DOMAIN documents
        PROVE  f \in DOMAIN dir' /\ dir'[f] = dir[f]
    <3>1. f \notin Gaps(files)
      BY <1>4, <2>3 DEF Gaps
    <3>. QED  BY <1>4, <2>1, <2>3, <3>1, FinalizingFillsTheGaps
  <2>4. \A f \in DOMAIN dir :
          dir[f].by = "answer" /\ dir[f].depth = "full"
            /\ f \in RequiredFiles(writer) \ Reports(writer) =>
              f \in DOMAIN dir' /\ (dir'[f] = dir[f] \/ f \in DOMAIN answer'.documents)
    <3> SUFFICES ASSUME NEW f \in DOMAIN dir, dir[f].by = "answer", dir[f].depth = "full",
                        f \in RequiredFiles(writer) \ Reports(writer)
                 PROVE  f \in DOMAIN dir' /\ (dir'[f] = dir[f] \/ f \in DOMAIN answer'.documents)
      OBVIOUS
    <3>1. CASE f \notin DOMAIN documents
      BY <2>3, <3>1
    <3>2. CASE f \in DOMAIN documents
      <4>1. f \in DOMAIN answer'.documents
        BY <1>3, <3>2
      <4>2. f \in DOMAIN dir'
        BY <1>2, <2>2, <1>5 DEF RequiredFilesStand, Bundle
      <4>. QED  BY <4>1, <4>2
    <3>. QED  BY <3>1, <3>2
  <2>5. bundles' \in Nat
    BY <1>2
  <2>. QED  BY <2>2, <2>4, <2>5
<1>6. CASE writer \notin {"ba", "architect"}
  BY <1>2, <1>6, OnlySomeAgentsHaveRequirements DEF RequiredFilesStand
<1>. QED  BY <1>5, <1>6

LEMMA ImprovingLeavesTheFilesStanding ==
  ASSUME ArtInvariant, Improve
  PROVE  /\ bundles' \in Nat /\ RequiredFilesStand'
         /\ \A f \in DOMAIN dir :
              f \in RequiredFiles(writer) => f \in DOMAIN dir' /\ dir'[f] = dir[f]
<1>1. /\ UNCHANGED <<writer, index, bundles, answer>> /\ "improvements" \notin DOMAIN dir
      /\ RequiredFiles(writer)' = RequiredFiles(writer)
  BY DEF Improve, RequiredFiles
<1>2. \A f \in DOMAIN dir : f \in DOMAIN dir' /\ dir'[f] = dir[f]
  BY DEF Improve
<1>. QED  BY <1>1, <1>2 DEF ArtInvariant, RequiredFilesStand

(* After an attempt of the BA or the architect every required file is      *)
(* there and in the index, what is still sparse is a template, and no step *)
(* costs a document of substance unless the answer has that document       *)
(* again: for any answers and any number of attempts.                      *)
THEOREM ArtifactsAlwaysStand == ArtSpec => ArtifactsStand
<1>1. ArtInit => ArtInvariant
  BY DEF ArtInit, ArtInvariant, RequiredFilesStand
<1>2. ArtInvariant /\ [ArtNext]_artVars => ArtInvariant'
  <2>1. ArtInvariant /\ UNCHANGED artVars => ArtInvariant'
    BY DEF artVars, ArtInvariant, RequiredFilesStand, RequiredFiles
  <2>. QED  BY <2>1, BundlesLeaveTheFilesStanding, ImprovingLeavesTheFilesStanding
            DEF ArtNext, ArtInvariant
<1>3. ArtInvariant /\ [ArtNext]_artVars =>
        [/\ RequiredFilesStand'
         /\ \A f \in DOMAIN dir :
              dir[f].by = "answer" /\ dir[f].depth = "full"
                /\ f \in RequiredFiles(writer) \ Reports(writer) =>
                  f \in DOMAIN dir' /\ (dir'[f] = dir[f] \/ f \in DOMAIN answer'.documents)]_artVars
  BY BundlesLeaveTheFilesStanding, ImprovingLeavesTheFilesStanding DEF ArtNext, ArtInvariant
<1>. QED  BY <1>1, <1>2, <1>3, PTL DEF ArtSpec, ArtifactsStand
=============================================================================
