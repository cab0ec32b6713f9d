------------------------ MODULE ExecutionStoreProofs ------------------------
(***************************************************************************)
(* That an execution behind PostgresWorkflowExecutionRepository, worked on *)
(* by one call of the backend at a time, loses at most an attempt to a     *)
(* crash between any two store operations, and still is the delivery       *)
(* contract: for any number of calls, crashes and recoveries and for any   *)
(* budgets.                                                                *)
(***************************************************************************)
EXTENDS ExecutionStore, RoutingProofs, SequenceTheorems, FiniteSetTheorems

(* One call at a time and nobody else, for requests of the whole sequence. *)
OneCallAtATime ==
    /\ MaxInFlight = 1 /\ Workers = {} /\ MaxCancels = 0
    /\ \A q \in Requests : Plan(q) = Agents

-----------------------------------------------------------------------------
Recovering == {"recoverCheckpoint", "recoverRecord", "recoverWrite"}
Saving     == {"persistRead", "appendRead", "appendWrite", "updateRead", "updateWrite"}
Updating   == {"updateRead", "updateWrite"}
InStage    == {"agent", "lockRead", "lockWrite", "running"}
Answered   == {"unlockRead", "unlockWrite", "answered"}
Writing    == {"recoverWrite", "appendWrite", "updateWrite", "lockWrite", "unlockWrite"}
AtWork     == {"router", "finalRead"} \cup Saving \cup InStage \cup Answered

RunShape ==
    [status : RunStatus, next : Agents \cup {None}, last : Agents \cup {None},
     attempts : [Agents -> Nat], ws : WorkState, meta : Meta]

Put == [status : {"running", "completed", "failed", "paused"}, next : Agents \cup {None}, seq : Nat]

CallShape ==
    [pc : {"idle"} \cup Recovering \cup AtWork, r : RunShape, copy : Document \cup {Nothing},
     put : Put \cup {Nothing}, back : {"router", "route"}, listed : {Nothing}]

StoreTypeOK ==
    /\ doc \in Document /\ canceller = Nothing /\ cancels = 0
    /\ asked \in [Agents -> Nat] /\ faults \in Nat
    /\ call \in [Calls -> CallShape]

(* What one answer makes of the stages that stand, for the client. *)
Stands(ws) == StandingIn(ws, Agents)
Earlier(a) == {b \in Agents : Rank[b] < Rank[a]}

Answers(old, ws) ==
    \/ Stands(ws) = Stands(old) /\ ws.rejections = old.rejections
    \/ /\ ws.rejections = old.rejections
       /\ \E a \in Agents \ Stands(old) :
            Earlier(a) \subseteq Stands(old) /\ Stands(ws) = Stands(old) \cup {a}
    \/ /\ old.rejections <= MaxQaRejectionLoops /\ ws.rejections = old.rejections + 1
       /\ "qa" \notin Stands(old) /\ Earlier("qa") \subseteq Stands(old)
       /\ Stands(ws) = Stands(old) \ {"developer"}

(* The work in a run or in a checkpoint, for the whole sequence.  The      *)
(* operators below say of a document d, of the count ask of what was asked *)
(* of the agents, of the number lost of calls that died and of a call c    *)
(* what holds of doc, asked, faults and call[s].                           *)
Sound(last, attempts, ws, meta) ==
    Plan(meta) = Agents /\ Coherent(last, attempts, ws, meta) /\ ReworkInOrder(last, ws, meta)

(* The document, whoever comes back to it. *)
DocumentStands(d, ask) ==
    /\ d.status \in {"absent", "running", "completed", "failed", "paused"}
    /\ d.status = "absent" => \A a \in Agents : ask[a] = 0
    /\ d.status # "absent" => d.owner = CreatedBy
    /\ \A a \in Agents : d.locks[a] \in {None, CreatedBy}
    /\ Plan(d.request) = Agents
    /\ Sound(d.newest.active, d.attempts, d.newest.ws, d.meta)
    /\ d.newest.status = "absent" =>
         d.newest = NoCheckpoint /\ d.seqs = <<>> /\ d.status \in {"absent", "running"}
    /\ d.newest.status # "absent" =>
         \/ d.status = d.newest.status
         \/ d.status = "running" /\ d.newest.status = "paused"
    /\ d.newest.active = None /\ d.newest.status \in {"running", "paused"}
         => d.newest.next = FirstOf(Agents)
    /\ \A i \in DOMAIN d.seqs : d.seqs[i] = i - 1

(* A call that recovers has what the checkpoint says. *)
RecoveryStands(d, c) ==
    c.pc \in Recovering =>
      /\ d.status # "absent"
      /\ c.pc # "recoverCheckpoint" =>
           /\ d.newest.status \in {"running", "paused"}
           /\ c.r.status = "running" /\ c.r.next = d.newest.next
           /\ c.r.last = d.newest.active /\ c.r.ws = d.newest.ws
      /\ c.pc = "recoverWrite" =>
           c.r.attempts = d.attempts /\ c.r.meta = [d.meta EXCEPT !.pauseAfter = None]

(* The attempts reach the document an update after the checkpoint, and     *)
(* what was asked for is counted but for what the calls that died had not  *)
(* stored.                                                                 *)
Counted(d, ask, lost, c) ==
    /\ Budget(c.r.attempts, d.newest.ws)
    /\ \A a \in Agents :
         /\ d.attempts[a] <= c.r.attempts[a] /\ c.r.attempts[a] <= d.attempts[a] + 1
         /\ ask[a] <= c.r.attempts[a] + lost
                        + (IF c.pc = "running" /\ a = c.r.next THEN 1 ELSE 0)

(* What the run of a call at work has that the document does not.          *)
Trails(d, c) ==
    /\ d.status # "absent"
    /\ d.meta.repair => c.r.meta.repair
    /\ (c.r.last = "developer" \/ c.pc \in InStage) => (d.meta.repair <=> c.r.meta.repair)
    /\ c.pc \notin Updating \cup {"finalRead"} => d.status = "running" /\ c.r.status = "running"
    /\ (c.pc \in {"router", "finalRead"} \cup InStage \/ (c.pc \in Saving /\ c.back = "route")) =>
         c.r.ws = d.newest.ws /\ c.r.last = d.newest.active /\ c.r.attempts = d.attempts

(* What the call is about to do with it.                                   *)
InTurn(d, c) ==
    /\ c.pc = "router" /\ c.r.last = None => c.r.next = FirstOf(Agents)
    /\ c.pc = "finalRead" => c.r.status = d.status
    /\ c.pc \in InStage =>
         d.newest.status # "absent" /\ c.r.next \in Agents /\ InHand(c.r) /\ OnTurn(c.r)
    /\ (c.pc \in Answered \/ (c.pc \in Saving \ Updating /\ c.back = "router")) =>
         d.newest.status # "absent" /\ c.r.last # None /\ Answers(d.newest.ws, c.r.ws)

RunStands(d, ask, lost, c) ==
    c.pc \in AtWork =>
      /\ Sound(c.r.last, c.r.attempts, c.r.ws, c.r.meta)
      /\ Counted(d, ask, lost, c) /\ Trails(d, c) /\ InTurn(d, c)

(* What is to be saved, until it is.                                       *)
SaveStands(d, c) ==
    c.pc \in Saving =>
      /\ c.put \in Put
      /\ c.back = "router" => c.put.status = "running" /\ c.put.next = None /\ c.r.last # None
      /\ c.back = "route" =>
           /\ c.put.status = "running" =>
                /\ c.put.next \in Agents
                /\ InHand([c.r EXCEPT !.next = c.put.next])
                /\ OnTurn([c.r EXCEPT !.next = c.put.next])
           /\ c.put.status = "completed" => Stands(c.r.ws) = Agents
           /\ c.put.status = "paused" => Stands(c.r.ws) # Agents
           /\ c.r.last = None => c.put.status = "running" /\ c.put.next = FirstOf(Agents)
      /\ c.pc \in {"appendRead", "appendWrite"} => c.put.seq = Len(d.seqs)
      /\ c.pc \in Updating =>
           /\ d.status = c.put.status /\ d.newest.status = c.put.status
           /\ d.newest.next = c.put.next /\ d.newest.active = c.r.last /\ d.newest.ws = c.r.ws

CallStands(d, ask, lost, c) ==
    /\ c.pc \in Writing => c.copy = d
    /\ RecoveryStands(d, c) /\ RunStands(d, ask, lost, c) /\ SaveStands(d, c)

NothingIsPending ==
    (\A s \in Calls : call[s].pc \notin AtWork) =>
        \A a \in Agents : asked[a] <= doc.attempts[a] + faults

StoreInvariant ==
    /\ StoreTypeOK /\ DocumentStands(doc, asked) /\ NothingIsPending
    /\ \A s \in Calls : CallStands(doc, asked, faults, call[s])
    /\ \A s, t \in Calls : ~At(s, "idle") /\ ~At(t, "idle") => s = t
    /\ doc.status = "absent" => \A s \in Calls : At(s, "idle")
-----------------------------------------------------------------------------
(* What the shape of calls and documents gives.                            *)

LEMMA WorkersAreOut ==
    ASSUME OneCallAtATime
    PROVE  Everyone = Calls /\ \A s \in Calls : OwnerOf(s) = CreatedBy
BY DEF OneCallAtATime, Everyone, OwnerOf

LEMMA RunShapeFields == \A r \in RunShape : RunFields(r)
BY DEF RunShape, RunFields

LEMMA NothingIsNoDocument == \A d \in Document : d # Nothing
<1>. SUFFICES ASSUME NEW d \in Document, d = Nothing PROVE FALSE
  OBVIOUS
<1>1. "owner" \in DOMAIN d
  BY DEF Document
<1>2. DOMAIN Nothing = {"status"}
  BY DEF Nothing
<1>. QED  BY <1>1, <1>2

LEMMA FreshRunShape == FreshRun \in RunShape /\ FreshWork \in WorkState /\ NoMeta \in Meta
BY DEF FreshRun, RunShape, FreshWork, WorkState, NoMeta, Meta, RunStatus, Modes, Verdict

LEMMA NoDocShape == NoDoc \in Document /\ NoCall \in CallShape
<1>1. NoCheckpoint \in [status : RunStatus \cup {"absent"}, active : Agents \cup {None},
                        next : Agents \cup {None}, ws : WorkState]
  BY FreshRunShape DEF NoCheckpoint
<1>2. <<>> \in Seq(Nat)
  OBVIOUS
<1>3. NoDoc \in Document
  BY <1>1, <1>2, FreshRunShape DEF NoDoc, Document
<1>4. NoCall \in CallShape
  BY FreshRunShape DEF NoCall, CallShape
<1>. QED  BY <1>3, <1>4

(* The others are idle, and stay so. *)
OthersIdle(s) == \A t \in Calls \ {s} : call[t].pc = "idle"

Moves(s) ==
    /\ call' \in [Calls -> CallShape]
    /\ \A t \in Calls \ {s} : call'[t] = call[t]

LEMMA WorkingAlone ==
    ASSUME StoreInvariant, NEW s \in Calls, ~At(s, "idle")
    PROVE  OthersIdle(s)
BY DEF StoreInvariant, OthersIdle, At

LEMMA BeginsAlone ==
    ASSUME OneCallAtATime, StoreInvariant, NEW s \in Calls, Begins(s)
    PROVE  OthersIdle(s) /\ call[s].pc = "idle"
<1> DEFINE W == {o \in Calls : ~At(o, "idle")}
<1>1. Cardinality(W) < 1 /\ At(s, "idle")
  BY WorkersAreOut DEF Begins, OneCallAtATime
<1>2. ASSUME NEW t \in W PROVE FALSE
  <2>1. W = {t}
    BY DEF StoreInvariant
  <2>2. Cardinality(W) = 1
    BY <2>1, FS_Singleton
  <2>. QED  BY <1>1, <2>2
<1>. QED  BY <1>1, <1>2 DEF OthersIdle, At

LEMMA IdleStands ==
    ASSUME NEW c, c.pc = "idle", NEW d, NEW ask, NEW lost
    PROVE  CallStands(d, ask, lost, c)
BY DEF CallStands, RecoveryStands, RunStands, SaveStands, Writing, Recovering, AtWork, Saving,
       InStage, Answered

(* What a step of s has to leave for the invariant to hold.                *)
LEMMA OneMoves ==
    ASSUME StoreTypeOK, NEW s \in Calls, OthersIdle(s), Moves(s),
           doc' \in Document, asked' \in [Agents -> Nat], faults' \in Nat,
           canceller' = Nothing, cancels' = 0,
           DocumentStands(doc', asked'), CallStands(doc', asked', faults', call'[s]),
           call'[s].pc \notin AtWork => \A a \in Agents : asked'[a] <= doc'.attempts[a] + faults',
           doc'.status = "absent" => call'[s].pc = "idle"
    PROVE  StoreInvariant'
<1>1. \A t \in Calls \ {s} : call'[t].pc = "idle"
  BY DEF OthersIdle, Moves
<1>2. StoreTypeOK'
  BY DEF StoreTypeOK, Moves
<1>3. NothingIsPending'
  BY DEF NothingIsPending
<1>4. ASSUME NEW t \in Calls PROVE CallStands(doc', asked', faults', call'[t])
  BY <1>1, IdleStands
<1>. QED  BY <1>1, <1>2, <1>3, <1>4 DEF StoreInvariant, At

(* The four ways a call moves. *)
LEMMA GoMoves ==
    ASSUME StoreTypeOK, NEW s \in Calls, NEW pc \in {"idle"} \cup Recovering \cup AtWork, Go(s, pc)
    PROVE  /\ Moves(s) /\ call'[s] \in CallShape
           /\ call'[s].pc = pc /\ call'[s].r = call[s].r
           /\ call'[s].put = call[s].put /\ call'[s].back = call[s].back
<1>1. call' = [call EXCEPT ![s] = [call[s] EXCEPT !.pc = pc, !.copy = Nothing]]
  BY DEF Go, StoreTypeOK
<1>2. [call[s] EXCEPT !.pc = pc, !.copy = Nothing] \in CallShape
  BY DEF StoreTypeOK, CallShape
<1>. QED  BY <1>1, <1>2 DEF StoreTypeOK, Moves, CallShape

LEMMA FetchMoves ==
    ASSUME StoreTypeOK, NEW s \in Calls, NEW pc \in {"idle"} \cup Recovering \cup AtWork, Fetch(s, pc)
    PROVE  /\ Moves(s) /\ call'[s] \in CallShape
           /\ call'[s].pc = pc /\ call'[s].r = call[s].r /\ call'[s].copy = doc
           /\ call'[s].put = call[s].put /\ call'[s].back = call[s].back
<1>1. call' = [call EXCEPT ![s] = [call[s] EXCEPT !.pc = pc, !.copy = doc]]
  BY DEF Fetch, StoreTypeOK
<1>2. [call[s] EXCEPT !.pc = pc, !.copy = doc] \in CallShape
  BY DEF StoreTypeOK, CallShape
<1>. QED  BY <1>1, <1>2 DEF StoreTypeOK, Moves, CallShape

LEMMA LeaveMoves ==
    ASSUME StoreTypeOK, NEW s \in Calls, Leave(s)
    PROVE  Moves(s) /\ call'[s].pc = "idle"
BY NoDocShape DEF StoreTypeOK, Leave, Moves, NoCall

LEMMA SaveMoves ==
    ASSUME StoreTypeOK, NEW s \in Calls, NEW r \in RunShape,
           NEW status \in {"running", "completed", "failed", "paused"},
           NEW next \in Agents \cup {None}, NEW back \in {"router", "route"},
           Save(s, r, status, next, back)
    PROVE  /\ Moves(s) /\ call'[s] \in CallShape
           /\ call'[s].pc = "persistRead" /\ call'[s].r = r /\ call'[s].back = back
           /\ call'[s].put \in Put
           /\ call'[s].put.status = status /\ call'[s].put.next = next
<1> DEFINE p == [status |-> status, next |-> next, seq |-> 0]
           e == [call[s] EXCEPT !.pc = "persistRead", !.r = r, !.copy = Nothing, !.back = back,
                                !.put = p]
<1>1. call' = [call EXCEPT ![s] = e]
  BY DEF Save
<1>2. p \in Put /\ p.status = status /\ p.next = next
  BY DEF Put
<1>. HIDE DEF p
<1>3. /\ e \in CallShape /\ e.pc = "persistRead" /\ e.r = r /\ e.back = back /\ e.put = p
  BY <1>2 DEF StoreTypeOK, CallShape, AtWork, Saving
<1>. HIDE DEF e
<1>. QED  BY <1>1, <1>2, <1>3 DEF StoreTypeOK, Moves

-----------------------------------------------------------------------------
(* What a step has to do, for the invariant and for the client.            *)
GoesOn ==
    /\ StoreInvariant'
    /\ IsPrefix(doc.seqs, doc'.seqs)
    /\ Contract!Next \/ UNCHANGED Contract!contract

LEMMA SeqsGrow ==
    ASSUME NEW q \in Seq(Nat)
    PROVE  IsPrefix(q, q) /\ \A n \in Nat : IsPrefix(q, Append(q, n))
BY DEF IsPrefix

(* A client sees nothing of a step that leaves the status and the newest   *)
(* checkpoint alone.                                                       *)
LEMMA UnseenStutters ==
    ASSUME doc'.status = doc.status, doc'.newest = doc.newest, doc'.request = doc.request
    PROVE  UNCHANGED Contract!contract
BY DEF Contract!contract, StandingStages

(* A step that only reads. *)
LEMMA ReadingGoesOn ==
    ASSUME StoreInvariant, NEW s \in Calls, OthersIdle(s), Moves(s),
           UNCHANGED <<doc, asked, canceller, cancels>>, faults' \in Nat,
           CallStands(doc, asked, faults', call'[s]),
           call'[s].pc \notin AtWork => \A a \in Agents : asked[a] <= doc.attempts[a] + faults',
           doc.status = "absent" => call'[s].pc = "idle"
    PROVE  GoesOn
<1>1. StoreTypeOK /\ DocumentStands(doc, asked)
  BY DEF StoreInvariant
<1>2. /\ doc' \in Document /\ asked' \in [Agents -> Nat] /\ canceller' = Nothing /\ cancels' = 0
      /\ doc' = doc /\ asked' = asked
  BY <1>1 DEF StoreTypeOK
<1>3. StoreInvariant'
  BY <1>1, <1>2, OneMoves
<1>4. doc.seqs \in Seq(Nat)
  BY <1>1 DEF StoreTypeOK, Document
<1>. QED  BY <1>2, <1>3, <1>4, SeqsGrow, UnseenStutters DEF GoesOn

LEMMA FinalReadGoesOn ==
    ASSUME OneCallAtATime, StoreInvariant, NEW s \in Calls, FinalRead(s)
    PROVE  GoesOn
<1>1. /\ StoreTypeOK /\ call[s].pc = "finalRead" /\ CallStands(doc, asked, faults, call[s])
      /\ call[s] \in CallShape
  BY DEF FinalRead, At, StoreInvariant, StoreTypeOK
<1>2. OthersIdle(s)
  BY <1>1, WorkingAlone DEF At
<1>3. RunStands(doc, asked, faults, call[s])
  BY <1>1 DEF CallStands
<1>4. /\ call[s].r.status = doc.status /\ call[s].r.attempts = doc.attempts
      /\ Counted(doc, asked, faults, call[s])
  BY <1>1, <1>3 DEF RunStands, AtWork, InTurn, Trails
<1>5. Leave(s) /\ UNCHANGED <<doc, asked, canceller, cancels>> /\ faults' = faults
  BY <1>4 DEF FinalRead, OnlyCalls
<1>6. Moves(s) /\ call'[s].pc = "idle"
  BY <1>1, <1>5, LeaveMoves
<1>7. \A a \in Agents : asked[a] <= doc.attempts[a] + faults
  BY <1>1, <1>4 DEF Counted, StoreTypeOK, Document
<1>8. faults' \in Nat
  BY <1>1, <1>5 DEF StoreTypeOK
<1>. QED  BY <1>1, <1>2, <1>5, <1>6, <1>7, <1>8, IdleStands, ReadingGoesOn

(* A call that dies loses no more than the attempt it was at.              *)
LEMMA InterruptGoesOn ==
    ASSUME OneCallAtATime, StoreInvariant, NEW s \in Calls, Interrupt(s)
    PROVE  GoesOn
<1>1. /\ StoreTypeOK /\ call[s].pc # "idle" /\ CallStands(doc, asked, faults, call[s])
      /\ call[s] \in CallShape
  BY DEF Interrupt, At, StoreInvariant, StoreTypeOK
<1>2. OthersIdle(s)
  BY <1>1, WorkingAlone DEF At
<1>3. Leave(s) /\ UNCHANGED <<doc, asked, canceller, cancels>> /\ faults' = faults + 1
  BY DEF Interrupt
<1>4. Moves(s) /\ call'[s].pc = "idle"
  BY <1>1, <1>3, LeaveMoves
<1>5. faults \in Nat /\ faults' \in Nat /\ \A a \in Agents : asked[a] \in Nat /\ doc.attempts[a] \in Nat
  BY <1>1, <1>3 DEF StoreTypeOK, Document
<1>6. \A a \in Agents : asked[a] <= doc.attempts[a] + faults'
  <2>1. CASE call[s].pc \notin AtWork
    <3>1. \A t \in Calls : call[t].pc \notin AtWork
      BY <1>2, <2>1 DEF OthersIdle, AtWork, Saving, InStage, Answered
    <3>2. \A a \in Agents : asked[a] <= doc.attempts[a] + faults
      BY <3>1 DEF StoreInvariant, NothingIsPending
    <3>. QED  BY <1>3, <1>5, <3>2
  <2>2. CASE call[s].pc \in AtWork
    <3>1. Counted(doc, asked, faults, call[s]) /\ Trails(doc, call[s])
      BY <1>1, <2>2 DEF CallStands, RunStands
    <3>2. call[s].r.attempts \in [Agents -> Nat]
      BY <1>1 DEF CallShape, RunShape
    <3>3. CASE call[s].pc = "running"
      <4>1. call[s].r.attempts = doc.attempts
        BY <3>1, <3>3 DEF Trails, InStage
      <4>. QED  BY <1>3, <1>5, <3>1, <4>1 DEF Counted
    <3>4. CASE call[s].pc # "running"
      <4>1. \A a \in Agents : asked[a] <= call[s].r.attempts[a] + faults
        BY <1>5, <3>1, <3>2, <3>4 DEF Counted
      <4>2. \A a \in Agents : call[s].r.attempts[a] <= doc.attempts[a] + 1
        BY <3>1 DEF Counted
      <4>. QED  BY <1>3, <1>5, <3>2, <4>1, <4>2
    <3>. QED  BY <3>3, <3>4
  <2>. QED  BY <2>1, <2>2
<1>. QED  BY <1>1, <1>2, <1>3, <1>4, <1>5, <1>6, IdleStands, ReadingGoesOn

(* The steps of a recovery that only read. *)
LEMMA RecoverGoesOn ==
    ASSUME OneCallAtATime, StoreInvariant, NEW s \in Calls, Recover(s)
    PROVE  GoesOn
<1>1. StoreTypeOK /\ OthersIdle(s) /\ call[s].pc = "idle"
  BY BeginsAlone DEF Recover, StoreInvariant
<1>2. Go(s, "recoverCheckpoint") /\ UNCHANGED <<doc, asked, canceller, cancels, faults>>
      /\ doc.status # "absent"
  BY DEF Recover
<1>3. Moves(s) /\ call'[s].pc = "recoverCheckpoint"
  BY <1>1, <1>2, GoMoves DEF Recovering
<1>4. CallStands(doc, asked, faults', call'[s])
  BY <1>2, <1>3 DEF CallStands, RecoveryStands, RunStands, SaveStands, Writing, AtWork, Saving,
                    InStage, Answered
<1>5. \A a \in Agents : asked[a] <= doc.attempts[a] + faults'
  BY <1>1, <1>2 DEF StoreInvariant, NothingIsPending, OthersIdle, AtWork, Saving, InStage, Answered
<1>6. faults' \in Nat
  BY <1>1, <1>2 DEF StoreTypeOK
<1>. QED  BY <1>1, <1>2, <1>3, <1>4, <1>5, <1>6, ReadingGoesOn

LEMMA RecoverCheckpointGoesOn ==
    ASSUME OneCallAtATime, StoreInvariant, NEW s \in Calls, RecoverCheckpoint(s)
    PROVE  GoesOn
<1>1. /\ StoreTypeOK /\ call[s].pc = "recoverCheckpoint" /\ call[s] \in CallShape
      /\ CallStands(doc, asked, faults, call[s]) /\ doc \in Document
  BY DEF RecoverCheckpoint, At, StoreInvariant, StoreTypeOK
<1>2. OthersIdle(s)
  BY <1>1, WorkingAlone DEF At
<1>3. UNCHANGED <<doc, asked, canceller, cancels, faults>> /\ faults' \in Nat
  BY <1>1 DEF RecoverCheckpoint, OnlyCalls, StoreTypeOK
<1>4. doc.status # "absent"
  BY <1>1 DEF CallStands, RecoveryStands, Recovering
<1>5. \A a \in Agents : asked[a] <= doc.attempts[a] + faults'
  BY <1>1, <1>2, <1>3 DEF StoreInvariant, NothingIsPending, OthersIdle, AtWork, Saving, InStage,
                          Answered
<1>6. CASE doc.newest.status \in Terminal \cup {"absent"}
  <2>1. Leave(s)
    BY <1>6 DEF RecoverCheckpoint, Raise, OneCallAtATime, Terminal
  <2>2. Moves(s) /\ call'[s].pc = "idle"
    BY <1>1, <2>1, LeaveMoves
  <2>. QED  BY <1>2, <1>3, <1>5, <2>2, IdleStands, ReadingGoesOn
<1>7. CASE doc.newest.status \notin Terminal \cup {"absent"}
  <2> DEFINE r == [FreshRun EXCEPT !.next = doc.newest.next, !.last = doc.newest.active,
                                   !.ws = doc.newest.ws]
             e == [call[s] EXCEPT !.pc = "recoverRecord", !.r = r]
  <2>1. doc.newest.status \in {"running", "paused"}
    BY <1>1, <1>7 DEF Document, RunStatus, Terminal
  <2>2. /\ r \in RunShape /\ r.status = "running" /\ r.next = doc.newest.next
        /\ r.last = doc.newest.active /\ r.ws = doc.newest.ws
    BY <1>1, FreshRunShape DEF FreshRun, RunShape, Document
  <2>. HIDE DEF r
  <2>3. call' = [call EXCEPT ![s] = e]
    BY <1>1, <1>7 DEF RecoverCheckpoint, StoreTypeOK, r
  <2>4. e \in CallShape /\ e.pc = "recoverRecord" /\ e.r = r
    BY <1>1, <2>2 DEF CallShape, Recovering
  <2>. HIDE DEF e
  <2>5. Moves(s) /\ call'[s].pc = "recoverRecord" /\ call'[s].r = r
    BY <1>1, <2>3, <2>4 DEF Moves, StoreTypeOK
  <2>6. CallStands(doc, asked, faults', call'[s])
    BY <1>4, <2>1, <2>2, <2>5 DEF CallStands, RecoveryStands, RunStands, SaveStands, Writing,
                                  AtWork, Saving, InStage, Answered
  <2>. QED  BY <1>2, <1>3, <1>4, <1>5, <2>5, <2>6, ReadingGoesOn
<1>. QED  BY <1>6, <1>7

LEMMA RecoverRecordGoesOn ==
    ASSUME OneCallAtATime, StoreInvariant, NEW s \in Calls, RecoverRecord(s)
    PROVE  GoesOn
<1>1. /\ StoreTypeOK /\ call[s].pc = "recoverRecord" /\ call[s] \in CallShape
      /\ CallStands(doc, asked, faults, call[s]) /\ doc \in Document
  BY DEF RecoverRecord, At, StoreInvariant, StoreTypeOK
<1>2. OthersIdle(s)
  BY <1>1, WorkingAlone DEF At
<1>3. UNCHANGED <<doc, asked, canceller, cancels, faults>> /\ faults' \in Nat
  BY <1>1 DEF RecoverRecord, OnlyCalls, StoreTypeOK
<1>4. RecoveryStands(doc, call[s])
  BY <1>1 DEF CallStands
<1>5. \A a \in Agents : asked[a] <= doc.attempts[a] + faults'
  BY <1>1, <1>2, <1>3 DEF StoreInvariant, NothingIsPending, OthersIdle, AtWork, Saving, InStage,
                          Answered
<1> DEFINE m == [doc.meta EXCEPT !.pauseAfter = None]
           r == [call[s].r EXCEPT !.attempts = doc.attempts, !.meta = m]
           e == [call[s] EXCEPT !.pc = "recoverWrite", !.copy = doc, !.r = r]
<1>6. m \in Meta
  BY <1>1 DEF Document, Meta
<1>. HIDE DEF m
<1>7. /\ r \in RunShape /\ r.status = call[s].r.status /\ r.next = call[s].r.next
      /\ r.last = call[s].r.last /\ r.ws = call[s].r.ws /\ r.attempts = doc.attempts /\ r.meta = m
  BY <1>1, <1>6 DEF CallShape, RunShape, Document
<1>8. call' = [call EXCEPT ![s] = e]
  BY <1>1 DEF RecoverRecord, StoreTypeOK, CallShape, RunShape, m
<1>. HIDE DEF r
<1>9. e \in CallShape /\ e.pc = "recoverWrite" /\ e.copy = doc /\ e.r = r
  BY <1>1, <1>7 DEF CallShape, Recovering
<1>. HIDE DEF e
<1>10. Moves(s) /\ call'[s].pc = "recoverWrite" /\ call'[s].r = r /\ call'[s].copy = doc
  BY <1>1, <1>8, <1>9 DEF Moves, StoreTypeOK
<1>11. CallStands(doc, asked, faults', call'[s])
  BY <1>1, <1>4, <1>7, <1>10 DEF CallStands, RecoveryStands, RunStands, SaveStands, Recovering,
     AtWork, Saving, InStage, Answered, m
<1>. QED  BY <1>1, <1>2, <1>3, <1>4, <1>5, <1>10, <1>11, ReadingGoesOn DEF RecoveryStands, Recovering

-----------------------------------------------------------------------------
(* The steps of a call at work that only read.                             *)

LEMMA AtWorkNow ==
    ASSUME StoreInvariant, NEW s \in Calls, call[s].pc \in AtWork
    PROVE  /\ StoreTypeOK /\ OthersIdle(s) /\ doc \in Document /\ doc.status # "absent"
           /\ call[s] \in CallShape /\ call[s].r \in RunShape /\ RunFields(call[s].r)
           /\ call[s].pc \in Writing => call[s].copy = doc
           /\ Sound(call[s].r.last, call[s].r.attempts, call[s].r.ws, call[s].r.meta)
           /\ Counted(doc, asked, faults, call[s]) /\ Trails(doc, call[s]) /\ InTurn(doc, call[s])
           /\ SaveStands(doc, call[s]) /\ DocumentStands(doc, asked)
<1>1. /\ StoreTypeOK /\ call[s] \in CallShape /\ doc \in Document
      /\ CallStands(doc, asked, faults, call[s]) /\ DocumentStands(doc, asked)
  BY DEF StoreInvariant, StoreTypeOK
<1>2. OthersIdle(s)
  BY WorkingAlone DEF At, AtWork, Saving, InStage, Answered
<1>3. call[s].r \in RunShape
  BY <1>1 DEF CallShape
<1>4. RunStands(doc, asked, faults, call[s])
  BY <1>1 DEF CallStands
<1>. QED  BY <1>1, <1>2, <1>3, <1>4, RunShapeFields DEF CallStands, RunStands, Trails

LEMMA WorkingGoesOn ==
    ASSUME StoreInvariant, NEW s \in Calls, call[s].pc \in AtWork, Moves(s), OnlyCalls,
           call'[s].pc \in AtWork, call'[s].pc \in Writing => call'[s].copy = doc,
           RunStands(doc, asked, faults, call'[s]), SaveStands(doc, call'[s])
    PROVE  GoesOn
<1>1. StoreTypeOK /\ OthersIdle(s) /\ doc.status # "absent"
  BY AtWorkNow
<1>2. UNCHANGED <<doc, asked, canceller, cancels>> /\ faults' = faults /\ faults' \in Nat
  BY <1>1 DEF OnlyCalls, StoreTypeOK
<1>3. RecoveryStands(doc, call'[s])
  BY DEF RecoveryStands, Recovering, AtWork, Saving, InStage, Answered
<1>4. CallStands(doc, asked, faults', call'[s])
  BY <1>2, <1>3 DEF CallStands
<1>. QED  BY <1>1, <1>2, <1>4, ReadingGoesOn

LEMMA PersistReadGoesOn ==
    ASSUME OneCallAtATime, StoreInvariant, NEW s \in Calls, PersistRead(s)
    PROVE  GoesOn
<1>1. call[s].pc = "persistRead" /\ call[s].pc \in AtWork
  BY DEF PersistRead, At, AtWork, Saving
<1>2. /\ doc \in Document /\ StoreTypeOK /\ call[s] \in CallShape
      /\ Sound(call[s].r.last, call[s].r.attempts, call[s].r.ws, call[s].r.meta)
      /\ Counted(doc, asked, faults, call[s]) /\ Trails(doc, call[s]) /\ InTurn(doc, call[s])
      /\ SaveStands(doc, call[s])
  BY <1>1, AtWorkNow
<1>3. doc.status = "running" /\ call[s].put \in Put
  BY <1>1, <1>2 DEF Trails, Updating, SaveStands, Saving
<1> DEFINE p == [status |-> call[s].put.status, next |-> call[s].put.next, seq |-> Len(doc.seqs)]
           e == [call[s] EXCEPT !.pc = "appendRead", !.put = p]
<1>4. call' = [call EXCEPT ![s] = e] /\ OnlyCalls
  BY <1>2, <1>3 DEF PersistRead, StoreTypeOK
<1>5. Len(doc.seqs) \in Nat
  <2>1. doc.seqs \in Seq(Nat)
    BY <1>2 DEF Document
  <2>. QED  BY <2>1
<1>6. p \in Put /\ p.status = call[s].put.status /\ p.next = call[s].put.next /\ p.seq = Len(doc.seqs)
  BY <1>3, <1>5 DEF Put
<1>. HIDE DEF p
<1>7. /\ e \in CallShape /\ e.pc = "appendRead" /\ e.r = call[s].r /\ e.back = call[s].back
      /\ e.put = p
  BY <1>2, <1>6 DEF CallShape, AtWork, Saving
<1>. HIDE DEF e
<1>8. Moves(s) /\ call'[s] = e
  BY <1>2, <1>4, <1>7 DEF Moves, StoreTypeOK
<1>9. RunStands(doc, asked, faults, e)
  BY <1>1, <1>2, <1>7 DEF RunStands, Counted, Trails, InTurn, InStage, Updating, Saving, Answered
<1>10. SaveStands(doc, e)
  BY <1>1, <1>2, <1>6, <1>7 DEF SaveStands, Saving, Updating
<1>11. e.pc \in AtWork /\ e.pc \notin Writing
  BY <1>7 DEF AtWork, Saving, Writing
<1>. QED  BY <1>1, <1>4, <1>8, <1>9, <1>10, <1>11, WorkingGoesOn

LEMMA AppendReadGoesOn ==
    ASSUME OneCallAtATime, StoreInvariant, NEW s \in Calls, AppendRead(s)
    PROVE  GoesOn
<1>1. call[s].pc = "appendRead" /\ call[s].pc \in AtWork /\ Fetch(s, "appendWrite") /\ OnlyCalls
  BY DEF AppendRead, At, AtWork, Saving
<1>2. /\ StoreTypeOK
      /\ Sound(call[s].r.last, call[s].r.attempts, call[s].r.ws, call[s].r.meta)
      /\ Counted(doc, asked, faults, call[s]) /\ Trails(doc, call[s]) /\ InTurn(doc, call[s])
      /\ SaveStands(doc, call[s])
  BY <1>1, AtWorkNow
<1>3. /\ Moves(s) /\ call'[s].pc = "appendWrite" /\ call'[s].r = call[s].r /\ call'[s].copy = doc
      /\ call'[s].put = call[s].put /\ call'[s].back = call[s].back
  BY <1>1, <1>2, FetchMoves DEF AtWork, Saving
<1>4. RunStands(doc, asked, faults, call'[s])
  BY <1>1, <1>2, <1>3 DEF RunStands, Counted, Trails, InTurn, InStage, Updating, Saving, Answered
<1>5. SaveStands(doc, call'[s])
  BY <1>1, <1>2, <1>3 DEF SaveStands, Saving, Updating
<1>6. call'[s].pc \in AtWork
  BY <1>3 DEF AtWork, Saving
<1>. QED  BY <1>1, <1>3, <1>4, <1>5, <1>6, WorkingGoesOn

LEMMA UpdateReadGoesOn ==
    ASSUME OneCallAtATime, StoreInvariant, NEW s \in Calls, UpdateRead(s)
    PROVE  GoesOn
<1>1. call[s].pc = "updateRead" /\ call[s].pc \in AtWork /\ Fetch(s, "updateWrite") /\ OnlyCalls
  BY DEF UpdateRead, At, AtWork, Saving
<1>2. /\ StoreTypeOK
      /\ Sound(call[s].r.last, call[s].r.attempts, call[s].r.ws, call[s].r.meta)
      /\ Counted(doc, asked, faults, call[s]) /\ Trails(doc, call[s]) /\ InTurn(doc, call[s])
      /\ SaveStands(doc, call[s])
  BY <1>1, AtWorkNow
<1>3. /\ Moves(s) /\ call'[s].pc = "updateWrite" /\ call'[s].r = call[s].r /\ call'[s].copy = doc
      /\ call'[s].put = call[s].put /\ call'[s].back = call[s].back
  BY <1>1, <1>2, FetchMoves DEF AtWork, Saving
<1>4. RunStands(doc, asked, faults, call'[s])
  BY <1>1, <1>2, <1>3 DEF RunStands, Counted, Trails, InTurn, InStage, Updating, Saving, Answered
<1>5. SaveStands(doc, call'[s])
  BY <1>1, <1>2, <1>3 DEF SaveStands, Saving, Updating
<1>6. call'[s].pc \in AtWork
  BY <1>3 DEF AtWork, Saving
<1>. QED  BY <1>1, <1>3, <1>4, <1>5, <1>6, WorkingGoesOn

(* A stage in hand, from the router to the lock. *)
LEMMA StageStands ==
    ASSUME StoreInvariant, NEW s \in Calls, call[s].pc \in InStage \ {"running"},
           NEW c, c.pc \in InStage \ {"running"}, c.r = call[s].r
    PROVE  RunStands(doc, asked, faults, c) /\ SaveStands(doc, c)
<1>1. call[s].pc \in AtWork
  BY DEF AtWork
<1>2. /\ Sound(call[s].r.last, call[s].r.attempts, call[s].r.ws, call[s].r.meta)
      /\ Counted(doc, asked, faults, call[s]) /\ Trails(doc, call[s]) /\ InTurn(doc, call[s])
  BY <1>1, AtWorkNow
<1>3. RunStands(doc, asked, faults, c)
  BY <1>1, <1>2 DEF RunStands, Counted, Trails, InTurn, InStage, Updating, Saving, Answered
<1>. QED  BY <1>3 DEF SaveStands, Saving, InStage

LEMMA AgentReadGoesOn ==
    ASSUME OneCallAtATime, StoreInvariant, NEW s \in Calls, AgentRead(s)
    PROVE  GoesOn
<1>1. call[s].pc = "agent" /\ call[s].pc \in AtWork /\ OnlyCalls
  BY DEF AgentRead, At, AtWork, InStage
<1>2. StoreTypeOK /\ Trails(doc, call[s])
  BY <1>1, AtWorkNow
<1>3. Go(s, "lockRead")
  BY <1>1, <1>2 DEF AgentRead, Trails, Updating
<1>4. Moves(s) /\ call'[s].pc = "lockRead" /\ call'[s].r = call[s].r
  BY <1>2, <1>3, GoMoves DEF AtWork, InStage
<1>5. RunStands(doc, asked, faults, call'[s]) /\ SaveStands(doc, call'[s])
  BY <1>1, <1>4, StageStands DEF InStage
<1>6. call'[s].pc \in AtWork /\ call'[s].pc \notin Writing
  BY <1>4 DEF AtWork, InStage, Writing
<1>. QED  BY <1>1, <1>4, <1>5, <1>6, WorkingGoesOn

(* With one call at a time the stage lock is never refused. *)
LEMMA LockReadGoesOn ==
    ASSUME OneCallAtATime, StoreInvariant, NEW s \in Calls, LockRead(s)
    PROVE  GoesOn
<1>1. call[s].pc = "lockRead" /\ call[s].pc \in AtWork /\ OnlyCalls
  BY DEF LockRead, At, AtWork, InStage
<1>2. StoreTypeOK /\ InTurn(doc, call[s]) /\ DocumentStands(doc, asked) /\ doc.status # "absent"
  BY <1>1, AtWorkNow
<1>3. Fetch(s, "lockWrite")
  BY <1>1, <1>2, WorkersAreOut DEF LockRead, InTurn, InStage, DocumentStands
<1>4. Moves(s) /\ call'[s].pc = "lockWrite" /\ call'[s].r = call[s].r /\ call'[s].copy = doc
  BY <1>2, <1>3, FetchMoves DEF AtWork, InStage
<1>5. RunStands(doc, asked, faults, call'[s]) /\ SaveStands(doc, call'[s])
  BY <1>1, <1>4, StageStands DEF InStage
<1>6. call'[s].pc \in AtWork
  BY <1>4 DEF AtWork, InStage
<1>. QED  BY <1>1, <1>4, <1>5, <1>6, WorkingGoesOn

(* An answer in hand, until it is saved. *)
LEMMA AnsweredStands ==
    ASSUME StoreInvariant, NEW s \in Calls, call[s].pc \in Answered,
           NEW c, c.pc \in Answered, c.r = call[s].r
    PROVE  RunStands(doc, asked, faults, c) /\ SaveStands(doc, c)
<1>1. call[s].pc \in AtWork
  BY DEF AtWork
<1>2. /\ Sound(call[s].r.last, call[s].r.attempts, call[s].r.ws, call[s].r.meta)
      /\ Counted(doc, asked, faults, call[s]) /\ Trails(doc, call[s]) /\ InTurn(doc, call[s])
  BY <1>1, AtWorkNow
<1>3. RunStands(doc, asked, faults, c)
  BY <1>1, <1>2 DEF RunStands, Counted, Trails, InTurn, InStage, Updating, Saving, Answered
<1>. QED  BY <1>3 DEF SaveStands, Saving, Answered

LEMMA UnlockReadGoesOn ==
    ASSUME OneCallAtATime, StoreInvariant, NEW s \in Calls, UnlockRead(s)
    PROVE  GoesOn
<1>1. call[s].pc = "unlockRead" /\ call[s].pc \in AtWork /\ OnlyCalls
      /\ (Fetch(s, "unlockWrite") \/ Go(s, "answered"))
  BY DEF UnlockRead, At, AtWork, Answered
<1>2. StoreTypeOK
  BY <1>1, AtWorkNow
<1>3. /\ Moves(s) /\ call'[s].r = call[s].r
      /\ \/ call'[s].pc = "unlockWrite" /\ call'[s].copy = doc
         \/ call'[s].pc = "answered"
  BY <1>1, <1>2, FetchMoves, GoMoves DEF AtWork, Answered
<1>4. RunStands(doc, asked, faults, call'[s]) /\ SaveStands(doc, call'[s])
  BY <1>1, <1>3, AnsweredStands DEF Answered
<1>5. call'[s].pc \in AtWork /\ (call'[s].pc \in Writing => call'[s].copy = doc)
  BY <1>3 DEF AtWork, Answered, Writing
<1>. QED  BY <1>1, <1>3, <1>4, <1>5, WorkingGoesOn

(* For the whole sequence every stage has a place in the plan. *)
LEMMA AlwaysRoutable ==
    ASSUME NEW r, RunFields(r), Plan(r.meta) = Agents
    PROVE  ~Unroutable(r)
BY DEF Unroutable, RunFields

(* The repair instructions are written after QA's answer only.             *)
LEMMA NextMetaSound ==
    ASSUME NEW r \in RunShape, Sound(r.last, r.attempts, r.ws, r.meta),
           NEW q, q = [r EXCEPT !.meta = NextMeta(r)]
    PROVE  /\ q \in RunShape /\ Sound(q.last, q.attempts, q.ws, q.meta)
           /\ q.status = r.status /\ q.next = r.next /\ q.last = r.last
           /\ q.attempts = r.attempts /\ q.ws = r.ws /\ q.meta = NextMeta(r)
           /\ r.meta.repair => q.meta.repair
           /\ r.last = "developer" => q.meta = r.meta
<1>1. RunFields(r)
  BY RunShapeFields
<1>2. NextMeta(r) \in Meta /\ Plan(NextMeta(r)) = Plan(r.meta)
  BY <1>1, NextMetaType, PlanIgnoresRepair
<1>3. /\ q \in RunShape /\ q.meta = NextMeta(r) /\ q.status = r.status /\ q.next = r.next
      /\ q.last = r.last /\ q.attempts = r.attempts /\ q.ws = r.ws
  BY <1>2 DEF RunShape
<1>4. Coherent(r.last, r.attempts, r.ws, NextMeta(r))
  BY <1>1, NextMetaCoherent DEF Sound
<1>5. ReworkInOrder(r.last, r.ws, NextMeta(r))
  BY <1>2 DEF Sound, ReworkInOrder
<1>6. r.meta.repair => NextMeta(r).repair
  BY <1>1 DEF NextMeta, RunFields, Meta
<1>7. r.last = "developer" => NextMeta(r) = r.meta
  BY DEF NextMeta, MustRework
<1>. QED  BY <1>2, <1>3, <1>4, <1>5, <1>6, <1>7 DEF Sound

(* A call that begins to save has what it had. *)
LEMMA SavingStands ==
    ASSUME StoreInvariant, NEW s \in Calls, call[s].pc \in {"router", "answered"},
           NEW q, q = [call[s].r EXCEPT !.meta = NextMeta(call[s].r)],
           NEW c, c.pc = "persistRead", c.r = q,
           c.back = IF call[s].pc = "router" THEN "route" ELSE "router"
    PROVE  RunStands(doc, asked, faults, c)
<1>1. call[s].pc \in AtWork
  BY DEF AtWork, Answered
<1>2. /\ call[s].r \in RunShape /\ Sound(call[s].r.last, call[s].r.attempts, call[s].r.ws, call[s].r.meta)
      /\ Counted(doc, asked, faults, call[s]) /\ Trails(doc, call[s]) /\ InTurn(doc, call[s])
  BY <1>1, AtWorkNow
<1>3. /\ Sound(q.last, q.attempts, q.ws, q.meta)
      /\ q.status = call[s].r.status /\ q.next = call[s].r.next /\ q.last = call[s].r.last
      /\ q.attempts = call[s].r.attempts /\ q.ws = call[s].r.ws
      /\ call[s].r.meta.repair => q.meta.repair
      /\ call[s].r.last = "developer" => q.meta = call[s].r.meta
  BY <1>2, NextMetaSound
<1>4. Counted(doc, asked, faults, c)
  BY <1>2, <1>3 DEF Counted
<1>5. Trails(doc, c)
  BY <1>2, <1>3 DEF Trails, Updating, InStage, Saving, Answered
<1>6. InTurn(doc, c)
  BY <1>2, <1>3 DEF InTurn, InStage, Answered, Saving, Updating
<1>. QED  BY <1>3, <1>4, <1>5, <1>6 DEF RunStands

LEMMA RouteGoesOn ==
    ASSUME OneCallAtATime, StoreInvariant, NEW s \in Calls, Route(s)
    PROVE  GoesOn
<1> DEFINE r == call[s].r
           q == [r EXCEPT !.meta = NextMeta(r)]
           n == [q EXCEPT !.next = NextAgent(r)]
<1>1. call[s].pc = "router" /\ call[s].pc \in AtWork /\ OnlyCalls
  BY DEF Route, At, AtWork
<1>2. /\ StoreTypeOK /\ r \in RunShape /\ RunFields(r)
      /\ Sound(r.last, r.attempts, r.ws, r.meta)
      /\ Trails(doc, call[s]) /\ InTurn(doc, call[s])
  BY <1>1, AtWorkNow
<1>3. /\ ~Unroutable(r) /\ r.status = "running" /\ doc.status = "running"
      /\ r.last = None => r.next = FirstOf(Agents)
  BY <1>1, <1>2, AlwaysRoutable DEF Sound, Trails, Updating, InTurn
<1>4. Save(s, q, RoutedStatus(r), NextAgent(r), "route")
  BY <1>1, <1>3 DEF Route
<1>5. /\ q \in RunShape /\ q.last = r.last /\ q.ws = r.ws /\ q.attempts = r.attempts
      /\ q.meta = NextMeta(r)
  BY <1>2, NextMetaSound
<1>6. NextAgent(r) \in Agents \cup {None}
  BY <1>2, NextAgentType
<1>7. /\ RoutedStatus(r) \in {"running", "completed", "failed", "paused"}
      /\ RoutedStatus(r) = "running" => NextAgent(r) # None
      /\ RoutedStatus(r) = "completed" => Stands(r.ws) = Agents
      /\ RoutedStatus(r) = "paused" => Stands(r.ws) # Agents
      /\ r.last = None => RoutedStatus(r) = "running"
  BY <1>2, <1>3, RoutedEnds DEF Sound, Stands
<1>8. /\ n \in RunShape /\ n.next = NextAgent(r) /\ n.meta = NextMeta(r) /\ n.ws = r.ws
      /\ n.attempts = r.attempts
  BY <1>5, <1>6 DEF RunShape
<1>. HIDE DEF n
<1>9. RoutedStatus(r) = "running" => InHand(n) /\ OnTurn(n)
  <2> SUFFICES ASSUME RoutedStatus(r) = "running" PROVE InHand(n) /\ OnTurn(n)
    OBVIOUS
  <2>1. RunFields(n)
    BY <1>8, RunShapeFields
  <2>2. /\ Coherent(r.last, r.attempts, r.ws, r.meta) /\ ReworkInOrder(r.last, r.ws, r.meta)
        /\ r.last = None => r.next = FirstOf(Plan(r.meta))
    BY <1>2, <1>3 DEF Sound
  <2>3. InHand(n)
    BY <1>2, <1>3, <1>8, <2>1, <2>2, RoutedIsInHand
  <2>. QED  BY <1>2, <1>3, <1>8, <2>1, <2>2, <2>3, RoutedOnTurn
<1>10. r.last = None => NextAgent(r) = FirstOf(Agents)
  BY <1>3 DEF NextAgent
<1>11. /\ Moves(s) /\ call'[s].pc = "persistRead" /\ call'[s].r = q /\ call'[s].back = "route"
       /\ call'[s].put \in Put
       /\ call'[s].put.status = RoutedStatus(r) /\ call'[s].put.next = NextAgent(r)
  <2>. HIDE DEF q, r
  <2>. QED  BY <1>2, <1>4, <1>5, <1>6, <1>7, SaveMoves
<1>12. RunStands(doc, asked, faults, call'[s])
  BY <1>1, <1>11, SavingStands
<1>13. SaveStands(doc, call'[s])
  <2>1. [call'[s].r EXCEPT !.next = call'[s].put.next] = n
    BY <1>11 DEF n
  <2>2. call'[s].r.last = r.last /\ call'[s].r.ws = r.ws
    BY <1>5, <1>11
  <2>3. RoutedStatus(r) = "running" => NextAgent(r) \in Agents
    BY <1>6, <1>7
  <2>. HIDE DEF q, r
  <2>. QED  BY <1>7, <1>9, <1>10, <1>11, <2>1, <2>2, <2>3 DEF SaveStands, Updating
<1>14. call'[s].pc \in AtWork /\ call'[s].pc \notin Writing
  BY <1>11 DEF AtWork, Saving, Writing
<1>. QED  BY <1>1, <1>11, <1>12, <1>13, <1>14, WorkingGoesOn

LEMMA AgentReturnsGoesOn ==
    ASSUME OneCallAtATime, StoreInvariant, NEW s \in Calls, AgentReturns(s)
    PROVE  GoesOn
<1> DEFINE r == call[s].r
           q == [r EXCEPT !.meta = NextMeta(r)]
<1>1. call[s].pc = "answered" /\ call[s].pc \in AtWork /\ OnlyCalls
  BY DEF AgentReturns, At, AtWork, Answered
<1>2. /\ StoreTypeOK /\ r \in RunShape /\ RunFields(r)
      /\ Sound(r.last, r.attempts, r.ws, r.meta)
      /\ Trails(doc, call[s]) /\ InTurn(doc, call[s])
  BY <1>1, AtWorkNow
<1>3. ~Unroutable(r) /\ doc.status = "running" /\ r.last # None
  BY <1>1, <1>2, AlwaysRoutable DEF Sound, Trails, Updating, InTurn, Answered
<1>4. Save(s, q, "running", None, "router")
  BY <1>1, <1>3 DEF AgentReturns
<1>5. q \in RunShape /\ q.last = r.last
  BY <1>2, NextMetaSound
<1>6. /\ Moves(s) /\ call'[s].pc = "persistRead" /\ call'[s].r = q /\ call'[s].back = "router"
      /\ call'[s].put \in Put /\ call'[s].put.status = "running" /\ call'[s].put.next = None
  <2>. HIDE DEF q, r
  <2>. QED  BY <1>2, <1>4, <1>5, SaveMoves
<1>7. RunStands(doc, asked, faults, call'[s])
  BY <1>1, <1>6, SavingStands
<1>8. SaveStands(doc, call'[s])
  <2>1. call'[s].r.last # None
    BY <1>3, <1>5, <1>6
  <2>. HIDE DEF q, r
  <2>. QED  BY <1>6, <2>1 DEF SaveStands, Updating
<1>9. call'[s].pc \in AtWork /\ call'[s].pc \notin Writing
  BY <1>6 DEF AtWork, Saving, Writing
<1>. QED  BY <1>1, <1>6, <1>7, <1>8, <1>9, WorkingGoesOn

(* What an agent answers is a delivery, a rejection or nothing at all for  *)
(* the client, whenever it will be stored.                                 *)
LEMMA AnswerIsSeen ==
    ASSUME NEW r \in RunShape, r.next \in Agents, r.status = "running",
           Sound(r.last, r.attempts, r.ws, r.meta), InHand(r), OnTurn(r),
           NEW v \in VerdictsOf(r.next), NEW q, q = AfterAgent(r, r.next, v)
    PROVE  /\ q \in RunShape /\ Sound(q.last, q.attempts, q.ws, q.meta)
           /\ q.last = r.next /\ q.status = r.status /\ q.meta = r.meta
           /\ Budget(q.attempts, r.ws) /\ Answers(r.ws, q.ws)
           /\ \A a \in Agents : q.attempts[a] = IF a = r.next THEN r.attempts[a] + 1 ELSE r.attempts[a]
<1>1. RunFields(r) /\ Plan(r.meta) = Agents /\ r.ws \in WorkState /\ r.attempts \in [Agents -> Nat]
      /\ Coherent(r.last, r.attempts, r.ws, r.meta)
  BY RunShapeFields DEF RunShape, Sound
<1>2. v \in Verdict \ {"pending"} /\ (v = "rejected" => r.next = "qa")
  BY VerdictsType
<1>3. Applied(r.ws, r.next, v) \in WorkState
  BY <1>1, <1>2 DEF Applied, WorkState
<1>4. /\ q \in RunShape /\ q.last = r.next /\ q.status = r.status /\ q.meta = r.meta
      /\ q.ws = Applied(r.ws, r.next, v)
      /\ q.attempts = [r.attempts EXCEPT ![r.next] = @ + 1]
  <2> DEFINE ws == Applied(r.ws, r.next, v)
             more == [r.attempts EXCEPT ![r.next] = @ + 1]
  <2>1. more \in [Agents -> Nat] /\ ws \in WorkState
    BY <1>1, <1>3
  <2>2. q = [r EXCEPT !.last = r.next, !.attempts = more, !.ws = ws]
    BY DEF AfterAgent
  <2>. HIDE DEF ws, more
  <2>3. /\ q \in RunShape /\ q.last = r.next /\ q.status = r.status /\ q.meta = r.meta
        /\ q.ws = ws /\ q.attempts = more
    BY <2>1, <2>2 DEF RunShape
  <2>. QED  BY <2>3 DEF ws, more
<1>5. \A a \in Agents : q.attempts[a] = IF a = r.next THEN r.attempts[a] + 1 ELSE r.attempts[a]
  BY <1>1, <1>4
<1>6. Coherent(q.last, q.attempts, q.ws, q.meta)
  BY <1>1, AnswerIsCoherent
<1>7. RunFields(q) /\ ~Unroutable(q)
  BY <1>1, <1>4, RunShapeFields, AlwaysRoutable
<1>8. /\ ReworkInOrder(q.last, q.ws, q.meta)
      /\ v = "completed" => StandingIn(q.ws, Agents) = StandingIn(r.ws, Agents) \cup {r.next}
      /\ v = "rejected" => StandingIn(q.ws, Agents) = StandingIn(r.ws, Agents) \ {"developer"}
      /\ v \notin {"completed", "rejected"} => StandingIn(q.ws, Agents) = StandingIn(r.ws, Agents)
  BY <1>1, <1>7, AnswerStands
<1>9. Sound(q.last, q.attempts, q.ws, q.meta)
  BY <1>1, <1>4, <1>6, <1>8 DEF Sound
<1>10. Upto(r.next, r.meta) \subseteq Stands(r.ws) /\ r.next \notin Stands(r.ws)
  BY <1>1, InHandIsNext DEF Stands
<1>11. Earlier(r.next) \subseteq Stands(r.ws)
  BY <1>1, <1>10 DEF Upto, Earlier
<1>12. q.ws.rejections = IF v = "rejected" THEN r.ws.rejections + 1 ELSE r.ws.rejections
  BY <1>4 DEF Applied
<1>13. Answers(r.ws, q.ws)
  <2>1. CASE v = "completed"
    BY <1>8, <1>10, <1>11, <1>12, <2>1 DEF Answers, Stands
  <2>2. CASE v = "rejected"
    <3>1. r.ws.rejections <= MaxQaRejectionLoops
      BY DEF InHand
    <3>. QED  BY <1>2, <1>8, <1>10, <1>11, <1>12, <2>2, <3>1 DEF Answers, Stands
  <2>3. CASE v \notin {"completed", "rejected"}
    BY <1>8, <1>12, <2>3 DEF Answers, Stands
  <2>. QED  BY <2>1, <2>2, <2>3
<1>14. Budget(q.attempts, r.ws)
  <2>1. Budget(r.attempts, r.ws) /\ r.ws.rejections \in Nat
    BY <1>1 DEF Coherent, WorkState
  <2>2. ASSUME NEW a \in Agents
        PROVE  q.attempts[a] <= MaxAgentAttempts
                         + (IF a \in {"developer", "qa"} THEN r.ws.rejections ELSE 0)
    <3>1. CASE a = r.next
      <4>1. r.attempts[a] < MaxAgentAttempts
                         + (IF a \in {"developer", "qa"} THEN r.ws.rejections ELSE 0)
        BY <3>1 DEF InHand
      <4>. QED  BY <1>1, <1>5, <2>1, <3>1, <4>1, BudgetAssumption
    <3>2. CASE a # r.next
      BY <1>5, <2>1, <3>2 DEF Budget
    <3>. QED  BY <3>1, <3>2
  <2>. QED  BY <2>1, <2>2 DEF Budget
<1>. QED  BY <1>4, <1>5, <1>9, <1>13, <1>14

LEMMA AgentAnswersGoesOn ==
    ASSUME OneCallAtATime, StoreInvariant, NEW s \in Calls,
           NEW v \in VerdictsOf(call[s].r.next), AgentAnswers(s, v)
    PROVE  GoesOn
<1> DEFINE r == call[s].r
           q == AfterAgent(r, r.next, v)
           e == [call[s] EXCEPT !.pc = "unlockRead", !.r = q]
<1>1. call[s].pc = "running" /\ call[s].pc \in AtWork /\ OnlyCalls
  BY DEF AgentAnswers, At, AtWork, InStage
<1>2. /\ StoreTypeOK /\ call[s] \in CallShape /\ r \in RunShape
      /\ Sound(r.last, r.attempts, r.ws, r.meta) /\ doc \in Document
      /\ Counted(doc, asked, faults, call[s]) /\ Trails(doc, call[s]) /\ InTurn(doc, call[s])
  BY <1>1, AtWorkNow
<1>3. /\ doc.status = "running" /\ r.status = "running" /\ r.next \in Agents
      /\ InHand(r) /\ OnTurn(r) /\ doc.newest.status # "absent"
      /\ r.ws = doc.newest.ws /\ r.attempts = doc.attempts
      /\ doc.meta.repair <=> r.meta.repair
  BY <1>1, <1>2 DEF Trails, InTurn, InStage, Updating
<1>4. call' = [call EXCEPT ![s] = e]
  BY <1>2 DEF AgentAnswers, StoreTypeOK
<1>5. /\ q \in RunShape /\ Sound(q.last, q.attempts, q.ws, q.meta)
      /\ q.last = r.next /\ q.status = r.status /\ q.meta = r.meta
      /\ Budget(q.attempts, r.ws) /\ Answers(r.ws, q.ws)
      /\ \A a \in Agents : q.attempts[a] = IF a = r.next THEN r.attempts[a] + 1 ELSE r.attempts[a]
  BY <1>2, <1>3, AnswerIsSeen
<1>. HIDE DEF q
<1>6. e \in CallShape /\ e.pc = "unlockRead" /\ e.r = q
  BY <1>2, <1>5 DEF CallShape, AtWork, Answered
<1>. HIDE DEF e
<1>7. Moves(s) /\ call'[s] = e
  BY <1>2, <1>4, <1>6 DEF Moves, StoreTypeOK
<1>8. Counted(doc, asked, faults, e)
  <2>1. /\ \A a \in Agents : r.attempts[a] \in Nat /\ asked[a] \in Nat
        /\ faults \in Nat
    BY <1>2 DEF RunShape, StoreTypeOK
  <2>2. \A a \in Agents : asked[a] <= r.attempts[a] + faults + (IF a = r.next THEN 1 ELSE 0)
    BY <1>1, <1>2 DEF Counted
  <2>. QED  BY <1>3, <1>5, <1>6, <2>1, <2>2 DEF Counted
<1>9. Trails(doc, e) /\ InTurn(doc, e)
  BY <1>2, <1>3, <1>5, <1>6, AgentsAreNamed DEF Trails, InTurn, InStage, Updating, Saving, Answered
<1>10. RunStands(doc, asked, faults, e) /\ SaveStands(doc, e)
  BY <1>5, <1>6, <1>8, <1>9 DEF RunStands, SaveStands, Saving
<1>11. e.pc \in AtWork /\ e.pc \notin Writing
  BY <1>6 DEF AtWork, Answered, Writing
<1>. QED  BY <1>1, <1>7, <1>10, <1>11, WorkingGoesOn

-----------------------------------------------------------------------------
(* The steps that write.                                                   *)

(* A document that is written by a call at work is typed, and everybody    *)
(* else keeps still.                                                       *)
LEMMA WritingMoves ==
    ASSUME StoreInvariant, NEW s \in Calls, call[s].pc \in AtWork, Moves(s),
           call'[s].pc \in AtWork, call'[s].pc \notin Writing,
           UNCHANGED <<canceller, cancels, faults>>,
           doc' \in Document, doc'.status # "absent", asked' \in [Agents -> Nat],
           DocumentStands(doc', asked'), RunStands(doc', asked', faults, call'[s]),
           SaveStands(doc', call'[s])
    PROVE  StoreInvariant'
<1>1. StoreTypeOK /\ OthersIdle(s)
  BY AtWorkNow
<1>2. faults' \in Nat /\ faults' = faults /\ canceller' = Nothing /\ cancels' = 0
  BY <1>1 DEF StoreTypeOK
<1>3. RecoveryStands(doc', call'[s])
  BY DEF RecoveryStands, Recovering, AtWork, Saving, InStage, Answered
<1>4. CallStands(doc', asked', faults', call'[s])
  BY <1>2, <1>3 DEF CallStands
<1>. QED  BY <1>1, <1>2, <1>4, OneMoves

(* The stage locks are nobody else's business. *)
LEMMA LocksAside ==
    ASSUME StoreInvariant, NEW a \in Agents, NEW owner \in {None, CreatedBy},
           doc' = [doc EXCEPT !.locks[a] = owner], doc.status # "absent",
           asked' \in [Agents -> Nat]
    PROVE  /\ doc' \in Document /\ DocumentStands(doc', asked')
           /\ doc'.status = doc.status /\ doc'.newest = doc.newest /\ doc'.request = doc.request
           /\ doc'.attempts = doc.attempts /\ doc'.meta = doc.meta /\ doc'.seqs = doc.seqs
<1>1. doc \in Document /\ DocumentStands(doc, asked)
  BY DEF StoreInvariant, StoreTypeOK
<1> DEFINE locks == [doc.locks EXCEPT ![a] = owner]
<1>2. locks \in [Agents -> {"backend", "langgraph-worker", None}]
  BY <1>1, StoreAssumption DEF Document
<1>3. \A b \in Agents : locks[b] \in {None, CreatedBy}
  BY <1>1 DEF DocumentStands, Document
<1>4. doc' = [doc EXCEPT !.locks = locks]
  BY <1>1 DEF Document
<1>. HIDE DEF locks
<1>5. /\ doc' \in Document /\ doc'.locks = locks
      /\ doc'.status = doc.status /\ doc'.newest = doc.newest /\ doc'.request = doc.request
      /\ doc'.attempts = doc.attempts /\ doc'.meta = doc.meta /\ doc'.seqs = doc.seqs
      /\ doc'.owner = doc.owner
  BY <1>1, <1>2, <1>4 DEF Document
<1>6. DocumentStands(doc', asked')
  BY <1>1, <1>3, <1>5 DEF DocumentStands
<1>. QED  BY <1>5, <1>6

LEMMA LockWriteGoesOn ==
    ASSUME OneCallAtATime, StoreInvariant, NEW s \in Calls, LockWrite(s)
    PROVE  GoesOn
<1> DEFINE a == call[s].r.next
<1>1. call[s].pc = "lockWrite" /\ call[s].pc \in AtWork
  BY DEF LockWrite, At, AtWork, InStage
<1>2. /\ StoreTypeOK /\ doc \in Document /\ call[s] \in CallShape /\ call[s].copy = doc
      /\ Sound(call[s].r.last, call[s].r.attempts, call[s].r.ws, call[s].r.meta)
      /\ Counted(doc, asked, faults, call[s]) /\ Trails(doc, call[s]) /\ InTurn(doc, call[s])
      /\ doc.status # "absent"
  BY <1>1, AtWorkNow DEF Writing
<1>3. a \in Agents
  BY <1>1, <1>2 DEF InTurn, InStage
<1>4. /\ doc' = [doc EXCEPT !.locks[a] = CreatedBy] /\ Go(s, "running")
      /\ asked' = [asked EXCEPT ![a] = @ + 1]
      /\ UNCHANGED <<canceller, recoveries, cancels, faults>>
  BY <1>2, WorkersAreOut DEF LockWrite
<1>5. asked' \in [Agents -> Nat] /\ \A b \in Agents : asked'[b] = asked[b] + (IF b = a THEN 1 ELSE 0)
  BY <1>2, <1>3, <1>4 DEF StoreTypeOK
<1>6. /\ doc' \in Document /\ DocumentStands(doc', asked')
      /\ doc'.status = doc.status /\ doc'.newest = doc.newest /\ doc'.request = doc.request
      /\ doc'.attempts = doc.attempts /\ doc'.meta = doc.meta /\ doc'.seqs = doc.seqs
  BY <1>2, <1>3, <1>4, <1>5, LocksAside
<1>7. Moves(s) /\ call'[s].pc = "running" /\ call'[s].r = call[s].r
  BY <1>2, <1>4, GoMoves DEF AtWork, InStage
<1>8. Counted(doc', asked', faults, call'[s])
  <2>1. /\ \A b \in Agents : asked[b] \in Nat /\ call[s].r.attempts[b] \in Nat
        /\ faults \in Nat
    BY <1>2 DEF StoreTypeOK, CallShape, RunShape
  <2>2. \A b \in Agents : asked[b] <= call[s].r.attempts[b] + faults
    BY <1>1, <1>2, <2>1 DEF Counted
  <2>. QED  BY <1>2, <1>5, <1>6, <1>7, <2>1, <2>2 DEF Counted
<1>9. Trails(doc', call'[s]) /\ InTurn(doc', call'[s])
  BY <1>1, <1>2, <1>6, <1>7 DEF Trails, InTurn, InStage, Updating, Saving, Answered
<1>10. RunStands(doc', asked', faults, call'[s]) /\ SaveStands(doc', call'[s])
  BY <1>2, <1>7, <1>8, <1>9 DEF RunStands, SaveStands, Saving
<1>11. call'[s].pc \in AtWork /\ call'[s].pc \notin Writing
  BY <1>7 DEF AtWork, InStage, Writing
<1>12. StoreInvariant'
  BY <1>1, <1>2, <1>4, <1>5, <1>6, <1>7, <1>10, <1>11, WritingMoves
<1>13. doc.seqs \in Seq(Nat)
  BY <1>2 DEF Document
<1>. QED  BY <1>6, <1>12, <1>13, SeqsGrow, UnseenStutters DEF GoesOn

LEMMA UnlockWriteGoesOn ==
    ASSUME OneCallAtATime, StoreInvariant, NEW s \in Calls, UnlockWrite(s)
    PROVE  GoesOn
<1> DEFINE a == call[s].r.last
<1>1. call[s].pc = "unlockWrite" /\ call[s].pc \in AtWork
  BY DEF UnlockWrite, At, AtWork, Answered
<1>2. /\ StoreTypeOK /\ doc \in Document /\ call[s] \in CallShape /\ call[s].copy = doc
      /\ call[s].r \in RunShape
      /\ Sound(call[s].r.last, call[s].r.attempts, call[s].r.ws, call[s].r.meta)
      /\ Counted(doc, asked, faults, call[s]) /\ Trails(doc, call[s]) /\ InTurn(doc, call[s])
      /\ doc.status # "absent"
  BY <1>1, AtWorkNow DEF Writing
<1>3. a \in Agents
  BY <1>1, <1>2 DEF InTurn, Answered, RunShape
<1>4. /\ doc' = [doc EXCEPT !.locks[a] = None] /\ Go(s, "answered") /\ asked' = asked
      /\ UNCHANGED <<canceller, cancels, faults>>
  BY <1>2 DEF UnlockWrite, OnlyStore
<1>5. asked' \in [Agents -> Nat]
  BY <1>2, <1>4 DEF StoreTypeOK
<1>6. /\ doc' \in Document /\ DocumentStands(doc', asked')
      /\ doc'.status = doc.status /\ doc'.newest = doc.newest /\ doc'.request = doc.request
      /\ doc'.attempts = doc.attempts /\ doc'.meta = doc.meta /\ doc'.seqs = doc.seqs
  BY <1>2, <1>3, <1>4, <1>5, LocksAside
<1>7. Moves(s) /\ call'[s].pc = "answered" /\ call'[s].r = call[s].r
  BY <1>2, <1>4, GoMoves DEF AtWork, Answered
<1>8. Counted(doc', asked', faults, call'[s])
  BY <1>1, <1>2, <1>4, <1>6, <1>7 DEF Counted
<1>9. Trails(doc', call'[s]) /\ InTurn(doc', call'[s])
  BY <1>1, <1>2, <1>6, <1>7 DEF Trails, InTurn, InStage, Updating, Saving, Answered
<1>10. RunStands(doc', asked', faults, call'[s]) /\ SaveStands(doc', call'[s])
  BY <1>2, <1>7, <1>8, <1>9 DEF RunStands, SaveStands, Saving
<1>11. call'[s].pc \in AtWork /\ call'[s].pc \notin Writing
  BY <1>7 DEF AtWork, Answered, Writing
<1>12. StoreInvariant'
  BY <1>1, <1>2, <1>4, <1>5, <1>6, <1>7, <1>10, <1>11, WritingMoves
<1>13. doc.seqs \in Seq(Nat)
  BY <1>2 DEF Document
<1>. QED  BY <1>6, <1>12, <1>13, SeqsGrow, UnseenStutters DEF GoesOn

(* What the document knows of the work a run has done is coherent too,     *)
(* when it only lags behind in the attempts and the repair instructions.   *)
LEMMA LaggingIsSound ==
    ASSUME NEW last, NEW ws, NEW attempts \in [Agents -> Nat], NEW fewer \in [Agents -> Nat],
           NEW meta \in Meta, NEW older \in Meta,
           Sound(last, attempts, ws, meta), Plan(older) = Agents,
           \A a \in Agents : fewer[a] <= attempts[a],
           older.repair => meta.repair,
           last = "developer" => (older.repair <=> meta.repair),
           ws \in WorkState
    PROVE  Sound(last, fewer, ws, older)
<1>1. Plan(meta) = Agents /\ Coherent(last, attempts, ws, meta) /\ ReworkInOrder(last, ws, meta)
  BY DEF Sound
<1>2. Upto(last, older) = Upto(last, meta)
  BY <1>1 DEF Upto
<1>3. ws.rejections \in Nat /\ \A a \in Agents : attempts[a] \in Nat /\ fewer[a] \in Nat
  BY DEF WorkState
<1>4. Budget(fewer, ws)
  <2>1. Budget(attempts, ws)
    BY <1>1 DEF Coherent
  <2>. QED  BY <1>3, <2>1, BudgetAssumption DEF Budget
<1>5. \A a \in Agents :
        /\ ws.finished[a] <= ws.clock
        /\ ws.verdict[a] = "pending" => fewer[a] = 0
        /\ ws.verdict[a] # "pending" => a \in Agents \cup {"developer"}
        /\ ws.verdict[a] = "rejected" => a = "qa"
  <2> SUFFICES ASSUME NEW a \in Agents
               PROVE  /\ ws.finished[a] <= ws.clock
                      /\ ws.verdict[a] = "pending" => fewer[a] = 0
                      /\ ws.verdict[a] = "rejected" => a = "qa"
    OBVIOUS
  <2>1. ws.verdict[a] = "pending" => attempts[a] = 0
    BY <1>1 DEF Coherent
  <2>2. fewer[a] <= attempts[a] /\ fewer[a] \in Nat
    BY <1>3
  <2>. QED  BY <1>1, <2>1, <2>2 DEF Coherent
<1>6. older.repair => ws.rejections > 0
  BY <1>1 DEF Coherent
<1>7. ws.verdict["qa"] = "rejected" =>
        /\ ws.rejections > 0
        /\ fewer["qa"] < MaxAgentAttempts + ws.rejections
        /\ last = "qa" => fewer["developer"] < MaxAgentAttempts + ws.rejections
  <2>1. fewer["qa"] <= attempts["qa"] /\ fewer["developer"] <= attempts["developer"]
    BY DEF Agents
  <2>2. /\ fewer["qa"] \in Nat /\ fewer["developer"] \in Nat
        /\ attempts["qa"] \in Nat /\ attempts["developer"] \in Nat
    BY <1>3 DEF Agents
  <2>3. ws.verdict["qa"] = "rejected" =>
        /\ ws.rejections > 0
        /\ attempts["qa"] < MaxAgentAttempts + ws.rejections
        /\ last = "qa" => attempts["developer"] < MaxAgentAttempts + ws.rejections
    BY <1>1 DEF Coherent
  <2>. QED  BY <1>3, <2>1, <2>2, <2>3, BudgetAssumption
<1>8. last = "developer" => (older.repair <=> ws.rejections > 0)
  <2>1. last = "developer" => (meta.repair <=> ws.rejections > 0)
    BY <1>1, AgentsAreNamed DEF Coherent, Agents
  <2>. QED  BY <2>1
<1>9. Coherent(last, fewer, ws, older)
  BY <1>1, <1>2, <1>4, <1>5, <1>6, <1>7, <1>8 DEF Coherent
<1>10. ReworkInOrder(last, ws, older)
  BY <1>1 DEF ReworkInOrder
<1>. QED  BY <1>9, <1>10 DEF Sound

LEMMA UpdateWriteGoesOn ==
    ASSUME OneCallAtATime, StoreInvariant, NEW s \in Calls, UpdateWrite(s)
    PROVE  GoesOn
<1> DEFINE r == call[s].r
           put == call[s].put
           q == [r EXCEPT !.status = put.status, !.next = put.next]
           e == [NoCall EXCEPT !.pc = AfterSave(s), !.listed = call[s].listed, !.r = q]
<1>1. call[s].pc = "updateWrite" /\ call[s].pc \in AtWork
  BY DEF UpdateWrite, At, AtWork, Saving
<1>2. /\ StoreTypeOK /\ doc \in Document /\ call[s] \in CallShape /\ call[s].copy = doc
      /\ r \in RunShape /\ doc.status # "absent" /\ DocumentStands(doc, asked)
      /\ Sound(r.last, r.attempts, r.ws, r.meta)
      /\ Counted(doc, asked, faults, call[s]) /\ Trails(doc, call[s]) /\ SaveStands(doc, call[s])
  BY <1>1, AtWorkNow DEF Writing
<1>3. /\ put \in Put
      /\ doc.status = put.status /\ doc.newest.status = put.status
      /\ doc.newest.next = put.next /\ doc.newest.active = r.last /\ doc.newest.ws = r.ws
      /\ call[s].back \in {"router", "route"}
  BY <1>1, <1>2 DEF SaveStands, Saving, Updating, CallShape
<1>4. put.status \in {"running", "completed", "failed", "paused"} /\ put.next \in Agents \cup {None}
  BY <1>3 DEF Put
<1>5. /\ doc' = [doc EXCEPT !.status = put.status, !.active = r.last, !.next = put.next,
                            !.attempts = r.attempts, !.meta = r.meta]
      /\ call' = [call EXCEPT ![s] = e] /\ asked' = asked
      /\ UNCHANGED <<canceller, cancels, faults>>
  BY <1>2 DEF UpdateWrite, OnlyStore
<1>6. /\ doc' \in Document /\ doc'.status = doc.status /\ doc'.newest = doc.newest
      /\ doc'.request = doc.request /\ doc'.attempts = r.attempts /\ doc'.meta = r.meta
      /\ doc'.seqs = doc.seqs /\ doc'.owner = doc.owner /\ doc'.locks = doc.locks
  BY <1>2, <1>3, <1>4, <1>5 DEF Document, RunShape, RunStatus
<1>7. /\ q \in RunShape /\ q.status = put.status /\ q.next = put.next /\ q.last = r.last
      /\ q.ws = r.ws /\ q.attempts = r.attempts /\ q.meta = r.meta
  BY <1>2, <1>4 DEF RunShape, RunStatus
<1>. HIDE DEF q
<1>8. AfterSave(s) \in {"router", "agent", "finalRead"}
  BY DEF AfterSave
<1>9. e \in CallShape /\ e.pc = AfterSave(s) /\ e.r = q
  BY <1>2, <1>7, <1>8, NoDocShape DEF CallShape, AtWork, InStage, NoCall
<1>. HIDE DEF e
<1>10. Moves(s) /\ call'[s] = e
  BY <1>2, <1>5, <1>9 DEF Moves, StoreTypeOK
<1>11. DocumentStands(doc', asked')
  BY <1>2, <1>3, <1>5, <1>6 DEF DocumentStands
<1>12. Counted(doc', asked', faults, e)
  <2>1. Budget(r.attempts, r.ws) /\ \A a \in Agents : r.attempts[a] \in Nat
    BY <1>2 DEF RunShape, Sound, Coherent
  <2>2. \A a \in Agents : asked[a] <= r.attempts[a] + faults
    <3>1. faults \in Nat /\ call[s].pc # "running"
      BY <1>1, <1>2 DEF StoreTypeOK
    <3>. QED  BY <1>2, <2>1, <3>1 DEF Counted
  <2>3. e.pc # "running" /\ faults \in Nat
    BY <1>2, <1>8, <1>9 DEF StoreTypeOK
  <2>4. e.r.attempts = r.attempts /\ doc'.newest.ws = r.ws /\ asked' = asked
    BY <1>3, <1>5, <1>6, <1>7, <1>9
  <2>5. ASSUME NEW a \in Agents
        PROVE  /\ doc'.attempts[a] <= e.r.attempts[a] /\ e.r.attempts[a] <= doc'.attempts[a] + 1
               /\ asked'[a] <= e.r.attempts[a] + faults
                                + (IF e.pc = "running" /\ a = e.r.next THEN 1 ELSE 0)
    BY <1>6, <2>1, <2>2, <2>3, <2>4
  <2>6. Budget(e.r.attempts, doc'.newest.ws)
    BY <2>1, <2>4
  <2>. QED  BY <2>5, <2>6 DEF Counted
<1>13. Trails(doc', e) /\ InTurn(doc', e)
  <2>1. CASE call[s].back = "router"
    <3>1. put.status = "running" /\ put.next = None /\ r.last # None /\ AfterSave(s) = "router"
      BY <1>1, <1>2, <2>1 DEF SaveStands, Saving, AfterSave
    <3>. QED  BY <1>2, <1>3, <1>6, <1>7, <1>9, <3>1 DEF Trails, InTurn, InStage, Updating, Saving,
                                                        Answered
  <2>2. CASE call[s].back = "route" /\ put.status = "running"
    <3> DEFINE n == [r EXCEPT !.next = put.next]
    <3>1. put.next \in Agents /\ InHand(n) /\ OnTurn(n)
      BY <1>1, <1>2, <2>2 DEF SaveStands, Saving
    <3>2. AfterSave(s) = "agent"
      BY <2>2, <3>1, AgentsAreNamed DEF AfterSave
    <3>3. n.next = q.next /\ n.ws = q.ws /\ n.meta = q.meta /\ n.attempts = q.attempts
      BY <1>2, <1>7 DEF RunShape
    <3>. HIDE DEF n
    <3>4. InHand(q) /\ OnTurn(q)
      BY <3>1, <3>3 DEF InHand, OnTurn
    <3>. QED  BY <1>2, <1>3, <1>6, <1>7, <1>9, <2>2, <3>1, <3>2, <3>4
              DEF Trails, InTurn, InStage, Updating, Saving, Answered
  <2>3. CASE call[s].back = "route" /\ put.status # "running"
    <3>1. AfterSave(s) = "finalRead"
      BY <2>3 DEF AfterSave
    <3>. QED  BY <1>2, <1>3, <1>6, <1>7, <1>9, <3>1 DEF Trails, InTurn, InStage, Updating, Saving,
                                                        Answered
  <2>. QED  BY <1>3, <2>1, <2>2, <2>3
<1>14. RunStands(doc', asked', faults, e) /\ SaveStands(doc', e)
  BY <1>2, <1>7, <1>8, <1>9, <1>12, <1>13 DEF RunStands, SaveStands, Saving
<1>15. e.pc \in AtWork /\ e.pc \notin Writing
  BY <1>8, <1>9 DEF AtWork, InStage, Writing
<1>16. StoreInvariant'
  <2>1. asked' \in [Agents -> Nat]
    BY <1>2, <1>5 DEF StoreTypeOK
  <2>. QED  BY <1>1, <1>2, <1>5, <1>6, <1>10, <1>11, <1>14, <1>15, <2>1, WritingMoves
<1>17. doc.seqs \in Seq(Nat)
  BY <1>2 DEF Document
<1>. QED  BY <1>6, <1>16, <1>17, SeqsGrow, UnseenStutters DEF GoesOn

(* What the client sees, of a run that has been routed and of one that has *)
(* not.                                                                    *)
SeenPlan == IF doc.newest.status = "absent" THEN {} ELSE Plan(doc.request)
SeenStanding == IF doc.newest.status = "absent" THEN {} ELSE StandingStages

LEMMA SeenStages ==
    ASSUME doc.newest.status # "absent", Plan(doc.request) = Agents
    PROVE  SeenPlan = Agents /\ SeenStanding = Stands(doc.newest.ws)
BY DEF SeenPlan, SeenStanding, StandingStages, Stands, StandingIn

LEMMA ContractOrder == Contract!Agents = Agents /\ Contract!Rank = Rank
BY DEF Contract!Agents, Agents, Contract!Rank, Rank

(* The steps of the contract that a checkpoint can take. *)
LEMMA CheckpointMoves ==
    ASSUME doc.newest.status # "absent", doc'.newest.status # "absent",
           Plan(doc.request) = Agents, Plan(doc'.request) = Agents, doc.status = "running",
           \/ doc'.status = "running" /\ Answers(doc.newest.ws, doc'.newest.ws)
           \/ /\ doc'.newest.ws = doc.newest.ws
              /\ \/ doc'.status \in {"running", "failed"}
                 \/ doc'.status = "completed" /\ Stands(doc.newest.ws) = Agents
                 \/ doc'.status = "paused" /\ Stands(doc.newest.ws) # Agents
    PROVE  Contract!Next \/ UNCHANGED Contract!contract
<1> DEFINE old == doc.newest.ws
           new == doc'.newest.ws
<1>1. SeenPlan = Agents /\ SeenStanding = Stands(old)
  BY SeenStages
<1>2. SeenPlan' = Agents /\ SeenStanding' = Stands(new)
  BY DEF SeenPlan, SeenStanding, StandingStages, Stands, StandingIn
<1>. HIDE DEF old, new
<1>3. CASE doc'.status = "running" /\ Stands(new) = Stands(old) /\ new.rejections = old.rejections
  BY <1>1, <1>2, <1>3 DEF Contract!contract, SeenPlan, SeenStanding, old, new
<1>4. ASSUME doc'.status = "running", new.rejections = old.rejections,
             NEW a \in Agents \ Stands(old), Earlier(a) \subseteq Stands(old),
             Stands(new) = Stands(old) \cup {a}
      PROVE  Contract!Next
  <2>1. {b \in SeenPlan : Rank[b] < Rank[a]} \subseteq SeenStanding
    BY <1>1, <1>4 DEF Earlier
  <2>2. Contract!Before(a) \subseteq SeenStanding
    BY <2>1, ContractOrder DEF Contract!Before, SeenPlan
  <2>3. a \in SeenPlan \ SeenStanding /\ SeenStanding' = SeenStanding \cup {a} /\ SeenPlan' = SeenPlan
    BY <1>1, <1>2, <1>4
  <2>4. Contract!Deliver(a)
    BY <1>4, <2>2, <2>3 DEF Contract!Deliver, SeenPlan, SeenStanding, old, new
  <2>. QED  BY <2>4, ContractOrder DEF Contract!Next
<1>5. ASSUME doc'.status = "running", old.rejections <= MaxQaRejectionLoops,
             new.rejections = old.rejections + 1, "qa" \notin Stands(old),
             Earlier("qa") \subseteq Stands(old), Stands(new) = Stands(old) \ {"developer"}
      PROVE  Contract!Next
  <2>1. {b \in SeenPlan : Rank[b] < Rank["qa"]} \subseteq SeenStanding
    BY <1>1, <1>5 DEF Earlier
  <2>2. "qa" \in SeenPlan \ SeenStanding
    BY <1>1, <1>5 DEF Agents
  <2>3. Contract!Before("qa") \subseteq SeenStanding
    BY <2>1, ContractOrder DEF Contract!Before, SeenPlan
  <2>4. SeenStanding' = SeenStanding \ {"developer"} /\ SeenPlan' = SeenPlan
    BY <1>1, <1>2, <1>5
  <2>5. Contract!Reject
    BY <1>5, <2>2, <2>3, <2>4 DEF Contract!Reject, SeenPlan, SeenStanding, old, new
  <2>. QED  BY <2>5 DEF Contract!Next
<1>6. CASE new = old /\ doc'.status # "running"
  <2>1. SeenPlan' = SeenPlan /\ SeenStanding' = SeenStanding
    BY <1>1, <1>2, <1>6
  <2>2. /\ doc'.status \in {"completed", "failed", "paused"}
        /\ doc'.status = "completed" => SeenStanding = SeenPlan
        /\ doc'.status = "paused" => SeenStanding # SeenPlan
    BY <1>1, <1>6 DEF old
  <2>3. SeenPlan # {}
    BY <1>1 DEF Agents
  <2>4. Contract!Settle
    BY <1>6, <2>1, <2>2, <2>3 DEF Contract!Settle, SeenPlan, SeenStanding, old, new
  <2>. QED  BY <2>4 DEF Contract!Next
<1>7. CASE new = old /\ doc'.status = "running"
  BY <1>3, <1>7
<1>. QED  BY <1>3, <1>4, <1>5, <1>6, <1>7 DEF Answers, old, new

(* The first checkpoint is what the client sees of the plan. *)
LEMMA FirstCheckpointAdopts ==
    ASSUME doc.newest = NoCheckpoint, doc'.newest.status # "absent",
           Plan(doc'.request) = Agents, doc.status = "running", doc'.status = "running",
           doc'.newest.ws = FreshWork
    PROVE  Contract!Next
<1>1. /\ doc.newest.status = "absent" /\ doc.newest.ws.rejections = 0
      /\ doc'.newest.ws.rejections = 0
  BY DEF NoCheckpoint, FreshWork
<1>2. SeenPlan = {} /\ SeenStanding = {} /\ SeenPlan' = Agents /\ SeenStanding' = Stands(FreshWork)
  BY <1>1 DEF SeenPlan, SeenStanding, StandingStages, Stands, StandingIn
<1>3. Stands(FreshWork) = {}
  BY DEF Stands, StandingIn, FreshWork
<1>4. Contract!Adopt(Agents)
  BY <1>1, <1>2, <1>3 DEF Contract!Adopt, SeenPlan, SeenStanding
<1>5. Agents \in (SUBSET Agents) \ {{}}
  BY DEF Agents
<1>. QED  BY <1>4, <1>5, ContractOrder DEF Contract!Next

(* A checkpoint is appended with the number that is its place.             *)
LEMMA NumberedOnceMore ==
    ASSUME NEW q \in Seq(Nat), \A i \in DOMAIN q : q[i] = i - 1
    PROVE  /\ Append(q, Len(q)) \in Seq(Nat)
           /\ \A i \in DOMAIN Append(q, Len(q)) : Append(q, Len(q))[i] = i - 1
           /\ IsPrefix(q, Append(q, Len(q)))
<1>1. Len(q) \in Nat /\ DOMAIN q = 1 .. Len(q)
  OBVIOUS
<1>2. IsPrefix(q, Append(q, Len(q)))
  BY <1>1, SeqsGrow
<1>3. ASSUME NEW i \in DOMAIN Append(q, Len(q))
      PROVE  Append(q, Len(q))[i] = i - 1
  <2>1. i \in 1 .. Len(q) + 1
    BY <1>1
  <2>2. CASE i \in 1 .. Len(q)
    BY <1>1, <2>2
  <2>3. CASE i = Len(q) + 1
    BY <1>1, <2>3
  <2>. QED  BY <1>1, <2>1, <2>2, <2>3
<1>. QED  BY <1>1, <1>2, <1>3

LEMMA AppendWriteGoesOn ==
    ASSUME OneCallAtATime, StoreInvariant, NEW s \in Calls, AppendWrite(s)
    PROVE  GoesOn
<1> DEFINE r == call[s].r
           put == call[s].put
           back == call[s].back
           seqs == Append(doc.seqs, put.seq)
           newest == [status |-> put.status, active |-> r.last, next |-> put.next, ws |-> r.ws]
<1>1. call[s].pc = "appendWrite" /\ call[s].pc \in AtWork
  BY DEF AppendWrite, At, AtWork, Saving
<1>2. /\ StoreTypeOK /\ doc \in Document /\ call[s] \in CallShape /\ call[s].copy = doc
      /\ r \in RunShape /\ doc.status # "absent" /\ DocumentStands(doc, asked)
      /\ Sound(r.last, r.attempts, r.ws, r.meta)
      /\ Counted(doc, asked, faults, call[s]) /\ Trails(doc, call[s]) /\ InTurn(doc, call[s])
      /\ SaveStands(doc, call[s])
  BY <1>1, AtWorkNow DEF Writing
<1>3. /\ put \in Put /\ put.seq = Len(doc.seqs) /\ back \in {"router", "route"}
      /\ back = "router" => put.status = "running" /\ put.next = None /\ r.last # None
      /\ back = "route" =>
           /\ put.status = "completed" => Stands(r.ws) = Agents
           /\ put.status = "paused" => Stands(r.ws) # Agents
           /\ r.last = None => put.status = "running" /\ put.next = FirstOf(Agents)
  BY <1>1, <1>2 DEF SaveStands, Saving, CallShape
<1>4. /\ put.status \in {"running", "completed", "failed", "paused"}
      /\ put.next \in Agents \cup {None} /\ doc.status = "running"
  BY <1>1, <1>2, <1>3 DEF Put, Trails, Updating
<1>5. /\ back = "router" => doc.newest.status # "absent" /\ Answers(doc.newest.ws, r.ws)
      /\ back = "route" =>
           r.ws = doc.newest.ws /\ r.last = doc.newest.active /\ r.attempts = doc.attempts
  BY <1>1, <1>2 DEF InTurn, Trails, Saving, Updating
<1>6. /\ doc' = [doc EXCEPT !.status = put.status, !.active = r.last, !.next = put.next,
                            !.seqs = seqs, !.newest = newest]
      /\ Go(s, "updateRead") /\ asked' = asked
      /\ UNCHANGED <<canceller, cancels, faults>>
  BY <1>2 DEF AppendWrite, OnlyStore, Document
<1>7. /\ seqs \in Seq(Nat) /\ (\A i \in DOMAIN seqs : seqs[i] = i - 1) /\ IsPrefix(doc.seqs, seqs)
  BY <1>2, <1>3, NumberedOnceMore DEF Document, DocumentStands
<1>8. /\ newest \in [status : RunStatus \cup {"absent"}, active : Agents \cup {None},
                     next : Agents \cup {None}, ws : WorkState]
      /\ newest.status = put.status /\ newest.active = r.last /\ newest.next = put.next
      /\ newest.ws = r.ws
  BY <1>2, <1>4 DEF RunShape, RunStatus
<1>. HIDE DEF seqs, newest
<1>9. /\ doc' \in Document /\ doc'.status = put.status /\ doc'.newest = newest
      /\ doc'.request = doc.request /\ doc'.attempts = doc.attempts /\ doc'.meta = doc.meta
      /\ doc'.seqs = seqs /\ doc'.owner = doc.owner /\ doc'.locks = doc.locks
  BY <1>2, <1>4, <1>6, <1>7, <1>8 DEF Document, RunShape, RunStatus
<1>10. Sound(r.last, doc.attempts, r.ws, doc.meta)
  <2>1. /\ r.attempts \in [Agents -> Nat] /\ r.ws \in WorkState /\ r.meta \in Meta
        /\ doc.attempts \in [Agents -> Nat] /\ doc.meta \in Meta
    BY <1>2 DEF RunShape, Document
  <2>2. Plan(doc.meta) = Agents /\ \A a \in Agents : doc.attempts[a] <= r.attempts[a]
    BY <1>2 DEF DocumentStands, Sound, Counted
  <2>3. /\ doc.meta.repair => r.meta.repair
        /\ r.last = "developer" => (doc.meta.repair <=> r.meta.repair)
    BY <1>2 DEF Trails
  <2>. QED  BY <1>2, <2>1, <2>2, <2>3, LaggingIsSound
<1>11. DocumentStands(doc', asked')
  <2>1. newest.active = None /\ newest.status \in {"running", "paused"}
          => newest.next = FirstOf(Agents)
    BY <1>3, <1>8
  <2>. QED  BY <1>2, <1>4, <1>6, <1>7, <1>8, <1>9, <1>10, <2>1 DEF DocumentStands
<1>12. /\ Moves(s) /\ call'[s].pc = "updateRead" /\ call'[s].r = r /\ call'[s].put = put
       /\ call'[s].back = back
  BY <1>2, <1>6, GoMoves DEF AtWork, Saving
<1>13. Counted(doc', asked', faults, call'[s])
  <2>1. Budget(r.attempts, r.ws)
    BY <1>2 DEF Sound, Coherent
  <2>. QED  BY <1>1, <1>2, <1>6, <1>8, <1>9, <1>12, <2>1 DEF Counted
<1>14. Trails(doc', call'[s])
  BY <1>2, <1>4, <1>5, <1>8, <1>9, <1>12 DEF Trails, InStage, Updating, Saving
<1>15. InTurn(doc', call'[s])
  BY <1>12 DEF InTurn, InStage, Answered, Saving, Updating
<1>16. RunStands(doc', asked', faults, call'[s])
  BY <1>2, <1>12, <1>13, <1>14, <1>15 DEF RunStands
<1>17. SaveStands(doc', call'[s])
  BY <1>1, <1>2, <1>8, <1>9, <1>12 DEF SaveStands, Saving, Updating
<1>18. StoreInvariant'
  <2>1. asked' \in [Agents -> Nat] /\ doc'.status # "absent"
    BY <1>2, <1>4, <1>6, <1>9 DEF StoreTypeOK
  <2>2. call'[s].pc \in AtWork /\ call'[s].pc \notin Writing
    BY <1>12 DEF AtWork, Saving, Writing
  <2>. QED  BY <1>1, <1>6, <1>9, <1>11, <1>12, <1>16, <1>17, <2>1, <2>2, WritingMoves
<1>19. IsPrefix(doc.seqs, doc'.seqs)
  BY <1>7, <1>9
<1>20. /\ doc'.newest.status # "absent" /\ doc'.newest.ws = r.ws
       /\ Plan(doc.request) = Agents /\ Plan(doc'.request) = Agents
  BY <1>2, <1>4, <1>8, <1>9 DEF DocumentStands
<1>21. Contract!Next \/ UNCHANGED Contract!contract
  <2>1. CASE back = "router"
    BY <1>3, <1>4, <1>5, <1>9, <1>20, <2>1, CheckpointMoves
  <2>2. CASE back = "route" /\ doc.newest.status = "absent"
    <3>1. doc.newest = NoCheckpoint
      BY <1>2, <2>2 DEF DocumentStands
    <3>2. r.last = None /\ r.ws = FreshWork
      BY <1>5, <2>2, <3>1 DEF NoCheckpoint
    <3>. QED  BY <1>3, <1>4, <1>9, <1>20, <2>2, <3>1, <3>2, FirstCheckpointAdopts
  <2>3. CASE back = "route" /\ doc.newest.status # "absent"
    <3>1. doc'.newest.ws = doc.newest.ws
      BY <1>5, <1>20, <2>3
    <3>2. \/ doc'.status \in {"running", "failed"}
          \/ doc'.status = "completed" /\ Stands(doc.newest.ws) = Agents
          \/ doc'.status = "paused" /\ Stands(doc.newest.ws) # Agents
      BY <1>3, <1>4, <1>5, <1>9, <2>3
    <3>. QED  BY <1>4, <1>20, <2>3, <3>1, <3>2, CheckpointMoves
  <2>. QED  BY <1>3, <2>1, <2>2, <2>3
<1>. QED  BY <1>18, <1>19, <1>21 DEF GoesOn

(* A recovery takes up what the checkpoint left; a client sees no more of  *)
(* it than that a paused run goes on.                                      *)
LEMMA RecoverWriteGoesOn ==
    ASSUME OneCallAtATime, StoreInvariant, NEW s \in Calls, RecoverWrite(s)
    PROVE  GoesOn
<1> DEFINE r == call[s].r
<1>1. /\ StoreTypeOK /\ call[s].pc = "recoverWrite" /\ call[s] \in CallShape
      /\ CallStands(doc, asked, faults, call[s]) /\ doc \in Document
      /\ DocumentStands(doc, asked)
  BY DEF RecoverWrite, At, StoreInvariant, StoreTypeOK
<1>2. OthersIdle(s)
  BY <1>1, WorkingAlone DEF At
<1>3. /\ doc.status # "absent" /\ doc.newest.status \in {"running", "paused"}
      /\ r.status = "running" /\ r.next = doc.newest.next
      /\ r.last = doc.newest.active /\ r.ws = doc.newest.ws
      /\ r.attempts = doc.attempts /\ r.meta = [doc.meta EXCEPT !.pauseAfter = None]
      /\ call[s].copy = doc /\ r \in RunShape
  BY <1>1 DEF CallStands, RecoveryStands, Recovering, Writing, CallShape
<1>4. /\ doc' = [doc EXCEPT !.status = "running", !.next = r.next] /\ Go(s, "router")
      /\ asked' = asked /\ canceller' = canceller /\ cancels' = cancels /\ faults' = faults
  BY <1>3 DEF RecoverWrite, OnlyStore
<1>5. /\ doc' \in Document /\ doc'.status = "running" /\ doc'.newest = doc.newest
      /\ doc'.request = doc.request /\ doc'.attempts = doc.attempts /\ doc'.meta = doc.meta
      /\ doc'.seqs = doc.seqs /\ doc'.owner = doc.owner /\ doc'.locks = doc.locks
  BY <1>1, <1>3, <1>4 DEF Document, RunShape, RunStatus
<1>6. Moves(s) /\ call'[s].pc = "router" /\ call'[s].r = r
  BY <1>1, <1>4, GoMoves DEF AtWork
<1>7. DocumentStands(doc', asked')
  BY <1>1, <1>3, <1>4, <1>5 DEF DocumentStands
<1>8. /\ Sound(r.last, r.attempts, r.ws, r.meta) /\ (doc.meta.repair <=> r.meta.repair)
  <2>1. doc.meta \in Meta /\ Sound(doc.newest.active, doc.attempts, doc.newest.ws, doc.meta)
    BY <1>1 DEF Document, DocumentStands
  <2>2. Coherent(r.last, r.attempts, r.ws, r.meta)
    BY <1>3, <2>1, CoherentIgnoresPause DEF Sound
  <2>3. r.meta.repair = doc.meta.repair /\ Plan(r.meta) = Plan(doc.meta)
    BY <1>3, <2>1 DEF Plan, Meta
  <2>. QED  BY <1>3, <2>1, <2>2, <2>3 DEF Sound, ReworkInOrder
<1>9. \A a \in Agents : asked[a] <= doc.attempts[a] + faults
  BY <1>1, <1>2 DEF StoreInvariant, NothingIsPending, OthersIdle, AtWork, Saving, InStage,
                          Answered
<1>10. Counted(doc', asked', faults', call'[s])
  <2>1. Budget(r.attempts, doc.newest.ws)
    BY <1>3, <1>8 DEF Sound, Coherent
  <2>2. faults \in Nat /\ \A a \in Agents : doc.attempts[a] \in Nat
    BY <1>1 DEF StoreTypeOK, Document
  <2>. QED  BY <1>3, <1>4, <1>5, <1>6, <1>9, <2>1, <2>2 DEF Counted
<1>11. r.last = None => r.next = FirstOf(Agents)
  BY <1>1, <1>3 DEF DocumentStands
<1>12. Trails(doc', call'[s]) /\ InTurn(doc', call'[s])
  BY <1>3, <1>5, <1>6, <1>8, <1>11 DEF Trails, InTurn, InStage, Updating, Saving, Answered
<1>13. CallStands(doc', asked', faults', call'[s])
  BY <1>6, <1>8, <1>10, <1>12 DEF CallStands, RecoveryStands, RunStands, SaveStands, Recovering,
                                  Writing, Saving
<1>14. /\ asked' \in [Agents -> Nat] /\ faults' \in Nat /\ canceller' = Nothing /\ cancels' = 0
       /\ call'[s].pc \in AtWork /\ doc'.status # "absent"
  BY <1>1, <1>4, <1>5, <1>6 DEF StoreTypeOK, AtWork
<1>15. StoreInvariant'
  BY <1>1, <1>2, <1>5, <1>6, <1>7, <1>13, <1>14, OneMoves
<1>16. IsPrefix(doc.seqs, doc'.seqs)
  BY <1>1, <1>5, SeqsGrow DEF Document
<1>17. Contract!Next \/ UNCHANGED Contract!contract
  <2>1. CASE doc.status = "running"
    BY <1>5, <2>1, UnseenStutters
  <2>2. CASE doc.status = "paused"
    <3>1. Contract!Resume
      BY <1>5, <2>2 DEF Contract!Resume, StandingStages
    <3>. QED  BY <3>1 DEF Contract!Next
  <2>. QED  BY <1>1, <1>3, <2>1, <2>2 DEF DocumentStands
<1>. QED  BY <1>15, <1>16, <1>17 DEF GoesOn

(* A new execution: nothing is stored yet but its record. *)
LEMMA StartGoesOn ==
    ASSUME OneCallAtATime, StoreInvariant, NEW s \in Calls, NEW request \in Requests,
           Start(s, request)
    PROVE  GoesOn
<1> DEFINE r == [FreshRun EXCEPT !.meta = request, !.next = FirstOf(Plan(request))]
           e == [call[s] EXCEPT !.pc = "router", !.r = r]
<1>1. /\ StoreTypeOK /\ call[s] \in CallShape /\ doc \in Document /\ DocumentStands(doc, asked)
      /\ doc.status = "absent" /\ OthersIdle(s)
  BY BeginsAlone DEF Start, StoreInvariant, StoreTypeOK
<1>2. request \in Meta /\ ~request.repair /\ Plan(request) = Agents
  BY StoreAssumption DEF OneCallAtATime
<1>3. FirstOf(Agents) \in Agents
  BY FirstOfIsFirst DEF Agents
<1>4. /\ doc' = [NoDoc EXCEPT !.status = "running", !.owner = CreatedBy,
                              !.request = request, !.next = FirstOf(Agents)]
      /\ asked' = asked /\ canceller' = canceller /\ cancels' = cancels /\ faults' = faults
  BY <1>2 DEF Start, OnlyStore
<1>5. /\ doc' \in Document /\ doc'.status = "running" /\ doc'.newest = NoCheckpoint
      /\ doc'.request = request /\ doc'.attempts = [a \in Agents |-> 0] /\ doc'.meta = NoMeta
      /\ doc'.seqs = <<>> /\ doc'.owner = CreatedBy /\ \A a \in Agents : doc'.locks[a] = None
  <2>1. CreatedBy \in {"backend", "langgraph-worker", None}
    BY StoreAssumption
  <2>2. doc' \in Document
    BY <1>2, <1>3, <1>4, <2>1, NoDocShape DEF Document, RunStatus
  <2>. QED  BY <1>4, <2>2 DEF NoDoc
<1>6. /\ r \in RunShape /\ r.status = "running" /\ r.next = FirstOf(Agents) /\ r.last = None
      /\ r.attempts = [a \in Agents |-> 0] /\ r.ws = FreshWork /\ r.meta = request
  BY <1>2, <1>3, FreshRunShape DEF RunShape, FreshRun
<1>7. call' = [call EXCEPT ![s] = e]
  BY <1>1 DEF Start, StoreTypeOK
<1>. HIDE DEF r
<1>8. e \in CallShape /\ e.pc = "router" /\ e.r = r
  BY <1>1, <1>6 DEF CallShape, AtWork
<1>. HIDE DEF e
<1>9. Moves(s) /\ call'[s].pc = "router" /\ call'[s].r = r
  BY <1>1, <1>7, <1>8 DEF Moves, StoreTypeOK
<1>10. \A meta \in Meta : ~meta.repair /\ Plan(meta) = Agents
         => Sound(None, [a \in Agents |-> 0], FreshWork, meta)
  BY FreshIsCoherent, AgentsAreNamed DEF Sound, ReworkInOrder, ReworkPending, FreshWork, Agents, None
<1>11. /\ NoMeta \in Meta /\ ~NoMeta.repair /\ Plan(NoMeta) = Agents
       /\ NoCheckpoint.active = None /\ NoCheckpoint.ws = FreshWork /\ NoCheckpoint.status = "absent"
  BY FreshRunShape DEF NoMeta, Plan, NoCheckpoint
<1>12. \A a \in Agents : asked'[a] = 0
  BY <1>1, <1>4 DEF DocumentStands
<1>13. DocumentStands(doc', asked')
  BY <1>2, <1>5, <1>10, <1>11 DEF DocumentStands
<1>14. Sound(r.last, r.attempts, r.ws, r.meta)
  BY <1>2, <1>6, <1>10
<1>15. Counted(doc', asked', faults', call'[s])
  <2>1. Budget(r.attempts, FreshWork)
    BY <1>6, <1>14 DEF Sound, Coherent
  <2>2. faults' \in Nat
    BY <1>1, <1>4 DEF StoreTypeOK
  <2>. QED  BY <1>5, <1>6, <1>9, <1>11, <1>12, <2>1, <2>2 DEF Counted
<1>16. Trails(doc', call'[s]) /\ InTurn(doc', call'[s])
  BY <1>2, <1>5, <1>6, <1>9, <1>11 DEF Trails, InTurn, InStage, Updating, Saving, Answered
<1>17. CallStands(doc', asked', faults', call'[s])
  BY <1>9, <1>14, <1>15, <1>16 DEF CallStands, RecoveryStands, RunStands, SaveStands, Recovering,
                                  Writing, Saving
<1>18. /\ asked' \in [Agents -> Nat] /\ faults' \in Nat /\ canceller' = Nothing /\ cancels' = 0
       /\ call'[s].pc \in AtWork /\ doc'.status # "absent"
  BY <1>1, <1>4, <1>5, <1>9 DEF StoreTypeOK, AtWork
<1>19. StoreInvariant'
  BY <1>1, <1>5, <1>9, <1>13, <1>17, <1>18, OneMoves
<1>20. IsPrefix(doc.seqs, doc'.seqs)
  <2>1. doc.seqs = <<>> /\ doc.seqs \in Seq(Nat)
    BY <1>1 DEF DocumentStands, Document
  <2>. QED  BY <1>5, <2>1, SeqsGrow
<1>21. Contract!Next
  <2>1. doc.newest = NoCheckpoint
    BY <1>1 DEF DocumentStands
  <2>2. Contract!Begin
    BY <1>1, <1>5, <1>11, <2>1 DEF Contract!Begin, StandingStages
  <2>. QED  BY <2>2 DEF Contract!Next
<1>. QED  BY <1>19, <1>20, <1>21 DEF GoesOn

-----------------------------------------------------------------------------
LEMMA StepGoesOn ==
    ASSUME OneCallAtATime, StoreInvariant, NEW s \in Calls, Step(s)
    PROVE  GoesOn
<1>1. call[s].pc \in {"idle"} \cup Recovering \cup AtWork
  BY DEF StoreInvariant, StoreTypeOK, CallShape
<1>2. ~RecoverStatus(s) /\ ~RecoveryFailed(s) /\ ~FinalWrite(s)
  BY <1>1 DEF RecoverStatus, RecoveryFailed, FinalWrite, At, Recovering, AtWork, Saving, InStage,
              Answered
<1>3. CASE RecoverCheckpoint(s) \/ RecoverRecord(s) \/ RecoverWrite(s)
  BY <1>3, RecoverCheckpointGoesOn, RecoverRecordGoesOn, RecoverWriteGoesOn
<1>4. CASE Route(s) \/ FinalRead(s)
  BY <1>4, RouteGoesOn, FinalReadGoesOn
<1>5. CASE PersistRead(s) \/ AppendRead(s) \/ AppendWrite(s) \/ UpdateRead(s) \/ UpdateWrite(s)
  BY <1>5, PersistReadGoesOn, AppendReadGoesOn, AppendWriteGoesOn, UpdateReadGoesOn,
     UpdateWriteGoesOn
<1>6. CASE AgentRead(s) \/ LockRead(s) \/ LockWrite(s)
  BY <1>6, AgentReadGoesOn, LockReadGoesOn, LockWriteGoesOn
<1>7. ASSUME NEW v \in VerdictsOf(call[s].r.next), AgentAnswers(s, v)
      PROVE  GoesOn
  BY <1>7, AgentAnswersGoesOn
<1>8. CASE UnlockRead(s) \/ UnlockWrite(s) \/ AgentReturns(s)
  BY <1>8, UnlockReadGoesOn, UnlockWriteGoesOn, AgentReturnsGoesOn
<1>. QED  BY <1>2, <1>3, <1>4, <1>5, <1>6, <1>7, <1>8 DEF Step

LEMMA StillGoesOn ==
    ASSUME StoreInvariant, UNCHANGED vars
    PROVE  GoesOn
<1>1. StoreInvariant'
  BY DEF vars, StoreInvariant, StoreTypeOK, NothingIsPending, At
<1>2. doc' = doc /\ doc.seqs \in Seq(Nat)
  BY DEF vars, StoreInvariant, StoreTypeOK, Document
<1>. QED  BY <1>1, <1>2, SeqsGrow, UnseenStutters DEF GoesOn

LEMMA NextGoesOn ==
    ASSUME OneCallAtATime, StoreInvariant, [Next]_vars
    PROVE  GoesOn
<1>1. /\ canceller = Nothing /\ cancels = 0 /\ MaxCancels = 0 /\ Workers = {}
  BY DEF StoreInvariant, StoreTypeOK, OneCallAtATime
<1>2. ~CancelRead /\ ~CancelWrite /\ \A s \in Calls : ~Sweep(s)
  BY <1>1 DEF CancelRead, CancelWrite, Sweep
<1>3. ASSUME NEW s \in Calls, NEW request \in Requests, Start(s, request) PROVE GoesOn
  BY <1>3, StartGoesOn
<1>4. ASSUME NEW s \in Calls, Recover(s) PROVE GoesOn
  BY <1>4, RecoverGoesOn
<1>5. ASSUME NEW s \in Calls, Step(s) PROVE GoesOn
  BY <1>5, StepGoesOn
<1>6. ASSUME NEW s \in Calls, Interrupt(s) PROVE GoesOn
  BY <1>6, InterruptGoesOn
<1>7. CASE UNCHANGED vars
  BY <1>7, StillGoesOn
<1>. QED  BY <1>2, <1>3, <1>4, <1>5, <1>6, <1>7, WorkersAreOut DEF Next

LEMMA InitGoesOn ==
    ASSUME OneCallAtATime, Init
    PROVE  StoreInvariant /\ Contract!Init
<1>1. /\ doc = NoDoc /\ canceller = Nothing /\ cancels = 0 /\ faults = 0
      /\ asked = [a \in Agents |-> 0] /\ call = [s \in Calls |-> NoCall]
  BY WorkersAreOut DEF Init
<1>2. StoreTypeOK
  BY <1>1, NoDocShape DEF StoreTypeOK
<1>3. /\ NoDoc.status = "absent" /\ NoDoc.newest = NoCheckpoint /\ NoDoc.request = NoMeta
      /\ NoDoc.meta = NoMeta /\ NoDoc.attempts = [a \in Agents |-> 0] /\ NoDoc.seqs = <<>>
      /\ \A a \in Agents : NoDoc.locks[a] = None
  BY DEF NoDoc
<1>4. /\ NoMeta \in Meta /\ ~NoMeta.repair /\ Plan(NoMeta) = Agents
      /\ NoCheckpoint.active = None /\ NoCheckpoint.ws = FreshWork /\ NoCheckpoint.status = "absent"
  BY FreshRunShape DEF NoMeta, Plan, NoCheckpoint
<1>5. Sound(None, [a \in Agents |-> 0], FreshWork, NoMeta)
  BY <1>4, FreshIsCoherent, AgentsAreNamed
     DEF Sound, ReworkInOrder, ReworkPending, FreshWork, Agents, None
<1>6. DocumentStands(doc, asked)
  BY <1>1, <1>3, <1>4, <1>5 DEF DocumentStands
<1>7. NoCall.pc = "idle"
  BY DEF NoCall
<1>8. \A s \in Calls : call[s].pc = "idle"
  BY <1>1, <1>7
<1>9. NothingIsPending
  BY <1>1, <1>3 DEF NothingIsPending
<1>10. \A s \in Calls : CallStands(doc, asked, faults, call[s])
  BY <1>8, IdleStands
<1>11. StoreInvariant
  BY <1>2, <1>6, <1>8, <1>9, <1>10 DEF StoreInvariant, At
<1>12. Contract!Init
  BY <1>1, <1>3, <1>4 DEF Contract!Init, FreshWork
<1>. QED  BY <1>11, <1>12

(* The inductive invariant: one call at a time trails the document by what *)
(* it has not stored yet, and never by more than an attempt of one agent.  *)
THEOREM StoreStaysSound == OneCallAtATime => (Spec => []StoreInvariant)
<1> SUFFICES ASSUME OneCallAtATime PROVE Spec => []StoreInvariant
  OBVIOUS
<1>1. Init => StoreInvariant
  BY InitGoesOn
<1>2. StoreInvariant /\ [Next]_vars => StoreInvariant'
  BY NextGoesOn DEF GoesOn
<1>. QED  BY <1>1, <1>2, PTL DEF Spec

(* The execution behind the store implements the delivery contract for     *)
(* requests of the whole sequence, whatever the budgets and however many   *)
(* calls die between any two store operations and are recovered: a client  *)
(* sees stages delivered in order on standing work, bounded rejections,    *)
(* and no completion but of the whole sequence (persistence.py).           *)
THEOREM StoreImplementsContract == OneCallAtATime => (Spec => ImplementsContract)
<1> SUFFICES ASSUME OneCallAtATime PROVE Spec => ImplementsContract
  OBVIOUS
<1>1. Init => Contract!Init
  BY InitGoesOn
<1>2. StoreInvariant /\ [Next]_vars => [Contract!Next]_(Contract!contract)
  BY NextGoesOn DEF GoesOn
<1>. QED  BY <1>1, <1>2, StoreStaysSound, PTL DEF Spec, ImplementsContract, Contract!Spec

(* What the invariant says of the attempts, the checkpoints and the stages.*)
LEMMA InvariantCosts ==
    ASSUME OneCallAtATime, StoreInvariant
    PROVE  /\ ACrashCostsOneAttempt /\ CheckpointsAreNumbered
           /\ StagesBuildOnStandingWork /\ CompletedWorkIsKept
<1>1. /\ StoreTypeOK /\ DocumentStands(doc, asked) /\ doc \in Document /\ faults \in Nat
      /\ asked \in [Agents -> Nat] /\ doc.newest.ws \in WorkState
  BY DEF StoreInvariant, StoreTypeOK, Document
<1>2. ASSUME NEW s \in Calls, At(s, "running")
      PROVE  /\ InHand(call[s].r) /\ call[s].r.ws = doc.newest.ws
             /\ Plan(call[s].r.meta) = Agents /\ Plan(doc.request) = Agents
             /\ call[s].r.attempts = doc.attempts /\ Counted(doc, asked, faults, call[s])
  <2>1. call[s].pc = "running" /\ call[s].pc \in AtWork /\ call[s].pc \in InStage
    BY <1>2 DEF At, AtWork, InStage
  <2>2. /\ Sound(call[s].r.last, call[s].r.attempts, call[s].r.ws, call[s].r.meta)
        /\ Counted(doc, asked, faults, call[s]) /\ Trails(doc, call[s]) /\ InTurn(doc, call[s])
    BY <2>1, AtWorkNow
  <2>. QED  BY <1>1, <2>1, <2>2 DEF Sound, Trails, InTurn, DocumentStands
<1>3. StagesBuildOnStandingWork
  BY <1>2, WorkersAreOut DEF StagesBuildOnStandingWork, InHand, Upto
<1>4. CompletedWorkIsKept
  BY <1>2, WorkersAreOut DEF CompletedWorkIsKept, InHand, InRework
<1>5. CheckpointsAreNumbered
  BY <1>1 DEF DocumentStands, CheckpointsAreNumbered
<1>6. ASSUME NEW a \in Agents
      PROVE  asked[a] <= MaxAgentAttempts + faults
                 + (IF a \in {"developer", "qa"} THEN doc.newest.ws.rejections ELSE 0)
  <2> DEFINE more == IF a \in {"developer", "qa"} THEN doc.newest.ws.rejections ELSE 0
  <2>1. more \in Nat /\ asked[a] \in Nat /\ doc.attempts[a] \in Nat /\ MaxAgentAttempts \in Nat
    BY <1>1, BudgetAssumption DEF WorkState, Document
  <2>2. CASE \A s \in Calls : call[s].pc \notin AtWork
    <3>1. asked[a] <= doc.attempts[a] + faults
      BY <2>2 DEF StoreInvariant, NothingIsPending
    <3>2. doc.attempts[a] <= MaxAgentAttempts + more
      BY <1>1 DEF DocumentStands, Sound, Coherent, Budget
    <3>. HIDE DEF more
    <3>3. asked[a] <= MaxAgentAttempts + faults + more
      BY <1>1, <2>1, <3>1, <3>2
    <3>. QED  BY <3>3 DEF more
  <2>3. ASSUME NEW s \in Calls, call[s].pc \in AtWork
        PROVE  asked[a] <= MaxAgentAttempts + faults + more
    <3> DEFINE one == IF call[s].pc = "running" /\ a = call[s].r.next THEN 1 ELSE 0
               mine == call[s].r.attempts[a]
    <3>1. Counted(doc, asked, faults, call[s]) /\ mine \in Nat
      BY <2>3, AtWorkNow DEF RunShape
    <3>2. asked[a] <= mine + faults + one /\ one \in {0, 1}
      BY <3>1 DEF Counted
    <3>3. mine <= MaxAgentAttempts + more
      BY <3>1 DEF Counted, Budget
    <3>4. one = 1 => mine < MaxAgentAttempts + more
      <4> SUFFICES ASSUME one = 1 PROVE mine < MaxAgentAttempts + more
        OBVIOUS
      <4>1. InHand(call[s].r) /\ call[s].r.ws = doc.newest.ws /\ a = call[s].r.next
        BY <1>2 DEF At
      <4>. QED  BY <4>1 DEF InHand
    <3>. HIDE DEF one, mine, more
    <3>. QED  BY <1>1, <2>1, <3>1, <3>2, <3>3, <3>4
  <2>. QED  BY <2>2, <2>3
<1>. QED  BY <1>3, <1>4, <1>5, <1>6 DEF ACrashCostsOneAttempt

(* A crash between any two store operations costs at most one attempt of   *)
(* one agent, and never a checkpoint, its number, a completed stage or the *)
(* order of the stages.                                                    *)
THEOREM CrashesAlwaysCostOneAttempt == OneCallAtATime => (Spec => CrashesCostOneAttempt)
<1> SUFFICES ASSUME OneCallAtATime PROVE Spec => CrashesCostOneAttempt
  OBVIOUS
<1>1. StoreInvariant =>
        /\ ACrashCostsOneAttempt /\ CheckpointsAreNumbered
        /\ StagesBuildOnStandingWork /\ CompletedWorkIsKept
  BY InvariantCosts
<1>2. StoreInvariant /\ [Next]_vars => IsPrefix(doc.seqs, doc'.seqs)
  BY NextGoesOn DEF GoesOn
<1>. QED  BY <1>1, <1>2, StoreStaysSound, PTL DEF Spec, CrashesCostOneAttempt
=============================================================================
