---------------------------- MODULE AgentProofs ----------------------------
(* Theorems about AgentChat, for every set of actions and look-ups and every   *)
(* value of the bounds: whatever the streams carry and wherever they are cut.  *)
EXTENDS AgentChat, SequenceTheorems, FiniteSetTheorems, TLAPS

Readers == {"reading", "aborted", "closing", "over"}

Frames ==
    [kind: {"tool", "error", "cut"}]
    \cup [kind: {"toolDone"}, status: {"success", "error"}, call: Nat]
    \cup [kind: {"completed"}, status: {"completed", "other"}, long: BOOLEAN, token: Nat]

(* AgentTypeOK with the frames typed, and what is kept per run or per token as *)
(* sequences that grow together.                                               *)
Typed ==
    /\ turns \in Seq(ChatTurns)
    /\ toolActivity \in Seq(Settled \cup {"running"})
    /\ loading \in BOOLEAN
    /\ confirmationInFlight \in BOOLEAN
    /\ server \in Seq(Requests)
    /\ \A r \in Runs : IsFiniteSet(server[r].called)
    /\ reader \in Seq(Readers) /\ Len(reader) = Len(server)
    /\ linked \in Seq(BOOLEAN) /\ Len(linked) = Len(server)
    /\ wire \in Seq(Seq(Frames)) /\ Len(wire) = Len(server)
    /\ unnoticed \subseteq Runs
    /\ activeController \in {None} \cup Runs
    /\ tokens \in Seq(Actions)
    /\ taken \in Seq(Seq(Actions)) /\ Len(taken) = Len(tokens)
    /\ expired \in 0 .. Len(tokens)
    /\ confirmed \subseteq DOMAIN tokens

(* Whatever names a proposal, names one that was made; a request carries a token *)
(* only because the user confirmed it, and changes data only if it carries one.  *)
TokensNamed ==
    /\ pendingConfirmation \in {None} \cup DOMAIN tokens
    /\ \A r \in Runs :
           /\ server[r].offer \in {None} \cup DOMAIN tokens
           /\ server[r].token \in {None} \cup confirmed
           /\ \A k \in DOMAIN wire[r] :
                  wire[r][k].kind = "completed" => wire[r][k].token \in {None} \cup DOMAIN tokens
    /\ \A r \in unnoticed : server[r].token # None

(* The run the store holds is the one the last turn waits for. *)
RunsMatchTurns ==
    /\ \A i \in DOMAIN turns : turns[i].run \in Runs
    /\ \A i, j \in DOMAIN turns : i < j => turns[i].run < turns[j].run
    /\ \A i \in DOMAIN turns : turns[i].status = "sending" => loading /\ i = Len(turns)
    /\ loading =>
           /\ turns # <<>>
           /\ turns[Len(turns)].status = "sending"
           /\ turns[Len(turns)].run = activeController
           /\ activeController # None
           /\ confirmationInFlight <=> server[activeController].token # None
    /\ confirmationInFlight => loading
    /\ activeController # None =>
           (loading <=> reader[activeController] \in {"reading", "aborted"})

Reading(r) == r # None /\ activeController = r /\ reader[r] = "reading"

Open == \E i \in DOMAIN toolActivity : toolActivity[i] = "running"

(* How many frames of the run the steps on screen stand for: two for each step *)
(* that was answered, one for the step that is running.                        *)
Applied == 2 * Len(toolActivity) - IF Open THEN 1 ELSE 0

Odd(n) == \E m \in Nat : n = 2 * m + 1

(* How many frames the loop has written for the tools of a request. *)
Position(request) ==
    2 * Cardinality(request.called) - IF request.phase = "handling" THEN 1 ELSE 0

(* The stream of a run goes on where the steps on screen stop, and ends where *)
(* the loop at the server is.                                                 *)
Continues(r) ==
    /\ \A k \in DOMAIN wire[r] :
          /\ wire[r][k].kind \in {"tool", "completed"} => Odd(Applied + k)
          /\ wire[r][k].kind = "toolDone" => Applied + k = 2 * wire[r][k].call
    /\ linked[r] /\ server[r].phase # "over" =>
          Applied + Len(wire[r]) = Position(server[r])

StreamInOrder == \A r \in Runs : Reading(r) => Continues(r)

(* Only the last step can be running, and only while an exchange goes on. *)
StepsSettled ==
    /\ \A i \in DOMAIN toolActivity : toolActivity[i] = "running" => i = Len(toolActivity)
    /\ Open => loading

(* A message sent after one that was too long gets no answer. *)
OversizedUnanswered ==
    \A r \in Runs :
        Reading(r) /\ (\E i \in DOMAIN turns : i < Len(turns) /\ turns[i].long) =>
            /\ ~server[r].fits
            /\ \A k \in DOMAIN wire[r] : wire[r][k].kind # "completed"

IInv ==
    /\ Typed
    /\ TokensNamed
    /\ RunsMatchTurns
    /\ StepsSettled
    /\ StreamInOrder
    /\ PendingIsLatestProposal
    /\ OversizedUnanswered
    /\ OversizedHistorySticks

(* A position counts frames. *)
LEMMA PositionCounts ==
    ASSUME NEW request, IsFiniteSet(request.called) PROVE Position(request) \in Int
<1>1. Cardinality(request.called) \in Nat
  BY FS_CardinalityType
<1> QED BY <1>1 DEF Position

(* The initial states satisfy the invariant. *)
LEMMA InitHolds == AgentInit => IInv
<1>. SUFFICES ASSUME AgentInit PROVE IInv
  OBVIOUS
<1>. USE DEF AgentInit, ConfirmationsInit, None
<1>. Len(<<>>) = 0 /\ DOMAIN <<>> = {}
  OBVIOUS
<1>1. /\ turns \in Seq(ChatTurns) /\ toolActivity \in Seq(Settled \cup {"running"})
      /\ server \in Seq(Requests) /\ reader \in Seq(Readers)
  OBVIOUS
<1>2. /\ linked \in Seq(BOOLEAN) /\ wire \in Seq(Seq(Frames))
      /\ tokens \in Seq(Actions) /\ taken \in Seq(Seq(Actions))
  OBVIOUS
<1>3. /\ loading \in BOOLEAN /\ confirmationInFlight \in BOOLEAN
      /\ Len(reader) = Len(server) /\ Len(linked) = Len(server) /\ Len(wire) = Len(server)
      /\ Len(taken) = Len(tokens) /\ activeController \in {None} \cup Runs
  OBVIOUS
<1>4. /\ expired \in 0 .. Len(tokens) /\ unnoticed \subseteq Runs /\ confirmed \subseteq DOMAIN tokens
  OBVIOUS
<1>5. \A r \in Runs : IsFiniteSet(server[r].called)
  BY DEF Runs
<1>6. Typed
  BY <1>1, <1>2, <1>3, <1>4, <1>5 DEF Typed
<1>7. TokensNamed /\ RunsMatchTurns /\ StepsSettled /\ StreamInOrder
  BY DEF TokensNamed, RunsMatchTurns, StepsSettled, Open, StreamInOrder, Runs
<1>8. PendingIsLatestProposal /\ OversizedUnanswered /\ OversizedHistorySticks
  BY DEF PendingIsLatestProposal, OversizedUnanswered, OversizedHistorySticks, Runs
<1> QED BY <1>6, <1>7, <1>8 DEF IInv

(* A stream whose run, steps, frames and connection stay goes on as it did. *)
LEMMA StreamUntouched ==
    ASSUME NEW r, Continues(r), toolActivity' = toolActivity, wire'[r] = wire[r],
           linked'[r] = linked[r], server'[r] = server[r]
    PROVE  Continues(r)'
  BY DEF Continues, Applied, Open, Position

(* The passing of time disturbs nothing but the tokens. *)
LEMMA TokenExpiresKeeps == IInv /\ TokenExpires => IInv'
<1>. SUFFICES ASSUME IInv, TokenExpires PROVE IInv'
  OBVIOUS
<1>. USE DEF TokenExpires, Expire, storeVars, IInv, Runs
<1>1. Typed'
  BY DEF Typed
<1>2. TokensNamed' /\ RunsMatchTurns' /\ StepsSettled' 
  BY DEF TokensNamed, RunsMatchTurns, StepsSettled, Open
<1>3. StreamInOrder'
  BY StreamUntouched DEF StreamInOrder, Reading
<1>4. PendingIsLatestProposal' /\ OversizedUnanswered' /\ OversizedHistorySticks'
  BY DEF PendingIsLatestProposal, OversizedUnanswered, OversizedHistorySticks, Reading
<1> QED BY <1>1, <1>2, <1>3, <1>4

(* The client is done with a run. *)
LEMMA FinallyKeeps == ASSUME IInv, NEW r \in Runs, Finally(r) PROVE IInv'
<1>. USE DEF Finally, IsCurrentRun, IInv, Runs, confirmationVars
<1>0. /\ reader' \in Seq(Readers) /\ Len(reader') = Len(reader)
      /\ \A s \in Runs : reader'[s] = IF s = r THEN "over" ELSE reader[s]
  BY DEF Typed, Readers
<1>1. Typed'
  BY <1>0 DEF Typed, None
<1>2. TokensNamed'
  BY DEF TokensNamed
<1>3. RunsMatchTurns'
  BY <1>0 DEF RunsMatchTurns, Typed, None
<1>4. StepsSettled'
  BY DEF StepsSettled, Open
<1>5. \A s \in Runs : Reading(s)' => Reading(s)
  BY <1>0 DEF Reading
<1>6. StreamInOrder'
  BY <1>5, StreamUntouched DEF StreamInOrder
<1>7. PendingIsLatestProposal' /\ OversizedUnanswered' /\ OversizedHistorySticks'
  BY <1>5 DEF PendingIsLatestProposal, OversizedUnanswered, OversizedHistorySticks
<1> QED BY <1>1, <1>2, <1>3, <1>4, <1>6, <1>7

(* A frame the loop may add to a stream that has followed it so far. *)
Follows(r, frame) ==
    /\ frame.kind \in {"tool", "completed"} => Odd(Position(server[r]) + 1)
    /\ frame.kind = "toolDone" => Position(server[r]) + 1 = 2 * frame.call
    /\ frame.kind = "completed" =>
          server[r].fits /\ frame.token \in {None} \cup DOMAIN tokens

(* Writing appends the frame to a connection that is up, and is lost otherwise. *)
LEMMA WritesAppends ==
    ASSUME Typed, NEW r \in Runs, NEW frame \in Frames, Writes(r, frame)
    PROVE  /\ wire' \in Seq(Seq(Frames)) /\ Len(wire') = Len(wire)
           /\ \A s \in Runs \ {r} : wire'[s] = wire[s]
           /\ IF linked[r] THEN wire'[r] = Append(wire[r], frame) ELSE wire'[r] = wire[r]
<1>1. CASE linked[r]
  <2>1. wire' = [wire EXCEPT ![r] = Append(wire[r], frame)]
    BY <1>1 DEF Writes
  <2>2. r \in 1 .. Len(wire) /\ wire[r] \in Seq(Frames) /\ DOMAIN wire = Runs
    BY DEF Typed, Runs
  <2>3. Append(wire[r], frame) \in Seq(Frames)
    BY <2>2, AppendProperties
  <2> QED BY <1>1, <2>1, <2>2, <2>3, ExceptSeq DEF Typed
<1>2. CASE ~linked[r]
  BY <1>2 DEF Writes, Typed
<1> QED BY <1>1, <1>2

(* What every step of the server has in common: it changes one request, keeps *)
(* its token, and adds at most one frame, the one that comes next.            *)
LEMMA ServedKeeps ==
    ASSUME IInv, NEW r \in Runs, NEW change \in Requests,
           Served(r, change),
           UNCHANGED <<storeVars, reader, linked, expired, confirmed>>,
           change.token = server[r].token, IsFiniteSet(change.called),
           change.fits => server[r].fits,
           change.offer \in {None} \cup DOMAIN tokens',
           tokens' \in Seq(Actions), Len(tokens) <= Len(tokens'),
           taken' \in Seq(Seq(Actions)), Len(taken') = Len(tokens'),
           \/ unnoticed' = unnoticed
           \/ unnoticed' = unnoticed \cup {r} /\ server[r].token # None,
           NEW frame \in Frames, 
           \/ UNCHANGED wire
           \/ server[r].phase # "over" /\ Follows(r, frame) /\ Writes(r, frame),
           linked[r] /\ change.phase # "over" =>
               /\ server[r].phase # "over"
               /\ Position(change) - Position(server[r]) = Len(wire'[r]) - Len(wire[r])
    PROVE  IInv'
<1>. USE DEF IInv, Served, storeVars
<1>1. /\ server' \in Seq(Requests) /\ Len(server') = Len(server) /\ Runs' = Runs
      /\ server'[r] = change
      /\ \A s \in Runs : s # r => server'[s] = server[s]
      /\ \A s \in Runs : server'[s].token = server[s].token
  BY DEF Typed, Runs
<1>2. /\ wire' \in Seq(Seq(Frames)) /\ Len(wire') = Len(wire)
      /\ \A s \in Runs \ {r} : wire'[s] = wire[s]
      /\ \/ wire'[r] = wire[r]
         \/ /\ wire'[r] = Append(wire[r], frame) /\ linked[r] 
            /\ server[r].phase # "over" /\ Follows(r, frame)
  BY WritesAppends DEF Typed
<1>3. DOMAIN tokens \subseteq DOMAIN tokens'
  BY DEF Typed
<1>4. /\ wire[r] \in Seq(Frames) /\ wire'[r] \in Seq(Frames)
      /\ DOMAIN wire = Runs
  BY <1>2 DEF Typed, Runs
<1>5. \A k \in DOMAIN wire'[r] :
         \/ k \in DOMAIN wire[r] /\ wire'[r][k] = wire[r][k]
         \/ /\ k = Len(wire[r]) + 1 /\ Len(wire'[r]) = Len(wire[r]) + 1 /\ wire'[r][k] = frame
            /\ linked[r] /\ server[r].phase # "over" /\ Follows(r, frame)
  <2>1. CASE wire'[r] = wire[r]
    BY <2>1
  <2>2. CASE /\ wire'[r] = Append(wire[r], frame) /\ linked[r]
             /\ server[r].phase # "over" /\ Follows(r, frame)
    <3>1. /\ Len(Append(wire[r], frame)) = Len(wire[r]) + 1
          /\ \A i \in 1 .. Len(wire[r]) : Append(wire[r], frame)[i] = wire[r][i]
          /\ Append(wire[r], frame)[Len(wire[r]) + 1] = frame
      BY <1>4, AppendProperties
    <3>2. DOMAIN wire'[r] = 1 .. Len(wire[r]) + 1 /\ Len(wire[r]) \in Nat
          /\ DOMAIN wire[r] = 1 .. Len(wire[r])
      BY <1>4, <2>2, <3>1
    <3> QED BY <2>2, <3>1, <3>2
  <2> QED BY <1>2, <2>1, <2>2
<1>6. Typed'
  <2>1. \A s \in Runs : IsFiniteSet(server'[s].called)
    BY <1>1 DEF Typed
  <2>2. unnoticed' \subseteq Runs
    BY DEF Typed
  <2>3. expired' \in 0 .. Len(tokens') /\ confirmed' \subseteq DOMAIN tokens'
    BY <1>3 DEF Typed
  <2> QED BY <1>1, <1>2, <2>1, <2>2, <2>3 DEF Typed
<1>7. TokensNamed'
  <2>1. \A s \in Runs : server'[s].offer \in {None} \cup DOMAIN tokens'
    BY <1>1, <1>3 DEF TokensNamed
  <2>2. \A s \in Runs : server'[s].token \in {None} \cup confirmed'
    BY <1>1 DEF TokensNamed
  <2>3. \A s \in Runs : \A k \in DOMAIN wire'[s] :
            wire'[s][k].kind = "completed" => wire'[s][k].token \in {None} \cup DOMAIN tokens'
    BY <1>2, <1>3, <1>5 DEF TokensNamed, Follows
  <2>4. \A s \in unnoticed' : server'[s].token # None
    BY <1>1 DEF TokensNamed, Typed
  <2>5. Runs' = Runs
    BY <1>1
  <2> QED BY <2>1, <2>2, <2>3, <2>4, <2>5, SMTT(30) DEF TokensNamed
<1>8. RunsMatchTurns'
  BY <1>1 DEF RunsMatchTurns, Typed
<1>9. StepsSettled'
  BY DEF StepsSettled, Open
<1>10. StreamInOrder'
  <2>. SUFFICES ASSUME NEW s \in Runs, Reading(s)', Continues(s) PROVE Continues(s)'
    BY <1>1 DEF StreamInOrder, Reading
  <2>1. CASE s # r
    BY <2>1, <1>1, <1>2, StreamUntouched
  <2>2. CASE s = r
    <3>1. Applied' = Applied /\ Applied \in Int
      BY DEF Applied, Open, Typed
    <3>2. /\ \A k \in DOMAIN wire[r] :
                /\ wire[r][k].kind \in {"tool", "completed"} => Odd(Applied + k)
                /\ wire[r][k].kind = "toolDone" => Applied + k = 2 * wire[r][k].call
          /\ linked[r] /\ server[r].phase # "over" =>
                Applied + Len(wire[r]) = Position(server[r])
      BY <2>2 DEF Continues
    <3>3. Position(server[r]) \in Int /\ Position(change) \in Int
      BY PositionCounts DEF Typed
    <3>4. \A k \in DOMAIN wire'[r] :
             /\ wire'[r][k].kind \in {"tool", "completed"} => Odd(Applied + k)
             /\ wire'[r][k].kind = "toolDone" => Applied + k = 2 * wire'[r][k].call
      <4>. TAKE k \in DOMAIN wire'[r]
      <4>1. CASE k \in DOMAIN wire[r] /\ wire'[r][k] = wire[r][k]
        BY <4>1, <3>2
      <4>2. CASE /\ k = Len(wire[r]) + 1 /\ wire'[r][k] = frame
                 /\ linked[r] /\ server[r].phase # "over" /\ Follows(r, frame)
        <5>1. Applied + k = Position(server[r]) + 1
          BY <4>2, <3>1, <3>2, <1>4
        <5> QED BY <4>2, <5>1 DEF Follows
      <4> QED BY <4>1, <4>2, <1>5
    <3>5. linked'[r] /\ change.phase # "over" => Applied + Len(wire'[r]) = Position(change)
      <4>. SUFFICES ASSUME linked'[r], change.phase # "over"
                    PROVE  Applied + Len(wire'[r]) = Position(change)
        OBVIOUS
      <4>1. /\ Position(change) - Position(server[r]) = Len(wire'[r]) - Len(wire[r])
            /\ Applied + Len(wire[r]) = Position(server[r])
        BY <3>2
      <4>2. Len(wire[r]) \in Int /\ Len(wire'[r]) \in Int
        BY <1>4
      <4>3. \A a, m, n, p, q \in Int : q - p = n - m /\ a + m = p => a + n = q
        OBVIOUS
      <4>. DEFINE m == Len(wire[r])
                  n == Len(wire'[r])
                  p == Position(server[r])
                  q == Position(change)
                  a == Applied
      <4>4. q - p = n - m /\ a + m = p
        BY <4>1
      <4>5. a \in Int /\ m \in Int /\ n \in Int /\ p \in Int /\ q \in Int
        BY <3>1, <3>3, <4>2
      <4>. HIDE DEF a, m, n, p, q
      <4>6. a + n = q
        BY <4>3, <4>4, <4>5
      <4> QED BY <4>6 DEF a, n, q
    <3>6. Position(server[r])' = Position(change)
      BY <1>1 DEF Position
    <3> QED BY <2>2, <3>1, <3>4, <3>5, <3>6, <1>1 DEF Continues
  <2> QED BY <2>1, <2>2
<1>11. PendingIsLatestProposal'
  BY <1>1 DEF PendingIsLatestProposal, RunsMatchTurns
<1>12. OversizedUnanswered'
  <2>. SUFFICES ASSUME NEW s \in Runs, Reading(s), \E i \in DOMAIN turns : i < Len(turns) /\ turns[i].long
       PROVE  /\ ~server'[s].fits
              /\ \A k \in DOMAIN wire'[s] : wire'[s][k].kind # "completed"
    BY <1>1 DEF OversizedUnanswered, Reading
  <2>1. /\ ~server[s].fits
        /\ \A k \in DOMAIN wire[s] : wire[s][k].kind # "completed"
    BY DEF OversizedUnanswered
  <2>2. CASE s # r
    BY <2>1, <2>2, <1>1, <1>2
  <2>3. CASE s = r
    <3>1. ~server'[r].fits
      BY <2>1, <2>3, <1>1
    <3>2. \A k \in DOMAIN wire'[r] : wire'[r][k].kind # "completed"
      BY <2>1, <2>3, <1>5 DEF Follows
    <3> QED BY <2>3, <3>1, <3>2
  <2> QED BY <2>2, <2>3
<1>13. OversizedHistorySticks'
  BY DEF OversizedHistorySticks
<1> QED BY <1>6, <1>7, <1>8, <1>9, <1>10, <1>11, <1>12, <1>13

(* The row of a run at the server, and the frames the loop writes. *)
LEMMA RequestRow ==
    ASSUME Typed, NEW r \in Runs
    PROVE  /\ server[r] \in Requests /\ IsFiniteSet(server[r].called)
           /\ Cardinality(server[r].called) \in Nat
           /\ wire[r] \in Seq(Frames)
           /\ linked[r] \in BOOLEAN
           /\ Frame("error") \in Frames /\ Frame("tool") \in Frames /\ Frame("cut") \in Frames
  BY FS_CardinalityType DEF Typed, Runs, Frames, Frame

(* A stream to which a frame was written is longer by it. *)
LEMMA WrittenLength ==
    ASSUME Typed, NEW r \in Runs, NEW frame \in Frames, Writes(r, frame), linked[r]
    PROVE  Len(wire'[r]) - Len(wire[r]) = 1
<1>1. wire'[r] = Append(wire[r], frame) /\ wire[r] \in Seq(Frames)
  BY WritesAppends, RequestRow
<1>2. Len(Append(wire[r], frame)) = Len(wire[r]) + 1 /\ Len(wire[r]) \in Nat
  BY <1>1, AppendProperties
<1> QED BY <1>1, <1>2

(* A run that is over has no call, offer or tools left. *)
LEMMA OverRow ==
    ASSUME Typed, NEW r \in Runs
    PROVE  LET change == [server[r] EXCEPT !.phase = "over", !.called = {}, !.call = None,
                                           !.offer = None, !.fits = FALSE]
           IN  /\ change \in Requests /\ change.token = server[r].token
               /\ change.called = {} /\ change.fits = FALSE
               /\ change.offer = None /\ change.phase = "over"
  BY RequestRow DEF Requests, None

(* Most steps leave the tokens as they are. *)
LEMMA TokensStay ==
    ASSUME IInv, UNCHANGED confirmationVars
    PROVE  /\ UNCHANGED <<tokens, expired, confirmed>>
           /\ tokens' \in Seq(Actions) /\ Len(tokens) <= Len(tokens')
           /\ taken' \in Seq(Seq(Actions)) /\ Len(taken') = Len(tokens')
           /\ None \in {None} \cup DOMAIN tokens'
  BY DEF IInv, Typed, confirmationVars

(* The loop ends with an error frame, or gives the run up in silence. *)
LEMMA FailKeeps ==
    ASSUME IInv, NEW r \in Runs, server[r].phase # "over", Fail(r)
    PROVE  IInv'
<1>. DEFINE change == [server[r] EXCEPT !.phase = "over", !.called = {}, !.call = None,
                                        !.offer = None, !.fits = FALSE]
<1>1. /\ change \in Requests /\ change.token = server[r].token
      /\ change.called = {} /\ change.fits = FALSE /\ change.offer = None /\ change.phase = "over"
  BY OverRow DEF IInv
<1>2. Served(r, change) /\ Writes(r, Frame("error"))
      /\ UNCHANGED <<storeVars, reader, linked, unnoticed, confirmationVars>>
  BY DEF Fail, Over
<1>3. Follows(r, Frame("error")) /\ Frame("error") \in Frames
  BY DEF Follows, Frame, Frames
<1>4. UNCHANGED <<storeVars, reader, linked, expired, confirmed>> /\ UNCHANGED unnoticed
  BY <1>2, TokensStay
<1>. HIDE DEF change
<1> QED BY <1>1, <1>2, <1>3, <1>4, TokensStay, ServedKeeps, FS_EmptySet

(* A run whose client is gone ends, and has nobody to tell. *)
LEMMA GiveUpKeeps == ASSUME IInv, NEW r \in Runs, GiveUp(r) PROVE IInv'
<1>. DEFINE change == [server[r] EXCEPT !.phase = "over", !.called = {}, !.call = None,
                                        !.offer = None, !.fits = FALSE]
<1>1. /\ change \in Requests /\ change.token = server[r].token
      /\ change.called = {} /\ change.fits = FALSE /\ change.offer = None /\ change.phase = "over"
  BY OverRow DEF IInv
<1>2. Served(r, change) /\ UNCHANGED <<storeVars, reader, wire, linked, unnoticed, confirmationVars>>
  BY DEF GiveUp, Over
<1>3. Frame("error") \in Frames
  BY DEF Frame, Frames
<1>4. UNCHANGED <<storeVars, reader, linked, expired, confirmed>> /\ UNCHANGED unnoticed
  BY <1>2, TokensStay
<1>. HIDE DEF change
<1> QED BY <1>1, <1>2, <1>3, <1>4, TokensStay, ServedKeeps, FS_EmptySet

(* A call starts only when it is new to the run, so it is one more. *)
LEMMA CallToolKeeps ==
    ASSUME IInv, NEW r \in Runs, NEW tool \in Tools, CallTool(r, tool)
    PROVE  IInv'
<1>. DEFINE change == [server[r] EXCEPT !.phase = "handling", !.called = @ \cup {tool}, !.call = tool]
<1>1. /\ server[r].phase = "running" /\ tool \notin server[r].called
      /\ Served(r, change) /\ Writes(r, Frame("tool"))
      /\ UNCHANGED <<storeVars, reader, linked, unnoticed, confirmationVars>>
  BY DEF CallTool, Stopped
<1>2. /\ change \in Requests /\ change.token = server[r].token
      /\ change.called = server[r].called \cup {tool}
      /\ change.fits = server[r].fits /\ change.offer = server[r].offer
      /\ change.phase = "handling"
  BY RequestRow DEF IInv, Requests
<1>3. /\ IsFiniteSet(change.called)
      /\ Cardinality(change.called) = Cardinality(server[r].called) + 1
      /\ Cardinality(server[r].called) \in Nat
  BY <1>1, <1>2, RequestRow, FS_AddElement DEF IInv
<1>4. Position(change) - Position(server[r]) = 1
  BY <1>1, <1>2, <1>3 DEF Position
<1>5. Follows(r, Frame("tool")) /\ Frame("tool") \in Frames
  BY <1>1, <1>3 DEF Follows, Frame, Frames, Position, Odd
<1>6. linked[r] => Len(wire'[r]) - Len(wire[r]) = 1
  BY <1>1, <1>5, WrittenLength DEF IInv
<1>7. change.offer \in {None} \cup DOMAIN tokens
  BY <1>2 DEF IInv, TokensNamed
<1>8. UNCHANGED <<storeVars, reader, linked, expired, confirmed>> /\ UNCHANGED unnoticed
  BY <1>1, TokensStay
<1>9. change.offer \in {None} \cup DOMAIN tokens'
  BY <1>7, TokensStay, <1>1
<1>. HIDE DEF change
<1> QED BY <1>1, <1>2, <1>3, <1>4, <1>5, <1>6, <1>8, <1>9, TokensStay, ServedKeeps

(* What the end of a call has in common with the next: the step it answers is *)
(* the last one that started.                                                 *)
LEMMA HandledKeeps ==
    ASSUME IInv, NEW r \in Runs, server[r].phase = "handling",
           NEW status \in {"success", "error"}, NEW offer \in {None} \cup DOMAIN tokens',
           Handled(r, status, offer),
           UNCHANGED <<expired, confirmed>>,
           tokens' \in Seq(Actions), Len(tokens) <= Len(tokens'),
           taken' \in Seq(Seq(Actions)), Len(taken') = Len(tokens'),
           \/ unnoticed' = unnoticed
           \/ unnoticed' = unnoticed \cup {r} /\ server[r].token # None
    PROVE  IInv'
<1>. DEFINE change == [server[r] EXCEPT !.phase = "running", !.call = None,
                                        !.offer = IF offer = None THEN @ ELSE offer]
            frame == [kind |-> "toolDone", status |-> status,
                      call |-> Cardinality(server[r].called)]
<1>1. /\ Served(r, change) /\ Writes(r, frame)
      /\ UNCHANGED <<storeVars, reader, linked>>
  BY DEF Handled
<1>. offer \in Nat /\ None \in Tools \cup {None}
  BY DEF None
<1>2. /\ change \in Requests /\ change.token = server[r].token
      /\ change.called = server[r].called /\ change.fits = server[r].fits
      /\ change.phase = "running" /\ change.offer \in {server[r].offer, offer}
  <2>. HIDE DEF None
  <2> QED BY RequestRow DEF IInv, Requests
<1>3. /\ IsFiniteSet(change.called) /\ Cardinality(server[r].called) \in Nat
      /\ frame \in Frames
  BY <1>2, RequestRow DEF IInv, Frames
<1>4. Position(change) - Position(server[r]) = 1
  BY <1>2, <1>3 DEF Position
<1>5. Follows(r, frame)
  BY <1>3 DEF Follows, Position
<1>6. linked[r] => Len(wire'[r]) - Len(wire[r]) = 1
  BY <1>1, <1>3, WrittenLength DEF IInv
<1>7. change.offer \in {None} \cup DOMAIN tokens'
  BY <1>2 DEF IInv, TokensNamed, Typed
<1>. HIDE DEF change, frame
<1> QED BY <1>1, <1>2, <1>3, <1>4, <1>5, <1>6, <1>7, ServedKeeps DEF IInv

(* A tool that only reads puts its result on the wire, and changes nothing. *)
LEMMA AnswersKeeps == ASSUME IInv, NEW r \in Runs, Answers(r) PROVE IInv'
<1>1. PICK status \in {"success", "error"} : Handled(r, status, None)
  BY DEF Answers
<1>2. UNCHANGED confirmationVars /\ UNCHANGED unnoticed /\ server[r].phase = "handling"
  BY DEF Answers
<1> QED BY <1>1, <1>2, TokensStay, HandledKeeps

(* A proposal issues a token, and its result offers it. *)
LEMMA ProposesKeeps == ASSUME IInv, NEW r \in Runs, Proposes(r) PROVE IInv'
<1>1. /\ tokens' = Append(tokens, server[r].call) /\ taken' = Append(taken, <<>>)
      /\ server[r].call \in Actions /\ UNCHANGED <<expired, confirmed, unnoticed>>
      /\ Handled(r, "success", Len(tokens) + 1) /\ server[r].phase = "handling"
  BY DEF Proposes, Offer
<1>2. /\ tokens' \in Seq(Actions) /\ Len(tokens') = Len(tokens) + 1
      /\ taken' \in Seq(Seq(Actions)) /\ Len(taken') = Len(taken) + 1
      /\ Len(tokens) \in Nat /\ Len(taken) = Len(tokens)
  <2>1. tokens \in Seq(Actions) /\ taken \in Seq(Seq(Actions)) /\ Len(taken) = Len(tokens)
    BY DEF IInv, Typed
  <2>2. tokens' \in Seq(Actions) /\ Len(tokens') = Len(tokens) + 1
    BY <1>1, <2>1, AppendProperties
  <2>3. <<>> \in Seq(Actions)
    OBVIOUS
  <2>4. taken' \in Seq(Seq(Actions)) /\ Len(taken') = Len(taken) + 1
    BY <1>1, <2>1, <2>3, AppendProperties
  <2> QED BY <2>1, <2>2, <2>4
<1>3. Len(tokens) + 1 \in {None} \cup DOMAIN tokens'
  BY <1>2
<1>4. /\ UNCHANGED <<expired, confirmed>> /\ unnoticed' = unnoticed
      /\ Handled(r, "success", Len(tokens) + 1) /\ server[r].phase = "handling"
  BY <1>1
<1> QED BY <1>2, <1>3, <1>4, HandledKeeps

(* Only the run of a confirmed token executes it; what it changes is *)
(* unnoticed until its completion is delivered.                      *)
LEMMA ExecutesKeeps == ASSUME IInv, NEW r \in Runs, Executes(r) PROVE IInv'
<1>1. /\ server[r].phase = "handling" /\ Handled(r, "success", None)
      /\ server[r].token \in DOMAIN tokens /\ tokens[server[r].token] = server[r].call
      /\ server[r].token # None /\ UNCHANGED <<tokens, expired, confirmed>>
  BY DEF Executes, Verify, Usable
<1>2. taken' \in Seq(Seq(Actions)) /\ Len(taken') = Len(taken)
  <2>. taken \in Seq(Seq(Actions))
    BY DEF IInv, Typed
  <2>1. CASE UNCHANGED taken
    BY <2>1
  <2>2. CASE taken' = [taken EXCEPT ![server[r].token] = Append(@, server[r].call)]
    <3>1. server[r].token \in 1 .. Len(taken) /\ taken[server[r].token] \in Seq(Actions)
          /\ server[r].call \in Actions
      <4>1. tokens \in Seq(Actions) /\ Len(taken) = Len(tokens)
        BY DEF IInv, Typed
      <4>2. server[r].token \in 1 .. Len(taken)
        BY <1>1, <4>1
      <4> QED BY <1>1, <4>1, <4>2
    <3>2. Append(taken[server[r].token], server[r].call) \in Seq(Actions)
      BY <3>1, AppendProperties
    <3> QED BY <2>2, <3>1, <3>2, ExceptSeq
  <2> QED BY <2>1, <2>2 DEF Executes
<1>3. unnoticed' = unnoticed \/ unnoticed' = unnoticed \cup {r}
  BY DEF Executes
<1>4. tokens' \in Seq(Actions) /\ Len(tokens') = Len(tokens) /\ Len(taken) = Len(tokens)
      /\ Len(tokens) \in Nat /\ None \in {None} \cup DOMAIN tokens'
  BY <1>1 DEF IInv, Typed
<1>5. /\ UNCHANGED <<expired, confirmed>> /\ server[r].token # None
      /\ Handled(r, "success", None) /\ server[r].phase = "handling"
  BY <1>1
<1> QED BY <1>2, <1>3, <1>4, <1>5, HandledKeeps

(* The answer carries the last proposal of the run. *)
LEMMA CompleteKeeps == ASSUME IInv, NEW r \in Runs, Complete(r) PROVE IInv'
<1>. DEFINE change == [server[r] EXCEPT !.phase = "over", !.called = {}, !.call = None,
                                        !.offer = None, !.fits = FALSE]
<1>1. /\ change \in Requests /\ change.token = server[r].token
      /\ change.called = {} /\ change.fits = FALSE /\ change.offer = None /\ change.phase = "over"
  BY OverRow DEF IInv
<1>2. /\ server[r].phase = "running" /\ server[r].fits /\ Served(r, change)
      /\ UNCHANGED <<storeVars, reader, linked, unnoticed, confirmationVars>>
  BY DEF Complete, Over
<1>3. PICK status \in {"completed", "other"}, long \in BOOLEAN :
         Writes(r, [kind |-> "completed", status |-> status, long |-> long,
                    token |-> server[r].offer])
  BY DEF Complete
<1>. DEFINE frame == [kind |-> "completed", status |-> status, long |-> long,
                      token |-> server[r].offer]
<1>4. frame \in Frames
  BY RequestRow DEF Frames, IInv, Requests
<1>5. Follows(r, frame)
  BY <1>2, RequestRow DEF Follows, Position, Odd, IInv, TokensNamed
<1>6. UNCHANGED <<storeVars, reader, linked, expired, confirmed>> /\ UNCHANGED unnoticed
  BY <1>2, TokensStay
<1>7. Writes(r, frame)
  BY <1>3
<1>. HIDE DEF change, frame
<1> QED BY <1>1, <1>2, <1>4, <1>5, <1>6, <1>7, TokensStay, ServedKeeps, FS_EmptySet

(* Every step of the loop is one of the above, or a tool step. *)
LEMMA ServeKeeps == ASSUME IInv, NEW r \in Runs, Serve(r) PROVE IInv'
<1>1. ASSUME Break(r) PROVE IInv'
  BY <1>1, FailKeeps DEF Break
<1>2. ASSUME LimitReached(r) PROVE IInv'
  BY <1>2, FailKeeps DEF LimitReached
<1> QED BY <1>1, <1>2, GiveUpKeeps, CallToolKeeps, AnswersKeeps, ProposesKeeps, ExecutesKeeps,
           CompleteKeeps DEF Serve

-----------------------------------------------------------------------------
(* Steps of the client *)

(* Sending, with a token or without: a turn, a run and its stream are new. *)
LEMMA SendKeeps ==
    ASSUME IInv, NEW long \in BOOLEAN, NEW token \in {None, pendingConfirmation},
           Send(long, token),
           long => \A i \in DOMAIN turns : ~turns[i].long,
           UNCHANGED <<tokens, expired, taken>>,
           confirmed' = IF token = None THEN confirmed ELSE confirmed \cup {token}
    PROVE  IInv'
<1>0. PICK run \in Nat : run = Len(server) + 1
  BY DEF IInv, Typed
<1>. DEFINE turn == [run |-> run, status |-> "sending", long |-> long, offer |-> None]
            fits == Fits(Append(turns, turn))
            row == [phase |-> "running", token |-> token, fits |-> fits,
                    called |-> {}, call |-> None, offer |-> None]
<1>1. /\ Len(server) < MaxSends /\ ~loading
      /\ turns' = Append(turns, turn) /\ toolActivity' = <<>> /\ loading' = TRUE
      /\ confirmationInFlight' = (token # None)
      /\ pendingConfirmation' = IF token # None THEN pendingConfirmation ELSE None
      /\ activeController' = run
      /\ reader' = Append(reader, "reading") /\ wire' = Append(wire, <<>>)
      /\ linked' = Append(linked, TRUE) /\ server' = Append(server, row)
      /\ UNCHANGED unnoticed
  BY <1>0 DEF Send, PendingDuring
<1>2. /\ token \in Nat /\ token \in {None} \cup DOMAIN tokens /\ None \in Nat
      /\ run \in 1 .. MaxSends /\ run # None /\ Len(server) \in Nat /\ run = Len(server) + 1
  <2>1. MaxSends \in Nat /\ Len(server) \in Nat
    BY ChatConstants DEF IInv, Typed
  <2>2. token \in {None} \cup DOMAIN tokens /\ DOMAIN tokens \subseteq Nat
    BY DEF IInv, Typed, TokensNamed
  <2> QED BY <1>0, <1>1, <2>1, <2>2 DEF None
<1>3. turn \in ChatTurns
  BY <1>2 DEF ChatTurns
<1>4. fits \in BOOLEAN
  BY DEF Fits
<1>5. row \in Requests /\ row.called = {} /\ row.phase = "running" /\ row.token = token
      /\ row.offer = None /\ row.fits = fits
  BY <1>2, <1>4 DEF Requests
<1>6. /\ turns' \in Seq(ChatTurns) /\ Len(turns') = Len(turns) + 1
      /\ \A i \in DOMAIN turns : turns'[i] = turns[i]
      /\ turns'[Len(turns) + 1] = turn
      /\ DOMAIN turns = 1 .. Len(turns) /\ DOMAIN turns' = 1 .. Len(turns) + 1 /\ Len(turns) \in Nat
  BY <1>1, <1>3, AppendProperties DEF IInv, Typed
<1>7. /\ server' \in Seq(Requests) /\ Len(server') = run
      /\ \A s \in Runs : server'[s] = server[s]
      /\ server'[run] = row /\ Runs = 1 .. Len(server) /\ Runs' = 1 .. run
  <2>1. server \in Seq(Requests)
    BY DEF IInv, Typed
  <2>. HIDE DEF row
  <2> QED BY <2>1, <1>1, <1>2, <1>5, AppendProperties DEF Runs
<1>8. /\ reader' \in Seq(Readers) /\ Len(reader') = run
      /\ linked' \in Seq(BOOLEAN) /\ Len(linked') = run
      /\ reader'[run] = "reading"
  BY <1>1, <1>2, AppendProperties DEF IInv, Typed, Readers
<1>9. /\ wire' \in Seq(Seq(Frames)) /\ Len(wire') = run
      /\ \A s \in Runs : wire'[s] = wire[s]
      /\ wire'[run] = <<>>
  <2>1. wire \in Seq(Seq(Frames)) /\ Len(wire) = Len(server) /\ <<>> \in Seq(Frames)
    BY EmptySeq DEF IInv, Typed
  <2> QED BY <2>1, <1>1, <1>2, <1>7, AppendProperties
<1>10. toolActivity' \in Seq(Settled \cup {"running"}) /\ DOMAIN toolActivity' = {}
       /\ Len(toolActivity') = 0
  BY <1>1, EmptySeq
<1>. HIDE DEF turn, row, fits
<1>11. Typed'
  <2>1. \A s \in Runs' : IsFiniteSet(server'[s].called)
    <3>1. \A s \in Runs : IsFiniteSet(server'[s].called)
      BY <1>7 DEF IInv, Typed
    <3>2. IsFiniteSet(server'[run].called)
      BY <1>5, <1>7, FS_EmptySet
    <3> QED BY <3>1, <3>2, <1>2, <1>7
  <2>2. confirmed' \subseteq DOMAIN tokens' /\ expired' \in 0 .. Len(tokens')
    BY <1>2 DEF IInv, Typed
  <2>3. unnoticed' \subseteq Runs' /\ activeController' \in {None} \cup Runs'
    BY <1>1, <1>2, <1>7 DEF IInv, Typed
  <2>4. loading' \in BOOLEAN /\ confirmationInFlight' \in BOOLEAN
    BY <1>1
  <2>5. /\ tokens' \in Seq(Actions)
        /\ taken' \in Seq(Seq(Actions)) /\ Len(taken') = Len(tokens')
    BY DEF IInv, Typed
  <2> QED BY <1>6, <1>7, <1>8, <1>9, <1>10, <2>1, <2>2, <2>3, <2>4, <2>5 DEF Typed
<1>12. TokensNamed'
  <2>1. \A s \in Runs' : /\ server'[s].offer \in {None} \cup DOMAIN tokens
                          /\ server'[s].token \in {None} \cup confirmed'
    BY <1>2, <1>5, <1>7 DEF IInv, TokensNamed
  <2>2. \A s \in Runs' : \A k \in DOMAIN wire'[s] :
           wire'[s][k].kind = "completed" => wire'[s][k].token \in {None} \cup DOMAIN tokens
    <3>1. \A s \in Runs : \A k \in DOMAIN wire'[s] :
             wire'[s][k].kind = "completed" => wire'[s][k].token \in {None} \cup DOMAIN tokens
      BY <1>9 DEF IInv, TokensNamed
    <3>2. DOMAIN wire'[run] = {}
      BY <1>9
    <3> QED BY <3>1, <3>2, <1>2, <1>7
  <2>3. \A s \in unnoticed' : server'[s].token # None
    BY <1>1, <1>7 DEF IInv, TokensNamed, Typed
  <2>4. pendingConfirmation' \in {None} \cup DOMAIN tokens
    BY <1>1 DEF IInv, TokensNamed
  <2> QED BY <2>1, <2>2, <2>3, <2>4 DEF TokensNamed
<1>13. RunsMatchTurns'
  <2>1. \A i \in DOMAIN turns : turns[i].run \in 1 .. Len(server) /\ turns[i].status # "sending"
    BY <1>1, <1>7 DEF IInv, RunsMatchTurns
  <2>2. turn.run = run /\ turn.status = "sending"
    BY DEF turn
  <2>3. /\ \A i \in DOMAIN turns' : turns'[i].run \in Runs'
        /\ \A i \in DOMAIN turns' : turns'[i].status = "sending" => i = Len(turns')
    <3>. SUFFICES ASSUME NEW i \in DOMAIN turns'
         PROVE  /\ turns'[i].run \in Runs'
                /\ turns'[i].status = "sending" => i = Len(turns')
      OBVIOUS
    <3>1. CASE i \in DOMAIN turns
      BY <3>1, <1>2, <1>6, <1>7, <2>1
    <3>2. CASE i = Len(turns) + 1
      BY <3>2, <1>2, <1>6, <1>7, <2>2
    <3> QED BY <3>1, <3>2, <1>6
  <2>4. ASSUME NEW i \in DOMAIN turns', NEW j \in DOMAIN turns', i < j
        PROVE  turns'[i].run < turns'[j].run
    <3>1. i \in DOMAIN turns /\ turns'[i].run = turns[i].run
      BY <1>6, <2>4
    <3>2. CASE j \in DOMAIN turns
      BY <3>1, <3>2, <2>4, <1>6 DEF IInv, RunsMatchTurns
    <3>3. CASE j = Len(turns) + 1
      BY <3>1, <3>3, <2>1, <2>2, <1>2, <1>6
    <3> QED BY <3>2, <3>3, <1>6
  <2>5. /\ turns' # <<>> /\ turns'[Len(turns')].status = "sending"
        /\ turns'[Len(turns')].run = activeController'
    BY <1>1, <1>6, <2>2
  <2>6. confirmationInFlight' <=> server'[activeController'].token # None
    BY <1>1, <1>5, <1>7
  <2> QED BY <1>1, <1>2, <1>8, <2>3, <2>4, <2>5, <2>6 DEF RunsMatchTurns
<1>14. StepsSettled'
  BY <1>1, <1>10 DEF StepsSettled, Open
<1>15. \A s \in Runs' : Reading(s)' => s = run
  BY <1>1 DEF Reading
<1>16. StreamInOrder'
  <2>1. Applied' = 0
    <3>1. ~Open'
      BY <1>10 DEF Open
    <3>2. Applied' = 2 * Len(toolActivity') - 0
      BY <3>1 DEF Applied, Open
    <3> QED BY <1>10, <3>2
  <2>2. Position(server[run])' = 0
    <3>1. Position(server[run])' = 2 * Cardinality({}) - 0
      BY <1>5, <1>7 DEF Position
    <3> QED BY <3>1, FS_EmptySet
  <2>3. Continues(run)'
    <3>1. DOMAIN wire'[run] = {} /\ Len(wire'[run]) = 0
      BY <1>9
    <3> QED BY <3>1, <2>1, <2>2 DEF Continues
  <2> QED BY <1>15, <2>3 DEF StreamInOrder
<1>17. PendingIsLatestProposal'
  <2>. SUFFICES ASSUME pendingConfirmation' # None PROVE PendingIsLatestProposal'
    BY DEF PendingIsLatestProposal
  <2>1. token # None /\ pendingConfirmation' = pendingConfirmation /\ token = pendingConfirmation
    BY <1>1
  <2>2. PICK i \in DOMAIN turns :
           /\ turns[i].offer = pendingConfirmation
           /\ \A j \in i + 1 .. Len(turns) :
                  /\ turns[j].status # "done"
                  /\ server[turns[j].run].token = pendingConfirmation
    BY <2>1 DEF IInv, PendingIsLatestProposal
  <2>3. ASSUME NEW j \in i + 1 .. Len(turns')
        PROVE  /\ turns'[j].status # "done"
               /\ server'[turns'[j].run].token = pendingConfirmation
    <3>1. CASE j \in DOMAIN turns
      BY <3>1, <2>2, <1>6, <1>7 DEF IInv, RunsMatchTurns
    <3>2. CASE j = Len(turns) + 1
      BY <3>2, <2>1, <1>5, <1>6, <1>7 DEF turn
    <3> QED BY <3>1, <3>2, <1>6
  <2> QED BY <2>1, <2>2, <2>3, <1>6 DEF PendingIsLatestProposal
<1>18. OversizedUnanswered'
  <2>. SUFFICES ASSUME NEW i \in DOMAIN turns', i < Len(turns'), turns'[i].long
       PROVE  /\ ~server'[run].fits
              /\ \A k \in DOMAIN wire'[run] : wire'[run][k].kind # "completed"
    BY <1>15 DEF OversizedUnanswered
  <2>1. ~fits
    BY <1>1 DEF fits, Fits
  <2> QED BY <2>1, <1>5, <1>7, <1>9
<1>19. OversizedHistorySticks'
  <2>. SUFFICES ASSUME NEW i \in DOMAIN turns', NEW j \in DOMAIN turns', i < j, turns'[i].long
       PROVE  turns'[j].status # "done"
    BY DEF OversizedHistorySticks
  <2>1. i \in DOMAIN turns /\ turns[i].long
    BY <1>6
  <2>2. CASE j \in DOMAIN turns
    BY <2>1, <2>2, <1>6 DEF IInv, OversizedHistorySticks
  <2>3. CASE j = Len(turns) + 1
    BY <2>3, <1>6 DEF turn
  <2> QED BY <2>2, <2>3, <1>6
<1> QED BY <1>11, <1>12, <1>13, <1>14, <1>16, <1>17, <1>18, <1>19 DEF IInv

(* A message opens a turn, and a run of its own. *)
LEMMA SendMessageKeeps == ASSUME IInv, NEW long \in BOOLEAN, SendMessage(long) PROVE IInv'
  BY SendKeeps DEF SendMessage, confirmationVars

(* A confirmation is sent like a message, with the token on screen. *)
LEMMA SendConfirmationKeeps == ASSUME IInv, SendConfirmation PROVE IInv'
  BY SendKeeps DEF SendConfirmation, Confirm

(* Frames only leave a stream, but for the one that tells it was cut. *)
WiresShrink ==
    /\ wire' \in Seq(Seq(Frames)) /\ Len(wire') = Len(wire)
    /\ \A s \in Runs : \A k \in DOMAIN wire'[s] :
           \/ wire'[s][k] = Frame("cut")
           \/ \E m \in DOMAIN wire[s] : wire'[s][k] = wire[s][m]

(* What the client does leaves the requests and the tokens alone. *)
LEMMA ClientTyped ==
    ASSUME IInv, WiresShrink, UNCHANGED <<server, confirmationVars>>,
           unnoticed' \subseteq unnoticed,
           turns' \in Seq(ChatTurns), toolActivity' \in Seq(Settled \cup {"running"}),
           loading' \in BOOLEAN, confirmationInFlight' \in BOOLEAN,
           reader' \in Seq(Readers), Len(reader') = Len(reader),
           linked' \in Seq(BOOLEAN), Len(linked') = Len(linked),
           activeController' \in {None} \cup Runs,
           pendingConfirmation' \in {None} \cup DOMAIN tokens
    PROVE  Typed' /\ TokensNamed'
<1>1. Typed'
  BY DEF IInv, Typed, WiresShrink, Runs, confirmationVars
<1>2. Frame("cut").kind # "completed"
  BY DEF Frame
<1>3. \A r \in Runs : \A k \in DOMAIN wire'[r] :
         wire'[r][k].kind = "completed" => wire'[r][k].token \in {None} \cup DOMAIN tokens
  <2>. TAKE r \in Runs
  <2>. TAKE k \in DOMAIN wire'[r]
  <2>1. CASE wire'[r][k] = Frame("cut")
    BY <2>1, <1>2
  <2>2. CASE \E m \in DOMAIN wire[r] : wire'[r][k] = wire[r][m]
    BY <2>2 DEF IInv, TokensNamed
  <2> QED BY <2>1, <2>2 DEF WiresShrink
<1>4. TokensNamed'
  BY <1>3 DEF IInv, TokensNamed, Runs, confirmationVars
<1> QED BY <1>1, <1>4

(* A run whose frames are dropped: nothing of it is left on the wire. *)
LEMMA HangupEffect ==
    ASSUME IInv, NEW r \in Runs, Hangup(r)
    PROVE  /\ WiresShrink
           /\ linked' \in Seq(BOOLEAN) /\ Len(linked') = Len(linked)
           /\ reader' \in Seq(Readers) /\ Len(reader') = Len(reader)
           /\ \A s \in Runs : s # r => reader'[s] = reader[s]
           /\ reader'[r] = IF reader[r] = "reading" THEN "aborted" ELSE reader[r]
<1>1. /\ r \in 1 .. Len(wire) /\ wire \in Seq(Seq(Frames)) /\ DOMAIN wire = Runs
      /\ wire' = [wire EXCEPT ![r] = <<>>] /\ <<>> \in Seq(Frames)
  BY EmptySeq DEF IInv, Typed, Runs, Hangup
<1>2. /\ wire' \in Seq(Seq(Frames)) /\ Len(wire') = Len(wire)
      /\ \A s \in Runs : wire'[s] = IF s = r THEN <<>> ELSE wire[s]
  BY <1>1, ExceptSeq
<1>3. WiresShrink
  <2>1. DOMAIN wire'[r] = {}
    BY <1>2
  <2>2. \A s \in Runs : s # r => wire'[s] = wire[s]
    BY <1>2
  <2> QED BY <1>2, <2>1, <2>2 DEF WiresShrink
<1>4. /\ linked' \in Seq(BOOLEAN) /\ Len(linked') = Len(linked)
      /\ reader' \in Seq(Readers) /\ Len(reader') = Len(reader)
      /\ \A s \in Runs : s # r => reader'[s] = reader[s]
      /\ reader'[r] = IF reader[r] = "reading" THEN "aborted" ELSE reader[r]
  BY DEF IInv, Typed, Runs, Hangup, Readers
<1> QED BY <1>3, <1>4

(* Once nothing is being read, what the stream and its steps owe each other is *)
(* owed by nobody.                                                             *)
LEMMA NothingRead ==
    ASSUME Runs' = Runs, \A s \in Runs : ~Reading(s)'
    PROVE  StreamInOrder' /\ OversizedUnanswered'
  BY DEF StreamInOrder, OversizedUnanswered

(* Stopping settles the turn that was being answered, and leaves its stream *)
(* unread.                                                                  *)
LEMMA StopKeeps == ASSUME IInv, Stop PROVE IInv'
<1>1. /\ loading /\ activeController # None /\ activeController \in Runs
      /\ Hangup(activeController)
      /\ UNCHANGED <<storeVars, server, unnoticed, confirmationVars>>
  BY DEF Stop, IInv, Typed
<1>2. PICK r \in Runs : r = activeController
  BY <1>1
<1>3. /\ WiresShrink /\ linked' \in Seq(BOOLEAN) /\ Len(linked') = Len(linked)
      /\ reader' \in Seq(Readers) /\ Len(reader') = Len(reader)
      /\ reader'[r] = IF reader[r] = "reading" THEN "aborted" ELSE reader[r]
  BY <1>1, <1>2, HangupEffect
<1>. USE DEF storeVars
<1>4. Typed' /\ TokensNamed'
  BY <1>1, <1>3, ClientTyped DEF IInv, Typed, TokensNamed
<1>5. RunsMatchTurns'
  BY <1>1, <1>2, <1>3 DEF IInv, RunsMatchTurns, Runs
<1>6. StepsSettled' /\ PendingIsLatestProposal' /\ OversizedHistorySticks'
  BY <1>1 DEF IInv, StepsSettled, Open, PendingIsLatestProposal, OversizedHistorySticks
<1>7. StreamInOrder' /\ OversizedUnanswered'
  BY <1>1, <1>2, <1>3, NothingRead DEF Reading, Runs
<1> QED BY <1>4, <1>5, <1>6, <1>7 DEF IInv

(* A reset drops the turns; late frames of their runs have no reader. *)
LEMMA ResetKeeps == ASSUME IInv, Reset PROVE IInv'
<1>1. /\ turns' = <<>> /\ toolActivity' = <<>> /\ loading' = FALSE /\ confirmationInFlight' = FALSE
      /\ pendingConfirmation' = None /\ activeController' = None
      /\ UNCHANGED <<server, unnoticed, confirmationVars>>
  BY DEF Reset
<1>2. /\ WiresShrink /\ linked' \in Seq(BOOLEAN) /\ Len(linked') = Len(linked)
      /\ reader' \in Seq(Readers) /\ Len(reader') = Len(reader)
  <2>1. CASE activeController # None
    BY <2>1, HangupEffect DEF Reset, IInv, Typed
  <2>2. CASE activeController = None
    BY <2>2 DEF Reset, IInv, Typed, WiresShrink, Runs
  <2> QED BY <2>1, <2>2
<1>3. /\ turns' \in Seq(ChatTurns) /\ toolActivity' \in Seq(Settled \cup {"running"})
      /\ DOMAIN turns' = {} /\ DOMAIN toolActivity' = {}
  BY <1>1, EmptySeq
<1>4. Typed' /\ TokensNamed'
  BY <1>1, <1>2, <1>3, ClientTyped
<1>5. RunsMatchTurns' /\ StepsSettled'
  BY <1>1, <1>3 DEF RunsMatchTurns, StepsSettled, Open
<1>6. PendingIsLatestProposal' /\ OversizedHistorySticks'
  BY <1>1, <1>3 DEF PendingIsLatestProposal, OversizedHistorySticks
<1>7. StreamInOrder' /\ OversizedUnanswered'
  BY <1>1, NothingRead DEF Reading, Runs
<1> QED BY <1>4, <1>5, <1>6, <1>7 DEF IInv

(* The connection breaks: the frames that arrive are the first ones of those on *)
(* their way, so they still go on where the steps stop.                         *)
LEMMA CutKeeps == ASSUME IInv, NEW r \in Runs, Cut(r) PROVE IInv'
<1>1. /\ UNCHANGED <<storeVars, reader, server, unnoticed, confirmationVars>>
      /\ linked' = [linked EXCEPT ![r] = FALSE]
  BY DEF Cut
<1>2. PICK n \in 0 .. Len(wire[r]) :
         wire' = [wire EXCEPT ![r] = Append(SubSeq(wire[r], 1, n), Frame("cut"))]
  BY DEF Cut
<1>3. /\ r \in 1 .. Len(wire) /\ wire \in Seq(Seq(Frames)) /\ DOMAIN wire = Runs
      /\ wire[r] \in Seq(Frames) /\ Len(wire[r]) \in Nat /\ Frame("cut") \in Frames
  <2>1. /\ wire \in Seq(Seq(Frames)) /\ DOMAIN wire = Runs
    BY DEF IInv, Typed, Runs
  <2>2. Frame("cut") \in Frames
    BY RequestRow DEF IInv
  <2>3. r \in 1 .. Len(wire) /\ wire[r] \in Seq(Frames)
    BY <2>1
  <2>4. Len(wire[r]) \in Nat
    BY <2>3
  <2> QED BY <2>1, <2>2, <2>3, <2>4
<1>4. /\ SubSeq(wire[r], 1, n) \in Seq(Frames) /\ Len(SubSeq(wire[r], 1, n)) = n
      /\ \A k \in 1 .. n : SubSeq(wire[r], 1, n)[k] = wire[r][k]
  <2>1. \A k \in 1 .. n : wire[r][k] \in Frames
    BY <1>3
  <2>2. n \in Int /\ 1 \in Int
    BY <1>3
  <2>3. /\ SubSeq(wire[r], 1, n) \in Seq(Frames)
        /\ Len(SubSeq(wire[r], 1, n)) = IF 1 <= n THEN n - 1 + 1 ELSE 0
        /\ \A i \in 1 .. n - 1 + 1 : SubSeq(wire[r], 1, n)[i] = wire[r][1 + i - 1]
    BY <2>1, <2>2, SubSeqProperties
  <2> QED BY <2>3, <1>3
<1>. DEFINE rest == Append(SubSeq(wire[r], 1, n), Frame("cut"))
<1>5. /\ rest \in Seq(Frames) /\ DOMAIN rest = 1 .. n + 1
      /\ \A k \in 1 .. n : rest[k] = wire[r][k]
      /\ rest[n + 1] = Frame("cut")
  <2>. DEFINE kept == SubSeq(wire[r], 1, n)
  <2>1. /\ kept \in Seq(Frames) /\ Len(kept) = n /\ n \in Nat
        /\ \A k \in 1 .. n : kept[k] = wire[r][k]
    BY <1>3, <1>4
  <2>. HIDE DEF kept
  <2>2. /\ Append(kept, Frame("cut")) \in Seq(Frames)
        /\ Len(Append(kept, Frame("cut"))) = n + 1
        /\ \A k \in 1 .. n : Append(kept, Frame("cut"))[k] = kept[k]
        /\ Append(kept, Frame("cut"))[n + 1] = Frame("cut")
    <3>1. Frame("cut") \in Frames
      BY <1>3
    <3>. HIDE DEF Frame
    <3> QED BY <2>1, <3>1, AppendProperties
  <2> QED BY <2>1, <2>2 DEF kept
<1>. HIDE DEF rest
<1>6. /\ wire' \in Seq(Seq(Frames)) /\ Len(wire') = Len(wire)
      /\ \A s \in Runs : wire'[s] = IF s = r THEN rest ELSE wire[s]
  BY <1>2, <1>3, <1>5, ExceptSeq DEF rest
<1>7. WiresShrink
  <2>1. \A k \in DOMAIN rest : \/ rest[k] = Frame("cut")
                               \/ k \in DOMAIN wire[r] /\ rest[k] = wire[r][k]
    BY <1>3, <1>5
  <2> QED BY <2>1, <1>6 DEF WiresShrink
<1>8. /\ linked' \in Seq(BOOLEAN) /\ Len(linked') = Len(linked) /\ linked'[r] = FALSE
      /\ \A s \in Runs : s # r => linked'[s] = linked[s]
  BY <1>1 DEF IInv, Typed, Runs
<1>9. Typed' /\ TokensNamed'
  BY <1>1, <1>7, <1>8, ClientTyped DEF IInv, Typed, TokensNamed, storeVars
<1>10. RunsMatchTurns' /\ StepsSettled'
  BY <1>1 DEF IInv, RunsMatchTurns, StepsSettled, Open, Runs, storeVars
<1>11. PendingIsLatestProposal' /\ OversizedHistorySticks'
  BY <1>1 DEF IInv, PendingIsLatestProposal, OversizedHistorySticks, storeVars
<1>12. Runs' = Runs /\ \A s \in Runs : Reading(s)' <=> Reading(s)
  BY <1>1 DEF Runs, Reading, storeVars
<1>13. Frame("cut").kind = "cut"
  BY DEF Frame
<1>14. StreamInOrder'
  <2>. SUFFICES ASSUME NEW s \in Runs, Continues(s) PROVE Continues(s)'
    BY <1>12 DEF IInv, StreamInOrder
  <2>1. CASE s # r
    BY <2>1, <1>1, <1>6, <1>8, StreamUntouched DEF storeVars
  <2>2. CASE s = r
    <3>1. Applied' = Applied
      BY <1>1 DEF Applied, Open, storeVars
    <3>2. \A k \in DOMAIN rest : /\ rest[k].kind \in {"tool", "completed"} => Odd(Applied + k)
                                 /\ rest[k].kind = "toolDone" => Applied + k = 2 * rest[k].call
      <4>1. \A k \in 1 .. n : /\ wire[r][k].kind \in {"tool", "completed"} => Odd(Applied + k)
                              /\ wire[r][k].kind = "toolDone" => Applied + k = 2 * wire[r][k].call
        BY <2>2, <1>3 DEF Continues
      <4>2. \A k \in DOMAIN rest : k \in 1 .. n \/ rest[k].kind = "cut"
        BY <1>3, <1>5, <1>13
      <4> QED BY <4>1, <4>2, <1>5
    <3> QED BY <2>2, <3>1, <3>2, <1>6, <1>8 DEF Continues
  <2> QED BY <2>1, <2>2
<1>15. OversizedUnanswered'
  <2>. SUFFICES ASSUME NEW s \in Runs, ~server[s].fits,
                       \A k \in DOMAIN wire[s] : wire[s][k].kind # "completed"
       PROVE  \A k \in DOMAIN wire'[s] : wire'[s][k].kind # "completed"
    BY <1>1, <1>12 DEF IInv, OversizedUnanswered, storeVars
  <2> QED BY <1>7, <1>13 DEF WiresShrink
<1> QED BY <1>9, <1>10, <1>11, <1>14, <1>15 DEF IInv

(* A function on the positions of a sequence is a sequence as long. *)
LEMMA MappedSequence ==
    ASSUME NEW S, NEW s \in Seq(S), NEW T, NEW f \in [DOMAIN s -> T]
    PROVE  f \in Seq(T) /\ Len(f) = Len(s) /\ DOMAIN f = DOMAIN s
  OBVIOUS

(* The run the store waits for owns the last turn and no other. *)
LEMMA CurrentTurn ==
    ASSUME IInv, NEW r \in Runs, IsCurrentRun(r), reader[r] \in {"reading", "aborted"}
    PROVE  /\ loading /\ r # None
           /\ Len(turns) \in DOMAIN turns
           /\ turns[Len(turns)].status = "sending"
           /\ \A i \in DOMAIN turns : turns[i].run = r <=> i = Len(turns)
<1>1. r # None
  BY DEF IInv, Typed, Runs, None
<1>2. loading
  BY <1>1 DEF IInv, RunsMatchTurns, IsCurrentRun
<1>3. /\ turns # <<>> /\ turns[Len(turns)].status = "sending" /\ turns[Len(turns)].run = r
      /\ turns \in Seq(ChatTurns)
  BY <1>2 DEF IInv, RunsMatchTurns, Typed, IsCurrentRun
<1>4. Len(turns) \in DOMAIN turns /\ DOMAIN turns = 1 .. Len(turns) /\ Len(turns) \in Nat
  BY <1>3
<1>5. ASSUME NEW i \in DOMAIN turns, turns[i].run = r PROVE i = Len(turns)
  <2>1. ~(i < Len(turns))
    <3>1. i < Len(turns) => turns[i].run < turns[Len(turns)].run
      BY <1>4 DEF IInv, RunsMatchTurns
    <3>2. r \in Nat
      BY DEF Runs, IInv, Typed
    <3> QED BY <3>1, <3>2, <1>3, <1>5
  <2> QED BY <2>1, <1>4
<1> QED BY <1>1, <1>2, <1>3, <1>4, <1>5

(* Delivery takes the first frame off its stream. *)
LEMMA DeliverEffect ==
    ASSUME IInv, NEW r \in Runs, Deliver(r)
    PROVE  /\ reader[r] = "reading"
           /\ 1 \in DOMAIN wire[r] /\ Head(wire[r]) = wire[r][1] /\ Head(wire[r]) \in Frames
           /\ WiresShrink /\ \A s \in Runs : s # r => wire'[s] = wire[s]
           /\ Len(wire'[r]) = Len(wire[r]) - 1 /\ Len(wire[r]) \in Nat
           /\ \A k \in DOMAIN wire'[r] : k \in Nat /\ k + 1 \in DOMAIN wire[r]
                                        /\ wire'[r][k] = wire[r][k + 1]
           /\ reader' \in Seq(Readers) /\ Len(reader') = Len(reader)
           /\ \A s \in Runs : s # r => reader'[s] = reader[s]
           /\ reader'[r] = IF Head(wire[r]).kind \in Terminal THEN "closing" ELSE "reading"
           /\ UNCHANGED <<activeController, linked, server, confirmationVars>>
<1>1. /\ r \in 1 .. Len(wire) /\ wire \in Seq(Seq(Frames)) /\ DOMAIN wire = Runs
      /\ wire[r] \in Seq(Frames) /\ wire[r] # <<>> /\ Len(wire[r]) \in Nat
  BY DEF IInv, Typed, Runs, Deliver
<1>2. /\ Tail(wire[r]) \in Seq(Frames) /\ Len(Tail(wire[r])) = Len(wire[r]) - 1
      /\ \A k \in 1 .. Len(Tail(wire[r])) : Tail(wire[r])[k] = wire[r][k + 1]
      /\ Head(wire[r]) \in Frames
  BY <1>1, HeadTailProperties
<1>3. 1 \in DOMAIN wire[r] /\ Head(wire[r]) = wire[r][1]
  BY <1>1
<1>4. wire' = [wire EXCEPT ![r] = Tail(wire[r])]
  BY DEF Deliver
<1>5. /\ wire' \in Seq(Seq(Frames)) /\ Len(wire') = Len(wire)
      /\ \A s \in Runs : wire'[s] = IF s = r THEN Tail(wire[r]) ELSE wire[s]
  BY <1>1, <1>2, <1>4, ExceptSeq
<1>6. \A k \in DOMAIN wire'[r] : k \in Nat /\ k + 1 \in DOMAIN wire[r]
                                 /\ wire'[r][k] = wire[r][k + 1]
  <2>1. wire'[r] = Tail(wire[r]) /\ DOMAIN wire'[r] = 1 .. Len(wire[r]) - 1
        /\ DOMAIN wire[r] = 1 .. Len(wire[r])
    <3>1. wire'[r] = Tail(wire[r])
      BY <1>5
    <3> QED BY <3>1, <1>1, <1>2
  <2> QED BY <2>1, <1>1, <1>2
<1>7. WiresShrink
  BY <1>5, <1>6 DEF WiresShrink
<1>8. /\ reader' \in Seq(Readers) /\ Len(reader') = Len(reader)
      /\ \A s \in Runs : s # r => reader'[s] = reader[s]
      /\ reader[r] = "reading"
      /\ reader'[r] = IF Head(wire[r]).kind \in Terminal THEN "closing" ELSE "reading"
  BY DEF IInv, Typed, Runs, Deliver, Readers
<1>9. UNCHANGED <<activeController, linked, server, confirmationVars>>
  BY DEF Deliver
<1> QED BY <1>1, <1>2, <1>3, <1>5, <1>6, <1>7, <1>8, <1>9

(* A frame of a run the store has left changes its stream only. *)
LEMMA StrayFrameKeeps ==
    ASSUME IInv, NEW r \in Runs, ~IsCurrentRun(r), WiresShrink,
           \A s \in Runs : s # r => wire'[s] = wire[s],
           reader' \in Seq(Readers), Len(reader') = Len(reader),
           \A s \in Runs : s # r => reader'[s] = reader[s],
           UNCHANGED <<storeVars, linked, server, unnoticed, confirmationVars>>
    PROVE  IInv'
<1>. USE DEF storeVars
<1>1. Typed' /\ TokensNamed'
  BY ClientTyped DEF IInv, Typed, TokensNamed
<1>2. RunsMatchTurns'
  BY DEF IInv, RunsMatchTurns, IsCurrentRun, Runs, Typed
<1>3. StepsSettled' /\ PendingIsLatestProposal' /\ OversizedHistorySticks'
  BY DEF IInv, StepsSettled, Open, PendingIsLatestProposal, OversizedHistorySticks
<1>4. \A s \in Runs : Reading(s)' => Reading(s) /\ s # r
  BY DEF Reading, IsCurrentRun
<1>5. StreamInOrder' /\ OversizedUnanswered'
  BY <1>4, StreamUntouched DEF IInv, StreamInOrder, OversizedUnanswered, Runs
<1> QED BY <1>1, <1>2, <1>3, <1>5 DEF IInv

(* The end of the run the store waits for, however it ends: its turn is settled, *)
(* its steps are, and nothing more of it will be read.                           *)
LEMMA RunEndKeeps ==
    ASSUME IInv, NEW r \in Runs, IsCurrentRun(r), reader[r] \in {"reading", "aborted"},
           WiresShrink, reader' = [reader EXCEPT ![r] = "closing"],
           UNCHANGED <<activeController, linked, server, confirmationVars>>,
           unnoticed' \subseteq unnoticed, loading' = FALSE, confirmationInFlight' = FALSE,
           toolActivity' \in Seq(Settled), 
           pendingConfirmation' \in {None} \cup DOMAIN tokens,
           NEW last \in ChatTurns, last.run = r, last.status # "sending",
           turns' = [i \in DOMAIN turns |-> IF turns[i].run = r THEN last ELSE turns[i]]
    PROVE  /\ Typed' /\ TokensNamed' /\ RunsMatchTurns' /\ StepsSettled'
           /\ StreamInOrder' /\ OversizedUnanswered'
           /\ DOMAIN turns' = DOMAIN turns /\ Len(turns') = Len(turns)
           /\ \A i \in DOMAIN turns : turns'[i] = IF i = Len(turns) THEN last ELSE turns[i]
<1>1. /\ loading /\ r # None /\ Len(turns) \in DOMAIN turns
      /\ turns[Len(turns)].status = "sending"
      /\ \A i \in DOMAIN turns : turns[i].run = r <=> i = Len(turns)
  BY CurrentTurn
<1>2. turns \in Seq(ChatTurns) /\ turns' \in [DOMAIN turns -> ChatTurns]
  BY DEF IInv, Typed
<1>3. turns' \in Seq(ChatTurns) /\ Len(turns') = Len(turns) /\ DOMAIN turns' = DOMAIN turns
  BY <1>2, MappedSequence
<1>4. \A i \in DOMAIN turns : turns'[i] = IF i = Len(turns) THEN last ELSE turns[i]
  BY <1>1
<1>5. reader' \in Seq(Readers) /\ Len(reader') = Len(reader) /\ reader'[r] = "closing"
  BY DEF IInv, Typed, Readers, Runs
<1>6. toolActivity' \in Seq(Settled \cup {"running"})
      /\ \A i \in DOMAIN toolActivity' : toolActivity'[i] # "running"
  BY SeqMonotonic DEF Settled
<1>7. Typed' /\ TokensNamed'
  BY <1>3, <1>5, <1>6, ClientTyped DEF IInv, Typed
<1>8. RunsMatchTurns'
  <2>1. \A i \in DOMAIN turns : turns'[i].run = turns[i].run
    BY <1>1, <1>4
  <2>2. \A i \in DOMAIN turns : turns'[i].status # "sending"
    BY <1>4 DEF IInv, RunsMatchTurns
  <2> QED BY <2>1, <2>2, <1>3, <1>5 DEF IInv, RunsMatchTurns, IsCurrentRun, Runs
<1>9. StepsSettled'
  BY <1>6 DEF StepsSettled, Open
<1>10. StreamInOrder' /\ OversizedUnanswered'
  BY <1>5, NothingRead DEF Reading, Runs, IsCurrentRun
<1> QED BY <1>3, <1>4, <1>7, <1>8, <1>9, <1>10

(* An answer does not come, whether the run failed or was stopped. *)
LEMMA EndedKeeps ==
    ASSUME IInv, NEW r \in Runs, IsCurrentRun(r), reader[r] \in {"reading", "aborted"},
           WiresShrink, reader' = [reader EXCEPT ![r] = "closing"],
           UNCHANGED <<activeController, linked, server, confirmationVars>>,
           NEW steps \in Settled, NEW status \in {"error", "aborted"},
           Ended(r, steps, status)
    PROVE  IInv'
<1>. DEFINE last == [turns[Len(turns)] EXCEPT !.status = status]
<1>1. /\ loading /\ r # None /\ Len(turns) \in DOMAIN turns
      /\ \A i \in DOMAIN turns : turns[i].run = r <=> i = Len(turns)
  BY CurrentTurn
<1>2. /\ last \in ChatTurns /\ last.run = r /\ last.status = status
      /\ last.offer = turns[Len(turns)].offer /\ last.long = turns[Len(turns)].long
      /\ status \notin {"sending", "done"}
  <2>1. turns[Len(turns)] \in ChatTurns
    BY <1>1 DEF IInv, Typed
  <2>2. turns[Len(turns)].run = r
    BY <1>1
  <2> QED BY <2>1, <2>2 DEF ChatTurns
<1>3. turns' = [i \in DOMAIN turns |-> IF turns[i].run = r THEN last ELSE turns[i]]
  BY <1>1 DEF Ended, UpdateTurn
<1>4. toolActivity' \in Seq(Settled)
  <2>1. toolActivity' \in [DOMAIN toolActivity -> Settled]
    BY DEF Ended, SettleToolActivity, IInv, Typed
  <2> QED BY <2>1, MappedSequence DEF IInv, Typed
<1>5. /\ loading' = FALSE /\ confirmationInFlight' = FALSE
      /\ UNCHANGED <<pendingConfirmation, unnoticed>>
  BY DEF Ended
<1>. HIDE DEF last
<1>6. /\ Typed' /\ TokensNamed' /\ RunsMatchTurns' /\ StepsSettled'
      /\ StreamInOrder' /\ OversizedUnanswered'
      /\ DOMAIN turns' = DOMAIN turns /\ Len(turns') = Len(turns)
      /\ \A i \in DOMAIN turns : turns'[i] = IF i = Len(turns) THEN last ELSE turns[i]
  BY <1>2, <1>3, <1>4, <1>5, RunEndKeeps DEF IInv, TokensNamed
<1>7. \A i \in DOMAIN turns :
         /\ turns'[i].run = turns[i].run /\ turns'[i].offer = turns[i].offer
         /\ turns'[i].long = turns[i].long
         /\ turns'[i].status = "done" => turns[i].status = "done"
  BY <1>1, <1>2, <1>6
<1>8. PendingIsLatestProposal'
  <2>. SUFFICES ASSUME NEW i \in DOMAIN turns, turns[i].offer = pendingConfirmation,
                       \A j \in i + 1 .. Len(turns) :
                           /\ turns[j].status # "done"
                           /\ server[turns[j].run].token = pendingConfirmation,
                       pendingConfirmation # None
       PROVE  PendingIsLatestProposal'
    BY <1>5 DEF IInv, PendingIsLatestProposal
  <2>1. \A j \in i + 1 .. Len(turns) : j \in DOMAIN turns
    BY DEF IInv, Typed
  <2> QED BY <2>1, <1>5, <1>6, <1>7 DEF PendingIsLatestProposal
<1>9. OversizedHistorySticks'
  BY <1>6, <1>7 DEF IInv, OversizedHistorySticks
<1> QED BY <1>6, <1>8, <1>9 DEF IInv

(* A frame about a tool moves the stream one frame on, and the steps with it. *)
LEMMA StreamAdvances ==
    ASSUME IInv, NEW r \in Runs, Deliver(r), IsCurrentRun(r),
           Head(wire[r]).kind \in {"tool", "toolDone"},
           UNCHANGED <<turns, loading, confirmationInFlight, pendingConfirmation, unnoticed>>,
           toolActivity' \in Seq(Settled \cup {"running"}),
           StepsSettled', Applied' = Applied + 1
    PROVE  IInv'
<1>1. /\ r # None /\ reader[r] = "reading" /\ activeController = r
  BY CurrentTurn, DeliverEffect DEF IsCurrentRun
<1>2. /\ WiresShrink /\ \A s \in Runs : s # r => wire'[s] = wire[s]
      /\ Len(wire'[r]) = Len(wire[r]) - 1 /\ Len(wire[r]) \in Nat
      /\ \A k \in DOMAIN wire'[r] : k \in Nat /\ k + 1 \in DOMAIN wire[r]
                                   /\ wire'[r][k] = wire[r][k + 1]
      /\ reader' \in Seq(Readers) /\ Len(reader') = Len(reader)
      /\ \A s \in Runs : s # r => reader'[s] = reader[s]
      /\ UNCHANGED <<activeController, linked, server, confirmationVars>>
  BY DeliverEffect
<1>3. reader'[r] = "reading"
  BY DeliverEffect DEF Terminal
<1>4. Typed' /\ TokensNamed'
  BY <1>2, ClientTyped DEF IInv, Typed, TokensNamed
<1>5. RunsMatchTurns'
  BY <1>1, <1>2, <1>3 DEF IInv, RunsMatchTurns, Runs
<1>6. PendingIsLatestProposal' /\ OversizedHistorySticks'
  BY <1>2 DEF IInv, PendingIsLatestProposal, OversizedHistorySticks
<1>7. /\ Runs' = Runs /\ Reading(r)
      /\ \A s \in Runs : Reading(s)' => s = r
  BY <1>1, <1>2 DEF Runs, Reading
<1>8. StreamInOrder'
  <2>1. Continues(r)
    BY <1>7 DEF IInv, StreamInOrder
  <2>2. Applied \in Int
    BY DEF Applied, IInv, Typed
  <2>3. \A k \in DOMAIN wire'[r] :
           /\ wire'[r][k].kind \in {"tool", "completed"} => Odd(Applied + 1 + k)
           /\ wire'[r][k].kind = "toolDone" => Applied + 1 + k = 2 * wire'[r][k].call
    <3>. TAKE k \in DOMAIN wire'[r]
    <3>1. k \in Nat /\ k + 1 \in DOMAIN wire[r] /\ wire'[r][k] = wire[r][k + 1]
      BY <1>2
    <3>2. /\ wire[r][k + 1].kind \in {"tool", "completed"} => Odd(Applied + (k + 1))
          /\ wire[r][k + 1].kind = "toolDone" => Applied + (k + 1) = 2 * wire[r][k + 1].call
      BY <2>1, <3>1 DEF Continues
    <3>3. Applied + 1 + k = Applied + (k + 1)
      BY <2>2, <3>1
    <3> QED BY <3>1, <3>2, <3>3
  <2>4. linked[r] /\ server[r].phase # "over" => Applied + 1 + Len(wire'[r]) = Position(server[r])
    <3>1. linked[r] /\ server[r].phase # "over" => Applied + Len(wire[r]) = Position(server[r])
      BY <2>1 DEF Continues
    <3>2. Applied + 1 + Len(wire'[r]) = Applied + Len(wire[r])
      <4>1. Len(wire'[r]) = Len(wire[r]) - 1 /\ Len(wire[r]) \in Int
        BY <1>2
      <4>2. \A a, n, m \in Int : n = m - 1 => a + 1 + n = a + m
        OBVIOUS
      <4>3. Len(wire'[r]) \in Int
        BY <4>1
      <4>. DEFINE n == Len(wire'[r])
                  m == Len(wire[r])
      <4>4. n = m - 1 /\ n \in Int /\ m \in Int
        BY <4>1, <4>3
      <4>. HIDE DEF n, m
      <4>5. Applied + 1 + n = Applied + m
        BY <2>2, <4>2, <4>4
      <4> QED BY <4>5 DEF n, m
    <3> QED BY <3>1, <3>2
  <2>5. Position(server[r])' = Position(server[r])
    BY <1>2 DEF Position
  <2>6. Continues(r)'
    BY <2>3, <2>4, <2>5, <1>2 DEF Continues
  <2> QED BY <2>6, <1>7 DEF StreamInOrder
<1>9. OversizedUnanswered'
  <2>. SUFFICES ASSUME ~server[r].fits, \A k \in DOMAIN wire[r] : wire[r][k].kind # "completed"
       PROVE  \A k \in DOMAIN wire'[r] : wire'[r][k].kind # "completed"
    BY <1>2, <1>7 DEF IInv, OversizedUnanswered
  <2> QED BY <1>2
<1> QED BY <1>4, <1>5, <1>6, <1>8, <1>9 DEF IInv

(* The frame that is read is the next one the steps on screen expect. *)
LEMMA NextFrame ==
    ASSUME IInv, NEW r \in Runs, Deliver(r), IsCurrentRun(r)
    PROVE  /\ Head(wire[r]).kind \in {"tool", "completed"} => ~Open
           /\ Head(wire[r]).kind = "toolDone" => Open /\ Head(wire[r]).call = Len(toolActivity)
<1>1. Continues(r)
  BY CurrentTurn, DeliverEffect DEF IInv, StreamInOrder, Reading, IsCurrentRun
<1>2. Len(toolActivity) \in Nat
  BY DEF IInv, Typed
<1>3. /\ 1 \in DOMAIN wire[r] /\ Head(wire[r]) = wire[r][1] /\ Head(wire[r]) \in Frames
  BY DeliverEffect
<1>4. ASSUME Head(wire[r]).kind \in {"tool", "completed"} PROVE ~Open
  <2>1. PICK m \in Nat : Applied + 1 = 2 * m + 1
    BY <1>1, <1>3, <1>4 DEF Continues, Odd
  <2>2. Open => Applied = 2 * Len(toolActivity) - 1
    BY DEF Applied
  <2> QED BY <1>2, <2>1, <2>2
<1>5. ASSUME Head(wire[r]).kind = "toolDone"
      PROVE  Open /\ Head(wire[r]).call = Len(toolActivity)
  <2>1. Applied + 1 = 2 * Head(wire[r]).call
    BY <1>1, <1>3, <1>5 DEF Continues
  <2>2. Head(wire[r]).call \in Nat
    BY <1>3, <1>5 DEF Frames
  <2>3. ~Open => Applied = 2 * Len(toolActivity) - 0
    BY DEF Applied
  <2>4. Open
    BY <1>2, <2>1, <2>2, <2>3
  <2>5. Applied = 2 * Len(toolActivity) - 1
    BY <2>4 DEF Applied
  <2> QED BY <1>2, <2>1, <2>2, <2>4, <2>5
<1> QED BY <1>4, <1>5

(* A step appears, and it is the only one running. *)
LEMMA ToolStartedKeeps ==
    ASSUME IInv, NEW r \in Runs, Deliver(r), IsCurrentRun(r),
           Head(wire[r]).kind = "tool", OnToolStarted
    PROVE  IInv'
<1>1. ~Open
  BY NextFrame
<1>2. loading
  BY CurrentTurn, DeliverEffect
<1>3. /\ toolActivity' = Append(toolActivity, "running")
      /\ UNCHANGED <<turns, loading, confirmationInFlight, pendingConfirmation, unnoticed>>
  BY DEF OnToolStarted
<1>4. /\ toolActivity' \in Seq(Settled \cup {"running"})
      /\ Len(toolActivity') = Len(toolActivity) + 1
      /\ \A i \in 1 .. Len(toolActivity) : toolActivity'[i] = toolActivity[i]
      /\ toolActivity'[Len(toolActivity) + 1] = "running"
      /\ Len(toolActivity) \in Nat /\ DOMAIN toolActivity = 1 .. Len(toolActivity)
      /\ DOMAIN toolActivity' = 1 .. Len(toolActivity) + 1
  <2>1. "running" \in Settled \cup {"running"} /\ toolActivity \in Seq(Settled \cup {"running"})
    BY DEF IInv, Typed
  <2>2. /\ toolActivity' \in Seq(Settled \cup {"running"})
        /\ Len(toolActivity') = Len(toolActivity) + 1
        /\ \A i \in 1 .. Len(toolActivity) : toolActivity'[i] = toolActivity[i]
        /\ toolActivity'[Len(toolActivity) + 1] = "running"
    BY <1>3, <2>1, AppendProperties
  <2> QED BY <2>1, <2>2
<1>5. StepsSettled'
  <2>1. \A i \in DOMAIN toolActivity' : toolActivity'[i] = "running" => i = Len(toolActivity')
    BY <1>1, <1>4 DEF Open
  <2> QED BY <2>1, <1>2, <1>3 DEF StepsSettled
<1>6. Applied' = Applied + 1
  <2>1. Applied = 2 * Len(toolActivity) - 0
    BY <1>1 DEF Applied
  <2>2. Len(toolActivity) + 1 \in DOMAIN toolActivity'
    BY <1>4
  <2>3. Applied' = 2 * Len(toolActivity') - 1
    BY <1>4, <2>2 DEF Applied, Open
  <2> QED BY <2>1, <2>3, <1>4
<1> QED BY <1>3, <1>4, <1>5, <1>6, StreamAdvances

(* The step that was running is the one that was answered. *)
LEMMA ToolCompletedKeeps ==
    ASSUME IInv, NEW r \in Runs, Deliver(r), IsCurrentRun(r),
           Head(wire[r]).kind = "toolDone", OnToolCompleted(Head(wire[r]))
    PROVE  IInv'
<1>. DEFINE n == Len(toolActivity)
<1>1. Open /\ Head(wire[r]).call = n
  BY NextFrame
<1>2. n \in DOMAIN toolActivity /\ toolActivity[n] = "running"
      /\ \A i \in DOMAIN toolActivity : toolActivity[i] = "running" => i = n
  BY <1>1 DEF IInv, StepsSettled, Open
<1>3. SettledStatus(Head(wire[r]).status) \in Settled
  BY DEF SettledStatus, Settled
<1>4. /\ toolActivity' = [toolActivity EXCEPT ![n] = SettledStatus(Head(wire[r]).status)]
      /\ UNCHANGED <<turns, loading, confirmationInFlight, pendingConfirmation, unnoticed>>
  BY <1>1, <1>2 DEF OnToolCompleted
<1>5. /\ toolActivity' \in Seq(Settled \cup {"running"}) /\ Len(toolActivity') = n
      /\ DOMAIN toolActivity' = DOMAIN toolActivity /\ n \in Nat
      /\ \A i \in DOMAIN toolActivity' : toolActivity'[i] # "running"
  <2>1. /\ toolActivity \in Seq(Settled \cup {"running"}) /\ n \in 1 .. Len(toolActivity)
    BY <1>2 DEF IInv, Typed
  <2>2. "running" \notin Settled
    BY DEF Settled
  <2> QED BY <1>2, <1>3, <1>4, <2>1, <2>2
<1>6. StepsSettled'
  BY <1>5 DEF StepsSettled, Open
<1>7. Applied' = Applied + 1
  <2>1. Applied = 2 * n - 1
    BY <1>1 DEF Applied
  <2>2. Applied' = 2 * Len(toolActivity') - 0
    BY <1>5 DEF Applied, Open
  <2> QED BY <2>1, <2>2, <1>5
<1> QED BY <1>4, <1>5, <1>6, <1>7, StreamAdvances

(* The answer: its turn is done, with the proposal it carries on screen. *)
LEMMA CompletedKeeps ==
    ASSUME IInv, NEW r \in Runs, Deliver(r), IsCurrentRun(r),
           Head(wire[r]).kind = "completed", OnCompleted(r, Head(wire[r]))
    PROVE  IInv'
<1>. DEFINE frame == Head(wire[r])
            last == [turns[Len(turns)] EXCEPT !.status = "done", !.long = frame.long,
                                              !.offer = frame.token]
<1>1. /\ loading /\ r # None /\ Len(turns) \in DOMAIN turns
      /\ \A i \in DOMAIN turns : turns[i].run = r <=> i = Len(turns)
  BY CurrentTurn, DeliverEffect
<1>2. /\ frame.token \in Nat /\ frame.token \in {None} \cup DOMAIN tokens /\ frame.long \in BOOLEAN
      /\ 1 \in DOMAIN wire[r] /\ frame = wire[r][1]
  <2>1. frame \in Frames /\ 1 \in DOMAIN wire[r] /\ frame = wire[r][1]
    BY DeliverEffect
  <2>2. frame.token \in Nat /\ frame.long \in BOOLEAN
    BY <2>1 DEF Frames
  <2>3. frame.token \in {None} \cup DOMAIN tokens
    BY <2>1 DEF IInv, TokensNamed
  <2> QED BY <2>1, <2>2, <2>3
<1>3. /\ last \in ChatTurns /\ last.run = r /\ last.status = "done" /\ last.offer = frame.token
  <2>1. turns[Len(turns)] \in ChatTurns
    BY <1>1 DEF IInv, Typed
  <2>2. turns[Len(turns)].run = r
    BY <1>1
  <2> QED BY <2>1, <2>2, <1>2 DEF ChatTurns
<1>4. turns' = [i \in DOMAIN turns |-> IF turns[i].run = r THEN last ELSE turns[i]]
  BY <1>1 DEF OnCompleted, UpdateTurn
<1>5. /\ loading' = FALSE /\ confirmationInFlight' = FALSE /\ pendingConfirmation' = frame.token
      /\ unnoticed' \subseteq unnoticed /\ toolActivity' = toolActivity
  BY DEF OnCompleted
<1>6. toolActivity' \in Seq(Settled)
  <2>1. \A i \in DOMAIN toolActivity : toolActivity[i] # "running"
    BY NextFrame DEF Open
  <2>2. toolActivity \in Seq(Settled \cup {"running"})
    BY DEF IInv, Typed
  <2>3. toolActivity \in [DOMAIN toolActivity -> Settled]
    BY <2>1, <2>2
  <2> QED BY <2>2, <2>3, <1>5, MappedSequence
<1>7. /\ WiresShrink /\ reader[r] = "reading" /\ reader' = [reader EXCEPT ![r] = "closing"]
      /\ UNCHANGED <<activeController, linked, server, confirmationVars>>
  BY DeliverEffect DEF Deliver, Terminal
<1>. HIDE DEF last, frame
<1>8. /\ Typed' /\ TokensNamed' /\ RunsMatchTurns' /\ StepsSettled'
      /\ StreamInOrder' /\ OversizedUnanswered'
      /\ DOMAIN turns' = DOMAIN turns /\ Len(turns') = Len(turns)
      /\ \A i \in DOMAIN turns : turns'[i] = IF i = Len(turns) THEN last ELSE turns[i]
  BY <1>2, <1>3, <1>4, <1>5, <1>6, <1>7, RunEndKeeps
<1>9. Len(turns) \in Nat /\ DOMAIN turns = 1 .. Len(turns)
  BY DEF IInv, Typed
<1>10. PendingIsLatestProposal'
  BY <1>1, <1>3, <1>5, <1>8, <1>9 DEF PendingIsLatestProposal
<1>11. OversizedHistorySticks'
  <2>. SUFFICES ASSUME NEW i \in DOMAIN turns, NEW j \in DOMAIN turns, i < j, turns'[i].long
       PROVE  turns'[j].status # "done"
    BY <1>8 DEF OversizedHistorySticks
  <2>1. i # Len(turns) /\ turns[i].long /\ i < Len(turns)
    BY <1>8, <1>9
  <2>2. Reading(r)
    BY <1>1, <1>7 DEF Reading, IsCurrentRun
  <2>3. \A k \in DOMAIN wire[r] : wire[r][k].kind # "completed"
    BY <2>1, <2>2 DEF IInv, OversizedUnanswered
  <2>4. frame.kind = "completed"
    BY DEF frame
  <2> QED BY <2>3, <2>4, <1>2
<1> QED BY <1>8, <1>10, <1>11 DEF IInv

(* A frame reaches the turn of its run, or nobody. *)
LEMMA DeliverKeeps == ASSUME IInv, NEW r \in Runs, Deliver(r) PROVE IInv'
<1>1. CASE ~IsCurrentRun(r)
  <2>1. UNCHANGED <<storeVars, linked, server, unnoticed, confirmationVars>>
    BY <1>1 DEF Deliver, storeVars
  <2> QED BY <1>1, <2>1, DeliverEffect, StrayFrameKeeps
<1>2. CASE IsCurrentRun(r) /\ Head(wire[r]).kind = "tool" /\ OnToolStarted
  BY <1>2, ToolStartedKeeps
<1>3. CASE IsCurrentRun(r) /\ Head(wire[r]).kind = "toolDone" /\ OnToolCompleted(Head(wire[r]))
  BY <1>3, ToolCompletedKeeps
<1>4. CASE IsCurrentRun(r) /\ Fails(Head(wire[r])) /\ Ended(r, "failed", "error")
  <2>1. /\ WiresShrink /\ reader[r] = "reading" /\ reader' = [reader EXCEPT ![r] = "closing"]
        /\ UNCHANGED <<activeController, linked, server, confirmationVars>>
    BY <1>4, DeliverEffect DEF Deliver, Terminal, Fails
  <2>2. "failed" \in Settled
    BY DEF Settled
  <2> QED BY <1>4, <2>1, <2>2, EndedKeeps
<1>5. CASE IsCurrentRun(r) /\ Head(wire[r]).kind = "completed" /\ OnCompleted(r, Head(wire[r]))
  BY <1>5, CompletedKeeps
<1> QED BY <1>1, <1>2, <1>3, <1>4, <1>5 DEF Deliver

(* The end of an aborted stream tells nothing more to a turn that was settled *)
(* before.                                                                    *)
LEMMA AbortedKeeps == ASSUME IInv, NEW r \in Runs, Aborted(r) PROVE IInv'
<1>1. /\ reader[r] = "aborted" /\ reader' = [reader EXCEPT ![r] = "closing"]
      /\ UNCHANGED <<activeController, wire, linked, server, confirmationVars>>
  BY DEF Aborted
<1>2. WiresShrink
  BY <1>1 DEF WiresShrink, IInv, Typed, Runs
<1>3. CASE IsCurrentRun(r)
  <2>1. "cancelled" \in Settled /\ Ended(r, "cancelled", "aborted")
    BY <1>3 DEF Settled, Aborted
  <2> QED BY <1>1, <1>2, <1>3, <2>1, EndedKeeps
<1>4. CASE ~IsCurrentRun(r)
  <2>1. UNCHANGED <<storeVars, linked, server, unnoticed, confirmationVars>>
    BY <1>4, <1>1 DEF Aborted, storeVars
  <2>2. /\ reader' \in Seq(Readers) /\ Len(reader') = Len(reader)
        /\ \A s \in Runs : s # r => reader'[s] = reader[s]
    BY <1>1 DEF IInv, Typed, Runs, Readers
  <2> QED BY <1>1, <1>2, <1>4, <2>1, <2>2, StrayFrameKeeps
<1> QED BY <1>3, <1>4

-----------------------------------------------------------------------------
(* The theorems *)

(* Every step keeps the invariant. *)
LEMMA NextKeeps == IInv /\ [AgentNext]_chatVars => IInv'
<1>. SUFFICES ASSUME IInv, [AgentNext]_chatVars PROVE IInv'
  OBVIOUS
<1>1. CASE UNCHANGED chatVars
  <2>. USE <1>1 DEF chatVars, storeVars, confirmationVars, Runs
  <2>1. Typed' /\ TokensNamed'
    BY DEF IInv, Typed, TokensNamed
  <2>2. RunsMatchTurns' /\ StepsSettled' /\ PendingIsLatestProposal' /\ OversizedHistorySticks'
    BY DEF IInv, RunsMatchTurns, StepsSettled, Open, PendingIsLatestProposal, OversizedHistorySticks
  <2>3. StreamInOrder' /\ OversizedUnanswered'
    BY StreamUntouched DEF IInv, StreamInOrder, OversizedUnanswered, Reading
  <2> QED BY <2>1, <2>2, <2>3 DEF IInv
<1>2. ASSUME NEW r \in Runs, Receive(r) \/ Cut(r) \/ Serve(r) PROVE IInv'
  BY <1>2, DeliverKeeps, AbortedKeeps, FinallyKeeps, CutKeeps, ServeKeeps DEF Receive
<1> QED BY <1>1, <1>2, SendMessageKeeps, SendConfirmationKeeps, StopKeeps, ResetKeeps,
           TokenExpiresKeeps DEF AgentNext

(* IInv is invariant. *)
THEOREM Invariance == AgentSpec => []IInv
  BY InitHolds, NextKeeps, PTL DEF AgentSpec

(* Every variable of the conversation has its type, in every reachable state: *)
(* the shapes stores/agent.ts and agent/loop.go declare.                      *)
THEOREM AgentTypeCorrect == AgentSpec => []AgentTypeOK
<1>1. IInv => AgentTypeOK
  BY DEF IInv, Typed, TokensNamed, AgentTypeOK, ConfirmationsTypeOK, Readers, Runs
<1> QED BY <1>1, Invariance, PTL

(* The composer is blocked exactly while the last exchange is being answered *)
(* (stores/agent.ts, status and activeController).                           *)
THEOREM ComposerBlocked == AgentSpec => []BlockedWhileAnswering
<1>1. IInv => BlockedWhileAnswering
  <2>. SUFFICES ASSUME IInv PROVE BlockedWhileAnswering
    OBVIOUS
  <2>1. loading => Len(turns) \in DOMAIN turns
    BY DEF IInv, RunsMatchTurns, Typed
  <2> QED BY <2>1 DEF IInv, RunsMatchTurns, BlockedWhileAnswering
<1> QED BY <1>1, Invariance, PTL

(* An exchange that is over says its tools were used only when each answered *)
(* (ToolActivity.tsx, over the steps stores/agent.ts settles).               *)
THEOREM HeadingTrue == AgentSpec => []HeadingTellsTruth
<1>1. IInv => HeadingTellsTruth
  <2>. SUFFICES ASSUME IInv, ~loading, Heading(toolActivity) = "used"
       PROVE  ToSet(toolActivity) \subseteq {"done"}
    BY DEF HeadingTellsTruth
  <2>1. \A i \in DOMAIN toolActivity : toolActivity[i] \in Settled
    BY DEF IInv, StepsSettled, Open, Typed
  <2>2. \A i \in DOMAIN toolActivity : toolActivity[i] \in ToSet(toolActivity)
    BY DEF ToSet
  <2>3. "failed" \notin ToSet(toolActivity) /\ "cancelled" \notin ToSet(toolActivity)
        /\ "warning" \notin ToSet(toolActivity)
    BY DEF Heading
  <2> QED BY <2>1, <2>2, <2>3 DEF ToSet, Settled
<1> QED BY <1>1, Invariance, PTL

(* The proposal on screen is the one the last answer made *)
(* (stores/agent.ts, pendingConfirmation).                *)
THEOREM PendingIsLatest == AgentSpec => []PendingIsLatestProposal
  BY Invariance, PTL DEF IInv

(* Once something is too long for the endpoint, nothing later is answered *)
(* (httpapi/agent.go, validateAgentChatRequest).                          *)
THEOREM OversizedSticks == AgentSpec => []OversizedHistorySticks
  BY Invariance, PTL DEF IInv

(* When the exchange that changed something completes, the lists are fetched *)
(* again (stores/agent.ts, mutationExecutionCount, and FabChat.tsx).         *)
THEOREM ChangesNoticed == AgentSpec => CompletedChangesAreNoticed
<1>. DEFINE Noticed ==
        \A i \in DOMAIN turns :
          LET r == turns[i].run
          IN  /\ Len(turns') = Len(turns)
              /\ turns[i].status = "sending" /\ turns'[i].status = "done"
              /\ Head(wire[r]).status = "completed"
              /\ r \in unnoticed
              => unnoticed' = {}
<1>1. IInv /\ [AgentNext]_chatVars => [Noticed]_chatVars
  <2>. SUFFICES ASSUME IInv, AgentNext, NEW i \in DOMAIN turns,
                       Len(turns') = Len(turns),
                       turns[i].status = "sending", turns'[i].status = "done",
                       Head(wire[turns[i].run]).status = "completed",
                       turns[i].run \in unnoticed
       PROVE  unnoticed' = {}
    OBVIOUS
  <2>1. turns' # turns
    OBVIOUS
  <2>2. \A r \in Runs : ~Cut(r) /\ ~Serve(r) /\ ~Finally(r)
    BY <2>1 DEF Cut, Serve, Break, GiveUp, LimitReached, CallTool, Answers, Proposes, Executes,
       Complete, Fail, Handled, Finally, storeVars
  <2>3. ~Stop /\ ~TokenExpires
    BY <2>1 DEF Stop, TokenExpires, storeVars
  <2>4. ~Reset
    BY EmptySeq DEF Reset, IInv, Typed
  <2>5. ASSUME NEW long, NEW token PROVE ~Send(long, token)
    <3>. SUFFICES ASSUME Send(long, token) PROVE FALSE
      OBVIOUS
    <3>1. PICK turn : turns' = Append(turns, turn)
      BY DEF Send
    <3>2. turns \in Seq(ChatTurns \cup {turn}) /\ turn \in ChatTurns \cup {turn}
      BY SeqMonotonic DEF IInv, Typed
    <3>3. Len(turns') = Len(turns) + 1 /\ Len(turns) \in Nat
      BY <3>1, <3>2, AppendProperties
    <3> QED BY <3>3
  <2>6. PICK r \in Runs : Deliver(r) \/ Aborted(r)
    BY <2>2, <2>3, <2>4, <2>5 DEF AgentNext, SendMessage, SendConfirmation, Receive
  <2>7. ASSUME NEW steps, NEW status \in {"error", "aborted"}, Ended(r, steps, status)
        PROVE  FALSE
    <3>1. turns'[i] = IF turns[i].run = r THEN [turns[i] EXCEPT !.status = status] ELSE turns[i]
      BY <2>7 DEF Ended, UpdateTurn
    <3>2. turns[i] \in ChatTurns
      BY DEF IInv, Typed
    <3> QED BY <3>1, <3>2, <2>7 DEF ChatTurns
  <2>8. ~Aborted(r)
    BY <2>1, <2>7 DEF Aborted
  <2>9. Deliver(r) /\ IsCurrentRun(r) /\ OnCompleted(r, Head(wire[r]))
    BY <2>1, <2>6, <2>7, <2>8 DEF Deliver, OnToolStarted, OnToolCompleted
  <2>10. i = Len(turns) /\ turns[i].run = r /\ loading /\ activeController = r
    BY <2>9, CurrentTurn, DeliverEffect DEF IInv, RunsMatchTurns, IsCurrentRun
  <2>11. confirmationInFlight
    BY <2>10 DEF IInv, RunsMatchTurns, TokensNamed
  <2> QED BY <2>9, <2>10, <2>11 DEF OnCompleted, Refreshes
<1> QED BY <1>1, Invariance, PTL DEF AgentSpec, CompletedChangesAreNoticed

(* A step of the chat is a step of what Confirmations allows, or none of its. *)
LEMMA StepsAllowed ==
    IInv /\ [AgentNext]_chatVars => [ConfirmationsNext]_confirmationVars
<1>. SUFFICES ASSUME IInv, AgentNext, ~UNCHANGED confirmationVars PROVE ConfirmationsNext
  BY DEF chatVars
<1>1. CASE SendConfirmation
  BY <1>1 DEF SendConfirmation, ConfirmationsNext, Confirm
<1>2. CASE TokenExpires
  BY <1>2 DEF TokenExpires, ConfirmationsNext
<1>3. ASSUME NEW r \in Runs, Proposes(r) PROVE ConfirmationsNext
  BY <1>3 DEF Proposes, ConfirmationsNext
<1>4. ASSUME NEW r \in Runs, Executes(r) PROVE ConfirmationsNext
  <2>. DEFINE token == server[r].token
  <2>1. /\ token # None /\ Usable(token) /\ tokens[token] = server[r].call
        /\ UNCHANGED <<tokens, expired, confirmed>>
    BY <1>4 DEF Executes, Verify
  <2>2. token \in confirmed /\ token \in DOMAIN tokens
    BY <2>1 DEF IInv, TokensNamed, Usable
  <2>3. taken' = [taken EXCEPT ![token] = Append(@, tokens[token])] /\ ~Replayed(token)
    BY <1>4, <2>1 DEF Executes, confirmationVars
  <2>4. Take(token)
    BY <2>1, <2>2, <2>3 DEF Take, Replayed
  <2> QED BY <2>2, <2>4 DEF ConfirmationsNext
<1>5. ASSUME NEW r \in Runs, Receive(r) \/ Cut(r) \/ Break(r) \/ GiveUp(r) \/ LimitReached(r)
                             \/ Answers(r) \/ Complete(r)
      PROVE  FALSE
  BY <1>5 DEF Receive, Deliver, Aborted, Finally, Cut, Break, GiveUp, LimitReached, Fail, Answers,
     Complete, confirmationVars
<1>6. ASSUME NEW r \in Runs, NEW tool \in Tools, CallTool(r, tool) PROVE FALSE
  BY <1>6 DEF CallTool
<1>7. ~Stop /\ ~Reset /\ \A long \in BOOLEAN : ~SendMessage(long)
  BY DEF Stop, Reset, SendMessage
<1> QED BY <1>1, <1>2, <1>3, <1>4, <1>5, <1>6, <1>7 DEF AgentNext, Serve

(* The chat implements the promise about writes: whatever the streams do, the  *)
(* tools touch the store only as Confirmations allows (agent/confirmation.go,  *)
(* agent/tools_mutate.go).                                                     *)
THEOREM PromiseKept == AgentSpec => KeepsPromise
<1>1. AgentInit => Promise!ConfirmationsInit
  BY DEF AgentInit, ConfirmationsInit, Promise!ConfirmationsInit
<1>2. IInv /\ [AgentNext]_chatVars => [Promise!ConfirmationsNext]_Promise!confirmationVars
  BY StepsAllowed DEF ConfirmationsNext, confirmationVars, Offer, Expire, Confirm, Take, Usable,
     Promise!ConfirmationsNext, Promise!confirmationVars, Promise!Offer, Promise!Expire,
     Promise!Confirm, Promise!Take, Promise!Usable
<1> QED BY <1>1, <1>2, Invariance, PTL DEF AgentSpec, KeepsPromise, Promise!ConfirmationsSpec

(* A token that was not confirmed changes nothing, and a create is done once *)
(* however often its token comes back.                                       *)
THEOREM OnlyConfirmed == ConfirmationsSpec => []OnlyConfirmedOnce
<1>. DEFINE Inv ==
        /\ tokens \in Seq(Actions) /\ confirmed \subseteq DOMAIN tokens
        /\ taken \in Seq(Seq(Actions)) /\ Len(taken) = Len(tokens)
        /\ OnlyConfirmedOnce
<1>1. ConfirmationsInit => Inv
  BY EmptySeq DEF ConfirmationsInit, OnlyConfirmedOnce
<1>2. Inv /\ [ConfirmationsNext]_confirmationVars => Inv'
  <2>. SUFFICES ASSUME Inv, [ConfirmationsNext]_confirmationVars PROVE Inv'
    OBVIOUS
  <2>1. ASSUME NEW a \in Actions, Offer(a) PROVE Inv'
    <3>1. /\ tokens' \in Seq(Actions) /\ Len(tokens') = Len(tokens) + 1
          /\ \A t \in 1 .. Len(tokens) : tokens'[t] = tokens[t]
      BY <2>1, AppendProperties DEF Offer
    <3>2. <<>> \in Seq(Actions) /\ Len(<<>>) = 0
      BY EmptySeq
    <3>3. /\ taken' \in Seq(Seq(Actions)) /\ Len(taken') = Len(taken) + 1
          /\ \A t \in 1 .. Len(taken) : taken'[t] = taken[t]
          /\ taken'[Len(taken) + 1] = <<>>
      BY <2>1, <3>2, AppendProperties DEF Offer
    <3>4. \A t \in DOMAIN tokens' : t \in DOMAIN tokens \/ t = Len(tokens) + 1
      BY <3>1
    <3>5. OnlyConfirmedOnce'
      <4>. SUFFICES ASSUME NEW t \in DOMAIN tokens'
           PROVE  /\ taken'[t] # <<>> => t \in confirmed'
                  /\ \A i \in DOMAIN taken'[t] : taken'[t][i] = tokens'[t]
                  /\ tokens'[t] \in Creates => Len(taken'[t]) <= 1
        BY DEF OnlyConfirmedOnce
      <4>1. CASE t \in DOMAIN tokens
        BY <2>1, <3>1, <3>3, <4>1 DEF OnlyConfirmedOnce, Offer
      <4>2. CASE t = Len(tokens) + 1
        BY <3>2, <3>3, <4>2
      <4> QED BY <3>4, <4>1, <4>2
    <3> QED BY <2>1, <3>1, <3>3, <3>5 DEF Offer
  <2>2. CASE Expire \/ UNCHANGED confirmationVars
    BY <2>2 DEF Expire, confirmationVars, OnlyConfirmedOnce
  <2>3. ASSUME NEW t \in DOMAIN tokens, Confirm(t) PROVE Inv'
    BY <2>3 DEF Confirm, OnlyConfirmedOnce
  <2>4. ASSUME NEW t \in DOMAIN tokens, Take(t) PROVE Inv'
    <3>1. /\ taken' = [taken EXCEPT ![t] = Append(taken[t], tokens[t])]
          /\ t \in confirmed /\ UNCHANGED <<tokens, confirmed>>
          /\ tokens[t] \in Creates => taken[t] = <<>>
      BY <2>4 DEF Take
    <3>2. t \in 1 .. Len(taken) /\ taken[t] \in Seq(Actions) /\ tokens[t] \in Actions
      OBVIOUS
    <3>3. /\ Append(taken[t], tokens[t]) \in Seq(Actions)
          /\ Len(Append(taken[t], tokens[t])) = Len(taken[t]) + 1
          /\ \A i \in 1 .. Len(taken[t]) : Append(taken[t], tokens[t])[i] = taken[t][i]
          /\ Append(taken[t], tokens[t])[Len(taken[t]) + 1] = tokens[t]
          /\ Len(taken[t]) \in Nat
      BY <3>2, AppendProperties
    <3>4. /\ taken' \in Seq(Seq(Actions)) /\ Len(taken') = Len(taken)
          /\ \A u \in 1 .. Len(taken) :
                 taken'[u] = IF u = t THEN Append(taken[t], tokens[t]) ELSE taken[u]
      BY <3>1, <3>2, <3>3, ExceptSeq
    <3>5. OnlyConfirmedOnce'
      <4>. SUFFICES ASSUME NEW u \in DOMAIN tokens
           PROVE  /\ taken'[u] # <<>> => u \in confirmed
                  /\ \A i \in DOMAIN taken'[u] : taken'[u][i] = tokens[u]
                  /\ tokens[u] \in Creates => Len(taken'[u]) <= 1
        BY <3>1 DEF OnlyConfirmedOnce
      <4>1. CASE u # t
        BY <3>4, <4>1 DEF OnlyConfirmedOnce
      <4>2. CASE u = t
        <5>1. taken'[t] = Append(taken[t], tokens[t])
          BY <3>2, <3>4
        <5>2. \A i \in DOMAIN taken'[t] : taken'[t][i] = tokens[t]
          <6>1. \A i \in DOMAIN taken[t] : taken[t][i] = tokens[t]
            BY DEF OnlyConfirmedOnce
          <6>2. DOMAIN taken'[t] = 1 .. Len(taken[t]) + 1 /\ DOMAIN taken[t] = 1 .. Len(taken[t])
            BY <5>1, <3>2, <3>3
          <6> QED BY <5>1, <6>1, <6>2, <3>3
        <5>3. tokens[t] \in Creates => Len(taken'[t]) = 1
          BY <5>1, <3>1, <3>3
        <5> QED BY <4>2, <5>2, <5>3, <3>1
      <4> QED BY <4>1, <4>2
    <3> QED BY <3>1, <3>4, <3>5
  <2> QED BY <2>1, <2>2, <2>3, <2>4 DEF ConfirmationsNext
<1>3. Inv => OnlyConfirmedOnce
  OBVIOUS
<1> QED BY <1>1, <1>2, <1>3, PTL DEF ConfirmationsSpec

(* So the assistant never changes data but through a confirmed token, and never *)
(* adds the same row twice.                                                     *)
THEOREM AssistantKeepsToConfirmed == AgentSpec => []OnlyConfirmedOnce
<1>1. AgentInit => ConfirmationsInit
  BY DEF AgentInit
<1>2. AgentSpec => ConfirmationsSpec
  BY <1>1, StepsAllowed, Invariance, PTL DEF AgentSpec, ConfirmationsSpec
<1> QED BY <1>2, OnlyConfirmed, PTL
=============================================================================
