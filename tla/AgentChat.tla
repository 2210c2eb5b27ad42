----------------------------- MODULE AgentChat -----------------------------
(***************************************************************************)
(* A conversation with the assistant, from the button to the store and     *)
(* back: the chat store and its stream reader (frontend stores/agent.ts,   *)
(* lib/agent/client.ts, components/agent/FabChat.tsx, ToolActivity.tsx),   *)
(* the endpoint and the loop that runs the tools (backend httpapi/agent.go,*)
(* agent/loop.go), and the tokens that authorise a write                   *)
(* (agent/confirmation.go, agent/tools_mutate.go).                         *)
(*                                                                         *)
(* Each send is a run with a stream of its own.  The network delivers a    *)
(* stream in order and may cut it anywhere; what the model asks for is any *)
(* choice.  A run abandoned by the client goes on at the server until it   *)
(* notices.  Texts are reduced to whether the server takes their length.   *)
(***************************************************************************)
EXTENDS Confirmations, FiniteSets, SequencesExt

CONSTANTS
    Lookups,            \* the calls of read-only tools
    MaxMessages,        \* maxAgentMessages
    MaxToolCalls,       \* limits.MaxToolCalls
    MaxSends,           \* bound on the messages of a behaviour
    MaxInFlight,        \* bound on the frames a connection holds
    MaxTokens,          \* bound on the proposals of a behaviour
    MaxExpired,         \* bound on the tokens that expire in a behaviour
    MaxBroken           \* bound on the connections given up or cut

ASSUME ChatConstants ==
    /\ Lookups \cap Actions = {}
    /\ {MaxMessages, MaxToolCalls, MaxSends, MaxInFlight, MaxTokens, MaxExpired,
        MaxBroken} \subseteq Nat

None == 0               \* no token, no run: both are numbered from 1

VARIABLES
    turns,              \* the exchanges: a user turn with the answer it got
    toolActivity,       \* the steps of the last exchange; the earlier ones are settled
    loading,
    confirmationInFlight,
    pendingConfirmation,
    activeController,   \* the run whose controller the store holds
    reader,             \* per run: the client's side of its stream
    wire,               \* per run: frames on their way
    linked,             \* per run: the connection is up
    server,             \* per run: the request at the server
    unnoticed           \* history: runs that changed data no query refetched since

storeVars == <<turns, toolActivity, loading, confirmationInFlight, pendingConfirmation,
               activeController>>
chatVars == <<storeVars, reader, wire, linked, server, unnoticed, confirmationVars>>

-----------------------------------------------------------------------------
Runs   == DOMAIN server
Tools  == Actions \cup Lookups
Settled == {"done", "warning", "failed", "cancelled"}

ChatTurns ==
    [run: 1 .. MaxSends, status: {"sending", "done", "error", "aborted"},
     long: BOOLEAN, offer: Nat]

Requests ==
    [phase: {"running", "handling", "over"}, token: Nat, fits: BOOLEAN,
     called: SUBSET Tools, call: Tools \cup {None}, offer: Nat]

AgentTypeOK ==
    /\ turns \in Seq(ChatTurns)
    /\ toolActivity \in Seq(Settled \cup {"running"})
    /\ {loading, confirmationInFlight} \subseteq BOOLEAN
    /\ unnoticed \subseteq Runs
    /\ pendingConfirmation \in {None} \cup DOMAIN tokens
    /\ activeController \in {None} \cup Runs
    /\ server \in Seq(Requests)
    /\ reader \in [Runs -> {"reading", "aborted", "closing", "over"}]
    /\ linked \in [Runs -> BOOLEAN]
    /\ DOMAIN wire = Runs
    /\ ConfirmationsTypeOK

AgentInit ==
    /\ turns = <<>>
    /\ toolActivity = <<>>
    /\ loading = FALSE
    /\ confirmationInFlight = FALSE
    /\ pendingConfirmation = None
    /\ activeController = None
    /\ reader = <<>>
    /\ wire = <<>>
    /\ linked = <<>>
    /\ server = <<>>
    /\ unnoticed = {}
    /\ ConfirmationsInit

-----------------------------------------------------------------------------
(* The store: send, stop and reset                                         *)

(* The messages of a request: every user turn is done, an answer only when
   it completed. *)
Conversation(exchanges) ==
    FoldLeft(LAMBDA n, t : n + IF t.status = "done" THEN 2 ELSE 1, 0, exchanges)

(* Fault: only the message that is new is measured. *)
FitsLast(exchanges) ==
    Conversation(exchanges) <= MaxMessages /\ ~exchanges[Len(exchanges)].long

(* validateAgentChatRequest; the last message is the user's by construction. *)
Fits(exchanges) ==
    /\ Conversation(exchanges) <= MaxMessages
    /\ \A i \in DOMAIN exchanges : ~exchanges[i].long

(* Fault: the proposal on screen outlives a message that is not its confirmation. *)
PendingKept(token) == pendingConfirmation

PendingDuring(token) == IF token # None THEN pendingConfirmation ELSE None

Send(long, token) ==
    LET turn == [run |-> Len(server) + 1, status |-> "sending", long |-> long,
                 offer |-> None]
    IN  /\ Len(server) < MaxSends
        /\ ~loading
        /\ turns' = Append(turns, turn)
        /\ toolActivity' = <<>>
        /\ loading' = TRUE
        /\ confirmationInFlight' = (token # None)
        /\ pendingConfirmation' = PendingDuring(token)
        /\ activeController' = turn.run
        /\ reader' = Append(reader, "reading")
        /\ wire' = Append(wire, <<>>)
        /\ linked' = Append(linked, TRUE)
        /\ server' = Append(server,
               [phase |-> "running", token |-> token, fits |-> Fits(Append(turns, turn)),
                called |-> {}, call |-> None, offer |-> None])
        /\ UNCHANGED unnoticed

(* The composer, a suggestion, or "Cancelar" on a proposal *)
SendMessage(long) ==
    /\ long => \A i \in DOMAIN turns : ~turns[i].long
    /\ Send(long, None)
    /\ UNCHANGED confirmationVars

(* "Confirmar" sends the token of the proposal on screen. *)
SendConfirmation ==
    /\ pendingConfirmation # None
    /\ Send(FALSE, pendingConfirmation)
    /\ Confirm(pendingConfirmation)

Breakable == Cardinality({r \in Runs : ~linked[r]}) < MaxBroken

Hangup(r) ==
    /\ Breakable
    /\ reader' = [reader EXCEPT ![r] = IF @ = "reading" THEN "aborted" ELSE @]
    /\ linked' = [linked EXCEPT ![r] = FALSE]
    /\ wire' = [wire EXCEPT ![r] = <<>>]

Stop ==
    /\ loading /\ ~confirmationInFlight
    /\ activeController # None
    /\ Hangup(activeController)
    /\ UNCHANGED <<storeVars, server, unnoticed, confirmationVars>>

Reset ==
    /\ turns # <<>> /\ ~confirmationInFlight
    /\ IF activeController # None THEN Hangup(activeController)
                                  ELSE UNCHANGED <<reader, linked, wire>>
    /\ turns' = <<>>
    /\ toolActivity' = <<>>
    /\ loading' = FALSE
    /\ confirmationInFlight' = FALSE
    /\ pendingConfirmation' = None
    /\ activeController' = None
    /\ UNCHANGED <<server, unnoticed, confirmationVars>>

-----------------------------------------------------------------------------
(* The store: what a frame of the stream does                              *)

(* Fault: a late frame is applied whatever run the store is on. *)
AnyRun(r) == TRUE

IsCurrentRun(r) == activeController = r

(* updateTurn and its kin: the turn is found by its id, if it is still there. *)
UpdateTurn(r, Change(_)) ==
    turns' = [i \in DOMAIN turns |->
                 IF turns[i].run = r THEN Change(turns[i]) ELSE turns[i]]

(* Fault: the steps that were running are left as they are. *)
StepsLeft(steps, status) == steps

SettleToolActivity(steps, status) ==
    [i \in DOMAIN steps |-> IF steps[i] = "running" THEN status ELSE steps[i]]

(* Fault: the status on the wire is stored as it is. *)
Unmapped(status) == status

(* completeToolActivity *)
SettledStatus(status) ==
    IF status = "error" THEN "failed" ELSE IF status = "warning" THEN status ELSE "done"

(* onStarted has nothing left to change; every tool call has an id of its own,
   so the n-th call is the n-th step. *)
OnToolStarted ==
    /\ toolActivity' = Append(toolActivity, "running")
    /\ UNCHANGED <<turns, loading, confirmationInFlight, pendingConfirmation, unnoticed>>

OnToolCompleted(frame) ==
    /\ toolActivity' =
           [toolActivity EXCEPT ![frame.call] = IF @ = "running" THEN SettledStatus(frame.status) ELSE @]
    /\ UNCHANGED <<turns, loading, confirmationInFlight, pendingConfirmation, unnoticed>>

Ended(r, steps, status) ==
    /\ UpdateTurn(r, LAMBDA t : [t EXCEPT !.status = status])
    /\ toolActivity' = SettleToolActivity(toolActivity, steps)
    /\ loading' = FALSE
    /\ confirmationInFlight' = FALSE
    /\ UNCHANGED <<pendingConfirmation, unnoticed>>

(* Fault: whether it was a confirmation is read after the flag is cleared. *)
NoRefresh(frame) == FALSE

(* mutationExecutionCount goes up, and FabChat invalidates the lists the tools change. *)
Refreshes(frame) == confirmationInFlight /\ frame.status = "completed"

OnCompleted(r, frame) ==
    /\ UpdateTurn(r, LAMBDA t :
           [t EXCEPT !.status = "done", !.long = frame.long, !.offer = frame.token])
    /\ UNCHANGED toolActivity
    /\ unnoticed' = IF Refreshes(frame) THEN {} ELSE unnoticed
    /\ loading' = FALSE
    /\ confirmationInFlight' = FALSE
    /\ pendingConfirmation' = frame.token

Terminal == {"error", "completed", "cut"}

(* Fault: a stream that ends early is taken for one that was answered. *)
FailsByFrame(frame) == frame.kind = "error"

(* onError, or the exception for a stream without a terminal frame *)
Fails(frame) == frame.kind \in {"error", "cut"}

(* One frame, or the end of a stream that had no terminal frame *)
Deliver(r) ==
    LET frame == Head(wire[r])
    IN  /\ reader[r] = "reading" /\ wire[r] # <<>>
        /\ wire' = [wire EXCEPT ![r] = Tail(@)]
        /\ reader' = [reader EXCEPT ![r] =
               IF frame.kind \in Terminal THEN "closing" ELSE @]
        /\ IF IsCurrentRun(r)
           THEN \/ frame.kind = "tool" /\ OnToolStarted
                \/ frame.kind = "toolDone" /\ OnToolCompleted(frame)
                \/ Fails(frame) /\ Ended(r, "failed", "error")
                \/ frame.kind = "completed" /\ OnCompleted(r, frame)
           ELSE UNCHANGED <<turns, toolActivity, loading, confirmationInFlight,
                            pendingConfirmation, unnoticed>>
        /\ UNCHANGED <<activeController, linked, server, confirmationVars>>

(* catch, after the controller aborted the read *)
Aborted(r) ==
    /\ reader[r] = "aborted"
    /\ reader' = [reader EXCEPT ![r] = "closing"]
    /\ IF IsCurrentRun(r)
       THEN Ended(r, "cancelled", "aborted")
       ELSE UNCHANGED <<turns, toolActivity, loading, confirmationInFlight,
                        pendingConfirmation, unnoticed>>
    /\ UNCHANGED <<activeController, wire, linked, server, confirmationVars>>

(* finally *)
Finally(r) ==
    /\ reader[r] = "closing"
    /\ reader' = [reader EXCEPT ![r] = "over"]
    /\ activeController' = IF IsCurrentRun(r) THEN None ELSE activeController
    /\ UNCHANGED <<turns, toolActivity, loading, confirmationInFlight, pendingConfirmation, wire,
                   linked, server, unnoticed, confirmationVars>>

-----------------------------------------------------------------------------
(* The network *)

Writes(r, frame) ==
    IF linked[r]
    THEN Len(wire[r]) < MaxInFlight /\ wire' = [wire EXCEPT ![r] = Append(@, frame)]
    ELSE UNCHANGED wire

Frame(kind) == [kind |-> kind]

(* The connection breaks; of the frames on their way only a prefix arrives. *)
Cut(r) ==
    /\ linked[r] /\ reader[r] = "reading" /\ Breakable
    /\ linked' = [linked EXCEPT ![r] = FALSE]
    /\ \E n \in 0 .. Len(wire[r]) :
           wire' = [wire EXCEPT ![r] = Append(SubSeq(@, 1, n), Frame("cut"))]
    /\ UNCHANGED <<storeVars, reader, server, unnoticed, confirmationVars>>

-----------------------------------------------------------------------------
(* The server: the endpoint and the loop                                   *)

Served(r, change) == server' = [server EXCEPT ![r] = change]

Over(r) ==
    Served(r, [server[r] EXCEPT !.phase = "over", !.called = {}, !.call = None,
                                !.offer = None, !.fits = FALSE])

(* An error frame, or a status that is not OK: onError handles both. *)
Fail(r) ==
    /\ Over(r)
    /\ Writes(r, Frame("error"))
    /\ UNCHANGED <<storeVars, reader, linked, unnoticed, confirmationVars>>


(* A history that does not fit, the provider, the deadline, an answer that is
   not the contract, an unknown tool, or a tool that fails outright *)
Break(r) == server[r].phase \in {"running", "handling"} /\ linked[r] /\ Fail(r)

(* The client is gone: the next emit or the cancelled context ends the run. *)
GiveUp(r) ==
    /\ server[r].phase # "over" /\ ~linked[r]
    /\ Over(r)
    /\ UNCHANGED <<storeVars, reader, wire, linked, unnoticed, confirmationVars>>

(* dispatchToolCalls: too many calls, or a call already made in this run *)
Stopped(r, tool) ==
    \/ Cardinality(server[r].called) >= MaxToolCalls
    \/ tool \in server[r].called

CallTool(r, tool) ==
    /\ server[r].phase = "running" /\ server[r].fits /\ linked[r]
    /\ ~Stopped(r, tool)
    /\ Served(r, [server[r] EXCEPT !.phase = "handling", !.called = @ \cup {tool},
                                   !.call = tool])
    /\ Writes(r, Frame("tool"))
    /\ UNCHANGED <<storeVars, reader, linked, unnoticed, confirmationVars>>

LimitReached(r) ==
    /\ server[r].phase = "running" /\ server[r].fits /\ linked[r]
    /\ \E tool \in Tools : Stopped(r, tool)
    /\ Fail(r)

(* Fault: any live token authorises any action. *)
VerifyAnyAction(token, action) == token # None /\ Usable(token)

(* Confirmer.Verify; a token also names its user, and there is one here. *)
Verify(token, action) == token # None /\ Usable(token) /\ tokens[token] = action

(* The handler returned; the loop notes a proposal and emits tool.completed.
   A run whose last frame is dropped goes on until it notices. *)
Handled(r, status, offer) ==
    /\ Served(r, [server[r] EXCEPT !.phase = "running", !.call = None,
                                   !.offer = IF offer = None THEN @ ELSE offer])
    /\ Writes(r, [kind |-> "toolDone", status |-> status,
                  call |-> Cardinality(server[r].called)])
    /\ UNCHANGED <<storeVars, reader, linked>>

Answers(r) ==
    /\ server[r].phase = "handling"
    /\ \E status \in IF server[r].call \in Lookups THEN {"success", "error"} ELSE {"error"} :
           Handled(r, status, None)
    /\ UNCHANGED <<unnoticed, confirmationVars>>

(* No token, or one that is not for this call: a fresh proposal *)
Proposes(r) ==
    LET action == server[r].call
    IN  /\ server[r].phase = "handling" /\ action \in Actions
        /\ Len(tokens) < MaxTokens
        /\ ~Verify(server[r].token, action)
        /\ Handled(r, "success", Len(tokens) + 1)
        /\ Offer(action)
        /\ UNCHANGED unnoticed

(* Fault: a create carries no key. *)
NeverReplayed(token) == FALSE

(* stableIdempotencyKey: the row this token added is found by its key. *)
Replayed(token) == tokens[token] \in Creates /\ taken[token] # <<>>

Executes(r) ==
    LET token == server[r].token
    IN  /\ server[r].phase = "handling"
        /\ Verify(token, server[r].call)
        /\ Handled(r, "success", None)
        /\ IF Replayed(token)
           THEN UNCHANGED <<taken, unnoticed>>
           ELSE /\ taken' = [taken EXCEPT ![token] = Append(@, server[r].call)]
                /\ unnoticed' = unnoticed \cup {r}
        /\ UNCHANGED <<tokens, expired, confirmed>>

Complete(r) ==
    /\ server[r].phase = "running" /\ server[r].fits /\ linked[r]
    /\ Over(r)
    /\ \E status \in {"completed", "other"}, long \in BOOLEAN :
           Writes(r, [kind |-> "completed", status |-> status, long |-> long,
                      token |-> server[r].offer])
    /\ UNCHANGED <<storeVars, reader, linked, unnoticed, confirmationVars>>

Serve(r) ==
    \/ Break(r) \/ GiveUp(r) \/ LimitReached(r)
    \/ \E tool \in Tools : CallTool(r, tool)
    \/ Answers(r) \/ Proposes(r) \/ Executes(r) \/ Complete(r)

TokenExpires ==
    /\ expired < MaxExpired
    /\ Expire
    /\ UNCHANGED <<storeVars, reader, wire, linked, server, unnoticed>>

Receive(r) == Deliver(r) \/ Aborted(r) \/ Finally(r)

AgentNext ==
    \/ \E long \in BOOLEAN : SendMessage(long)
    \/ SendConfirmation \/ Stop \/ Reset \/ TokenExpires
    \/ \E r \in Runs : Receive(r) \/ Cut(r) \/ Serve(r)

(* The endpoint has a deadline and the browser runs what it was given;
   the user and the network owe nothing. *)
AgentFairness ==
    \A r \in 1 .. MaxSends :
        /\ WF_chatVars(r \in Runs /\ Receive(r))
        /\ WF_chatVars(r \in Runs /\ Serve(r))

AgentSpec == AgentInit /\ [][AgentNext]_chatVars /\ AgentFairness

-----------------------------------------------------------------------------
(* The chat implements the promise about writes. *)
Promise == INSTANCE Confirmations

(* Whatever the streams do, tools are never run against the store but as
   Confirmations allows: agent/confirmation.go and agent/tools_mutate.go. *)
KeepsPromise == Promise!ConfirmationsSpec

(* The composer is blocked exactly while an exchange is being answered, and
   that is the last one: stores/agent.ts keeps both apart and late frames of
   an abandoned run must not mix them up. *)
BlockedWhileAnswering ==
    /\ loading <=> \E i \in DOMAIN turns : turns[i].status = "sending"
    /\ \A i \in DOMAIN turns : turns[i].status = "sending" => i = Len(turns)
    /\ confirmationInFlight => loading

(* ToolActivity.tsx: the heading of an exchange that is over *)
Heading(steps) ==
    IF "failed" \in ToSet(steps) THEN "interrupted"
    ELSE IF "cancelled" \in ToSet(steps) THEN "stopped"
    ELSE IF "warning" \in ToSet(steps) THEN "observations"
    ELSE "used"

(* An exchange that is over says its tools were used only when each of them
   answered: no step is left running, however the stream ended. *)
HeadingTellsTruth ==
    ~loading /\ Heading(toolActivity) = "used" => ToSet(toolActivity) \subseteq {"done"}

(* The proposal on screen is the one the last answer made: since then there
   were only attempts to confirm it, and none was answered. *)
PendingIsLatestProposal ==
    pendingConfirmation # None =>
        \E i \in DOMAIN turns :
            /\ turns[i].offer = pendingConfirmation
            /\ \A j \in i + 1 .. Len(turns) :
                   /\ turns[j].status # "done"
                   /\ server[turns[j].run].token = pendingConfirmation

(* When the exchange that changed something completes, every list the tools can
   change is fetched again: the flag the store consults is set whenever the
   server could act.
   A change goes unnoticed only when its exchange was cut, failed or was
   answered with another status. *)
CompletedChangesAreNoticed ==
    [][\A i \in DOMAIN turns :
          LET r == turns[i].run
          IN  /\ Len(turns') = Len(turns)
              /\ turns[i].status = "sending" /\ turns'[i].status = "done"
              /\ Head(wire[r]).status = "completed"
              /\ r \in unnoticed
              => unnoticed' = {}]_chatVars

(* Once a message or an answer is too long for the endpoint, no later message
   of the conversation is answered: the whole history is sent each time, and
   only a new conversation drops it. *)
OversizedHistorySticks ==
    \A i, j \in DOMAIN turns :
        i < j /\ turns[i].long => turns[j].status # "done"

(* A message is answered, fails or is stopped: the composer opens again. *)
ComposerReopens == loading ~> ~loading
=============================================================================
