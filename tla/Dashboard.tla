------------------------------ MODULE Dashboard ------------------------------
(***************************************************************************)
(* The dashboard (frontend/src/App.tsx, components/GuardCard.tsx) in front *)
(* of the service.  The page serves one action of its user at a time; an   *)
(* action is a series of requests (api/client.ts), each of which is        *)
(* answered, refused, or given up after two minutes or a network failure.  *)
(* A request that was given up may still reach the service, whose handlers *)
(* run to their end whether or not somebody waits.                         *)
(*                                                                         *)
(* The service is modelled by what a request does to the rows the page     *)
(* shows; GuardLifecycle and AuditRun have its inner steps.  Two handlers  *)
(* keep the steps between which a page may see their rows: overlapping     *)
(* previews reset a status, and an approval is committed before its file   *)
(* is written and taken back when the write fails.  A page cannot open the *)
(* run of another, so one page is enough.                                  *)
(***************************************************************************)
EXTENDS Integers, FiniteSets

CONSTANTS NumGuards,   \* guards generated for a run
          MaxRuns,     \* bound: runs the service creates
          Outcomes,    \* results a guard may have here
          MaxLate,     \* bound: abandoned requests that still travel
          MaxCuts,     \* bound: answers that lose their body
          MaxFaults    \* bound: writes of the service that fail half way

ASSUME BoundsAssumption ==
  /\ NumGuards \in Nat \ {0} /\ MaxRuns \in Nat \ {0}
  /\ MaxLate \in Nat /\ MaxCuts \in Nat /\ MaxFaults \in Nat
ASSUME OutcomesAssumption == Outcomes \subseteq {"PASSED", "FAILED", "TIMED_OUT", "ERROR"}

Runs == 1..MaxRuns
GuardIds == Runs \X (1..NumGuards)     \* a guard's id is derived from its run's
Of(r) == {id \in GuardIds : id[1] = r}

VARIABLES
  pending,     \* App.tsx pendingAction: the action in progress, "none" between actions
  error,       \* an error is shown
  run,         \* the run shown, 0 for none
  details,     \* the run whose verdicts, evidence and graph are shown, 0 for none
  guards,      \* guards[id]: status on the guard's card, "NONE" without a card
  executions,  \* executions[id]: result on the card, "NONE" without one
  blank,       \* rendering failed and React removed the page
  call,        \* the request the action waits for
  late,        \* abandoned requests the service has yet to serve
  outcome,     \* outcome[r]: status of the stored run, "NONE" before it exists
  status,      \* status[id]: guard_specs.status
  approval,    \* approval[id]: the guard_approvals row
  results,     \* results[id]: results of the stored executions
  written,     \* guards whose artifact is complete
  clicks,      \* history: clicks[id], the decisions the user made on a card
  stale,       \* history: guards some change of which the page was not told
  withdrawn,   \* history: guards whose approval a failed write took back
  bare,        \* history: the detail requests of the run shown failed
  cuts,        \* bodies lost so far
  faults       \* writes failed so far

page == <<pending, error, run, details, guards, executions, blank>>
exchange == <<call, late>>
service == <<outcome, status, approval, results, written, faults>>
history == <<clicks, stale, withdrawn, bare, cuts>>
vars == <<page, exchange, service, history>>

Executable == {"WRITTEN", "PASSED", "FAILED", "TIMED_OUT", "ERROR"}
GuardStatus == {"PREVIEWED", "REJECTED"} \cup Executable

Ops == {"project", "incident", "run", "details", "preview", "approve", "reject", "execute", "list"}
ActionOf(op) ==
  CASE op \in {"project", "incident", "run", "details"} -> "audit"
    [] op = "preview"                                   -> "preview"
    [] op \in {"approve", "reject"}                     -> "decision"
    [] op \in {"execute", "list"}                       -> "execution"

(* A request: what it asks, of which guard (or run, with guard 0), and how   *)
(* far the service got with it: a preview that found no guard is "listed", a *)
(* committed approval is "writing".                                          *)
Request(op, id) == [op |-> op, id |-> id, step |-> "sent", value |-> "NONE"]
NoCall == [op |-> "none", id |-> <<0, 0>>, step |-> "none", value |-> "NONE"]
Served == {"sent", "listed", "writing"}
Answered == {"ok", "refused"}

TypeOK ==
  /\ pending \in {"none", "audit", "preview", "decision", "execution"}
  /\ error \in BOOLEAN /\ blank \in BOOLEAN /\ bare \in BOOLEAN
  /\ run \in 0..MaxRuns /\ details \in 0..MaxRuns
  /\ guards \in [GuardIds -> GuardStatus \cup {"NONE"}]
  /\ executions \in [GuardIds -> Outcomes \cup {"NONE"}]
  /\ call # NoCall => call.op \in Ops /\ call.step \in Served \cup Answered
  /\ \A r \in late : r.op \in Ops /\ r.step \in Served
  /\ Cardinality(late) <= MaxLate
  /\ outcome \in [Runs -> {"NONE", "COMPLETE", "FAILED"}]
  /\ status \in [GuardIds -> GuardStatus \cup {"NONE"}]
  /\ approval \in [GuardIds -> {"NONE", "APPROVED", "REJECTED"}]
  /\ results \in [GuardIds -> SUBSET Outcomes]
  /\ clicks \in [GuardIds -> SUBSET {"approve", "reject"}]
  /\ written \subseteq GuardIds /\ stale \subseteq GuardIds /\ withdrawn \subseteq GuardIds
  /\ cuts \in 0..MaxCuts /\ faults \in 0..MaxFaults

Nothing(value) == [id \in GuardIds |-> value]

Init ==
  /\ pending = "none" /\ error = FALSE /\ run = 0 /\ details = 0
  /\ guards = Nothing("NONE") /\ executions = Nothing("NONE") /\ blank = FALSE
  /\ call = NoCall /\ late = {}
  /\ outcome = [r \in Runs |-> "NONE"] /\ status = Nothing("NONE")
  /\ approval = Nothing("NONE") /\ results = Nothing({})
  /\ written = {}
  /\ clicks = Nothing({}) /\ stale = {} /\ withdrawn = {} /\ bare = FALSE
  /\ cuts = 0 /\ faults = 0

-----------------------------------------------------------------------------
(* Actions of the user.  Every button is disabled while an action is pending. *)

Begin(op, id) ==
  /\ pending = "none" /\ ~ blank
  /\ pending' = ActionOf(op)
  /\ error' = FALSE
  /\ call' = Request(op, id)

(* Mutant of StartAudit: the cards of the last audit stay. *)
StartAuditOver ==
  /\ Begin("project", <<0, 0>>)
  /\ run' = 0 /\ details' = 0 /\ bare' = FALSE
  /\ UNCHANGED <<guards, executions, blank, late, service, clicks, stale, withdrawn, cuts>>

(* startAudit: everything on screen is cleared before the first request. *)
StartAudit ==
  /\ Begin("project", <<0, 0>>)
  /\ run' = 0 /\ details' = 0 /\ bare' = FALSE
  /\ guards' = Nothing("NONE") /\ executions' = Nothing("NONE")
  /\ UNCHANGED <<blank, late, service, clicks, stale, withdrawn, cuts>>

(* previewGuards: the button needs a run that is COMPLETE. *)
PreviewGuards ==
  /\ run # 0 /\ outcome[run] = "COMPLETE"
  /\ Begin("preview", <<run, 0>>)
  /\ UNCHANGED <<run, details, guards, executions, blank, late, service,
                 clicks, stale, withdrawn, bare, cuts>>

(* decideGuard: approve or reject a card that shows PREVIEWED. *)
DecideGuard(id, decision) ==
  /\ guards[id] = "PREVIEWED"
  /\ Begin(decision, id)
  /\ clicks' = [clicks EXCEPT ![id] = @ \cup {decision}]
  /\ UNCHANGED <<run, details, guards, executions, blank, late, service,
                 stale, withdrawn, bare, cuts>>

(* executeGuard: canExecuteGuard of lib/status.ts. *)
ExecuteGuard(id) ==
  /\ guards[id] \in Executable
  /\ Begin("execute", id)
  /\ UNCHANGED <<run, details, guards, executions, blank, late, service,
                 clicks, stale, withdrawn, bare, cuts>>

-----------------------------------------------------------------------------
(* The service.  The request is the one the page waits for or a late one. *)

Open == {r \in {call} : r.step \in Served}

(* The service goes on to answer, or to the next step of, request r.  What a *)
(* late request changes the page is not told.                                *)
Proceed(r, isLate, next, changed) ==
  /\ IF isLate
     THEN /\ late' = (late \ {r}) \cup (IF next.step \in Answered THEN {} ELSE {next})
          /\ call' = call
     ELSE call' = next /\ late' = late
  /\ stale' = IF isLate THEN stale \cup changed ELSE stale
  /\ UNCHANGED <<page, clicks, bare, cuts>>

Reply(r, value) == [r EXCEPT !.step = "ok", !.value = value]

Refused(r) == [r EXCEPT !.step = "refused"]

(* A write of the service fails. *)
Fault == faults < MaxFaults /\ faults' = faults + 1

(* The service fails after it changed the rows of some guards. *)
Break(r, isLate, changed) ==
  /\ IF isLate THEN call' = call /\ late' = late \ {r} ELSE call' = Refused(r) /\ late' = late
  /\ stale' = stale \cup changed
  /\ UNCHANGED <<page, clicks, bare, cuts>>

(* Any request may be refused before it changes a row: invalid input, a      *)
(* conflict with what is stored (409), an artifact that is missing or changed *)
(* (422), a failure of the service (500).                                    *)
Refuse(r, isLate) ==
  /\ r.step # "writing"
  /\ Proceed(r, isLate, Refused(r), {})
  /\ UNCHANGED <<service, withdrawn>>

(* Reads, and the two posts that only register what the audit needs. *)
Register(r, isLate) ==
  /\ r.op \in {"project", "incident", "details"}
  /\ Proceed(r, isLate, Reply(r, "NONE"), {})
  /\ UNCHANGED <<service, withdrawn>>

(* POST /runs audits the incident and answers the stored run. *)
CreateRun(r, isLate) ==
  /\ r.op = "run"
  /\ \E new \in Runs, final \in {"COMPLETE", "FAILED"} :
       /\ \A old \in Runs : outcome[old] = "NONE" <=> old >= new
       /\ outcome' = [outcome EXCEPT ![new] = final]
       /\ Proceed(r, isLate, Reply(r, new), {})
  /\ UNCHANGED <<status, approval, results, written, withdrawn, faults>>

Cards(s, run_) == [id \in GuardIds |-> IF id[1] = run_ THEN s[id] ELSE "NONE"]

(* GET .../guards, and the early return of preview for guards that exist.    *)
(* The answer tells the page of every change so far.                         *)
ListGuards(r, isLate) ==
  /\ \/ r.op = "list"
     \/ r.op = "preview" /\ r.step = "sent" /\ \E id \in Of(r.id[1]) : status[id] # "NONE"
  /\ IF isLate
     THEN Proceed(r, isLate, Reply(r, "NONE"), {})
     ELSE /\ call' = Reply(r, Cards(status, r.id[1]))
          /\ stale' = stale \ Of(r.id[1])
          /\ UNCHANGED <<page, late, clicks, bare, cuts>>
  /\ UNCHANGED <<service, withdrawn>>

(* GuardService.preview: no guard is listed yet ... *)
FindNoGuards(r, isLate) ==
  /\ r.op = "preview" /\ r.step = "sent"
  /\ \A id \in Of(r.id[1]) : status[id] = "NONE"
  /\ Proceed(r, isLate, [r EXCEPT !.step = "listed"], {})
  /\ UNCHANGED <<service, withdrawn>>

(* ... and the generated ones are saved, over those of an overlapping call.  *)
SaveGuards(r, isLate) ==
  /\ r.op = "preview" /\ r.step = "listed"
  /\ status' = [id \in GuardIds |-> IF id[1] = r.id[1] THEN "PREVIEWED" ELSE status[id]]
  /\ Proceed(r, isLate, Reply(r, Cards(status', r.id[1])), Of(r.id[1]))
  /\ UNCHANGED <<outcome, approval, results, written, withdrawn, faults>>

(* ... or a save raises, and those before it stand. *)
SaveRaises(r, isLate) ==
  /\ r.op = "preview" /\ r.step = "listed"
  /\ \E saved \in SUBSET Of(r.id[1]) \ {Of(r.id[1])} :
       /\ status' = [id \in GuardIds |-> IF id \in saved THEN "PREVIEWED" ELSE status[id]]
       /\ Break(r, isLate, saved)
  /\ UNCHANGED <<outcome, approval, results, written, withdrawn>>
  /\ Fault

(* GuardService.decide: the guard is PREVIEWED and has no decision row.  A   *)
(* rejection is answered at once ...                                         *)
Undecided(id) == status[id] = "PREVIEWED" /\ approval[id] = "NONE"

Reject(r, isLate) ==
  /\ r.op = "reject" /\ Undecided(r.id)
  /\ status' = [status EXCEPT ![r.id] = "REJECTED"]
  /\ approval' = [approval EXCEPT ![r.id] = "REJECTED"]
  /\ Proceed(r, isLate, Reply(r, "REJECTED"), {r.id})
  /\ UNCHANGED <<outcome, results, written, withdrawn, faults>>

(* ... an approval is committed, for every other request to see, ...         *)
Approve(r, isLate) ==
  /\ r.op = "approve" /\ r.step = "sent" /\ Undecided(r.id)
  /\ status' = [status EXCEPT ![r.id] = "WRITTEN"]
  /\ approval' = [approval EXCEPT ![r.id] = "APPROVED"]
  /\ Proceed(r, isLate, [r EXCEPT !.step = "writing"], {r.id})
  /\ UNCHANGED <<outcome, results, written, withdrawn, faults>>

(* ... then its artifact is written, ...                                     *)
WriteArtifact(r, isLate) ==
  /\ r.step = "writing"
  /\ written' = written \cup {r.id}
  /\ Proceed(r, isLate, Reply(r, "WRITTEN"), {})
  /\ UNCHANGED <<outcome, status, approval, results, withdrawn, faults>>

(* ... or the write fails and the preview is restored, ...                   *)
RestorePreview(r, isLate) ==
  /\ r.step = "writing"
  /\ status' = [status EXCEPT ![r.id] = "PREVIEWED"]
  /\ approval' = [approval EXCEPT ![r.id] = "NONE"]
  /\ withdrawn' = withdrawn \cup {r.id}
  /\ Proceed(r, isLate, Refused(r), {r.id})
  /\ UNCHANGED <<outcome, results, written>>
  /\ Fault

(* ... or the restore fails too: refused, and decided all the same.          *)
RestoreRaises(r, isLate) ==
  /\ r.step = "writing"
  /\ Break(r, isLate, {r.id})
  /\ UNCHANGED <<outcome, status, approval, results, written, withdrawn>>
  /\ Fault

(* Mutant of Execute: the artifact is not looked for. *)
ExecuteApproved(r, isLate) ==
  /\ r.op = "execute"
  /\ status[r.id] \in Executable /\ approval[r.id] = "APPROVED"
  /\ \E result \in Outcomes :
       /\ status' = [status EXCEPT ![r.id] = result]
       /\ results' = [results EXCEPT ![r.id] = @ \cup {result}]
       /\ Proceed(r, isLate, Reply(r, result), {r.id})
  /\ UNCHANGED <<outcome, approval, written, withdrawn, faults>>

(* GuardService.execute, to the end: approved, and the artifact is there. *)
Execute(r, isLate) ==
  /\ r.op = "execute"
  /\ status[r.id] \in Executable /\ approval[r.id] = "APPROVED" /\ r.id \in written
  /\ \E result \in Outcomes :
       /\ status' = [status EXCEPT ![r.id] = result]
       /\ results' = [results EXCEPT ![r.id] = @ \cup {result}]
       /\ Proceed(r, isLate, Reply(r, result), {r.id})
  /\ UNCHANGED <<outcome, approval, written, withdrawn, faults>>

Handle(r, isLate) ==
  \/ Refuse(r, isLate) \/ Register(r, isLate) \/ CreateRun(r, isLate)
  \/ ListGuards(r, isLate) \/ FindNoGuards(r, isLate) \/ SaveGuards(r, isLate)
  \/ SaveRaises(r, isLate) \/ Reject(r, isLate) \/ Approve(r, isLate)
  \/ WriteArtifact(r, isLate) \/ RestorePreview(r, isLate) \/ RestoreRaises(r, isLate) \/ Execute(r, isLate)

Serve == \E isLate \in BOOLEAN : \E r \in IF isLate THEN late ELSE Open : Handle(r, isLate)

-----------------------------------------------------------------------------
(* The page *)

(* The guards whose state the page may not know once request c is given up. *)
Touched(c) == CASE c.op \in {"preview", "list"}              -> Of(c.id[1])
                [] c.op \in {"approve", "reject", "execute"} -> {c.id}
                [] OTHER                                      -> {}

(* The catch and finally clauses of the four handlers. *)
Fail(touched) ==
  /\ pending' = "none" /\ error' = TRUE
  /\ stale' = stale \cup touched
  /\ bare' = (bare \/ call.op = "details")
  /\ call' = NoCall
  /\ UNCHANGED <<run, details, guards, executions, blank, service, clicks, withdrawn, cuts>>

(* The action is over and its answer used. *)
Settle == pending' = "none" /\ call' = NoCall

TakeRegistered ==
  /\ call.op \in {"project", "incident"}
  /\ call' = Request(IF call.op = "project" THEN "incident" ELSE "run", <<0, 0>>)
  /\ UNCHANGED page

(* The run is shown before its three detail requests are made. *)
TakeRun ==
  /\ call.op = "run"
  /\ run' = call.value
  /\ call' = Request("details", <<call.value, 0>>)
  /\ UNCHANGED <<pending, error, details, guards, executions, blank>>

TakeDetails ==
  /\ call.op = "details"
  /\ details' = call.id[1]
  /\ Settle
  /\ UNCHANGED <<error, run, guards, executions, blank>>

TakeGuards ==
  /\ call.op \in {"preview", "list"}
  /\ guards' = call.value
  /\ Settle
  /\ UNCHANGED <<error, run, details, executions, blank>>

TakeDecision ==
  /\ call.op \in {"approve", "reject"}
  /\ guards' = [guards EXCEPT ![call.id] = IF @ = "NONE" THEN @ ELSE call.value]
  /\ Settle
  /\ UNCHANGED <<error, run, details, executions, blank>>

(* Mutant of TakeExecution: the guards are not listed again. *)
TakeExecutionOnly ==
  /\ call.op = "execute"
  /\ executions' = [executions EXCEPT ![call.id] = call.value]
  /\ Settle
  /\ UNCHANGED <<error, run, details, guards, blank>>

(* The result is shown before the guards are listed again. *)
TakeExecution ==
  /\ call.op = "execute"
  /\ executions' = [executions EXCEPT ![call.id] = call.value]
  /\ call' = Request("list", call.id)
  /\ UNCHANGED <<pending, error, run, details, guards, blank>>

Receive ==
  /\ call.step = "ok"
  /\ \/ TakeRegistered \/ TakeRun \/ TakeDetails \/ TakeGuards \/ TakeDecision \/ TakeExecution
  /\ UNCHANGED <<late, service, history>>

(* An answer that is not ok becomes an error.  A failed listing leaves the   *)
(* card of an executed guard as it was.                                      *)
ReceiveRefusal ==
  /\ call.step = "refused"
  /\ Fail(IF call.op = "list" THEN {call.id} ELSE {})
  /\ UNCHANGED late

(* Mutant of Expire: only an answer ends a request. *)
ExpireAnswered ==
  /\ call.step \in Answered
  /\ Fail(Touched(call))
  /\ UNCHANGED late

(* requestJson gives up: the timer fires or the network fails.  A request    *)
(* the service has not finished with may be served all the same.             *)
Expire ==
  /\ call # NoCall
  /\ Fail(Touched(call))
  /\ \/ UNCHANGED late
     \/ /\ call.step \notin Answered
        /\ late' = late \cup {call}
        /\ Cardinality(late') <= MaxLate

(* The body of an answer with status 200 is lost while it is read:           *)
(* `response.json().catch(() => ({}))` takes it for an empty object.  A       *)
(* missing id is refused by the next post; an empty decision matches no       *)
(* card; any other empty answer cannot be rendered.                           *)
ReceiveCut ==
  /\ call.step = "ok" /\ cuts < MaxCuts
  /\ cuts' = cuts + 1
  /\ IF call.op \in {"project", "incident"}
     THEN error' = TRUE /\ UNCHANGED <<run, details, guards, executions, blank>>
     ELSE IF call.op \in {"approve", "reject"}
     THEN UNCHANGED <<error, run, details, guards, executions, blank>>
     ELSE /\ blank' = TRUE /\ error' = FALSE /\ run' = 0 /\ details' = 0
          /\ guards' = Nothing("NONE") /\ executions' = Nothing("NONE")
  /\ Settle
  /\ stale' = stale \cup Touched(call)
  /\ UNCHANGED <<late, service, clicks, withdrawn, bare>>

(* The user loads the page anew. *)
Reload ==
  /\ pending' = "none" /\ error' = FALSE /\ run' = 0 /\ details' = 0 /\ blank' = FALSE
  /\ guards' = Nothing("NONE") /\ executions' = Nothing("NONE")
  /\ call' = NoCall /\ bare' = FALSE
  /\ \E kept \in SUBSET Open : /\ late' = late \cup kept
                               /\ Cardinality(late') <= MaxLate
  /\ UNCHANGED <<service, clicks, stale, withdrawn, cuts>>

User == \/ StartAudit \/ PreviewGuards \/ Reload
        \/ \E id \in GuardIds : \/ \E decision \in {"approve", "reject"} : DecideGuard(id, decision)
                                \/ ExecuteGuard(id)

Page == Receive \/ ReceiveRefusal \/ Expire

Next == User \/ Page \/ ReceiveCut \/ Serve

Spec == Init /\ [][Next]_vars

(* The browser's timer fires and its event loop runs; the user, the network  *)
(* and the service owe nothing.                                              *)
FairSpec == Spec /\ WF_vars(Page)

-----------------------------------------------------------------------------
(* Properties *)

(* Whatever order answers, timeouts and audits come in, the screen speaks of *)
(* one run: details, cards and results are of the run shown (App.tsx:54-90). *)
ScreenIsOneRun ==
  /\ details \in {0, run}
  /\ \A id \in GuardIds :
       /\ guards[id] # "NONE" => id[1] = run
       /\ executions[id] # "NONE" => guards[id] # "NONE"

(* A decision the page shows is the one recorded, save an approval that a    *)
(* failed write took back after the page had listed it; a recorded decision  *)
(* is one the user took on a card; and a result shown is a recorded one of a *)
(* guard approved and written, although requests that were given up and      *)
(* repeated may arrive in any order and an approval is seen before it is     *)
(* written (GuardCard.tsx:54-75, service.py:92-97; "An unapproved guard      *)
(* preview cannot execute", TESTING.md:85).                                  *)
ShownDecisionStands ==
  \A id \in GuardIds :
    /\ guards[id] = "REJECTED" => approval[id] = "REJECTED"
    /\ guards[id] \in Executable =>
         approval[id] = "APPROVED" \/ (guards[id] = "WRITTEN" /\ id \in withdrawn)
    /\ approval[id] = "APPROVED" => "approve" \in clicks[id]
    /\ approval[id] = "REJECTED" => "reject" \in clicks[id]
    /\ executions[id] # "NONE" =>
         executions[id] \in results[id] /\ id \in written /\ approval[id] = "APPROVED"

(* Between actions a card shows the stored status, and a run its details,    *)
(* unless a request about them failed or was served after it was given up:   *)
(* partial failures at App.tsx:80 and 137 are the only sources of a stale    *)
(* screen.                                                                   *)
StaleOnlyAfterFailure ==
  pending = "none" /\ ~ blank =>
    /\ run # 0 /\ details # run => bare
    /\ \A id \in GuardIds \ stale : guards[id] # "NONE" => guards[id] = status[id]

(* Every action ends, however the service behaves: the buttons are never     *)
(* disabled for good (client.ts:7, the finally clauses of App.tsx).          *)
ActionSettles == pending # "none" ~> pending = "none"
=============================================================================
