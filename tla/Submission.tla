----------------------------- MODULE Submission -----------------------------
(***************************************************************************)
(* The result of one accepted assignment on its way from the Mini App to    *)
(* the author (application/assignments.py, db/assignments.py, web.py).      *)
(* A performer may open several sheets, on one device after another or on   *)
(* two.  Each begins or resumes the one stored draft, saves a text under a  *)
(* revision and confirms a revision.  A request may be served long after    *)
(* its sheet gave up, or never; a sheet repeats a request under its         *)
(* operation key, and the text is edited meanwhile.                         *)
(*                                                                          *)
(* No Telegram handler calls these commands any more: only the branches     *)
(* the web API takes are modelled, which leave the conversation alone.      *)
(* held and typed are history: what the confirming sheet held of the draft, *)
(* and what the performer had typed when he pressed the button.             *)
(***************************************************************************)
EXTENDS Conversations

CONSTANTS
  Performer,  \* the member whose assignment it is
  Sheets,     \* sheets he opens
  Texts       \* texts of at least ten characters

ASSUME SubmissionAssumption ==
  /\ Performer \in Members
  /\ Nothing \notin Texts

VARIABLES
  progress,     \* the assignment: "accepted", "submitted" or "over"
  resultDraft,  \* the row of assignment_submission_drafts
  results,      \* assignment_result_versions of the assignment
  receipts,     \* processed updates: [id, fingerprint]
  sheet,        \* what each sheet of the Mini App holds
  requests,     \* requests that are not served yet
  awaited       \* requests whose sheet still waits for the answer

serverVars == <<progress, resultDraft, results, receipts>>
submissionVars == <<serverVars, sheet, requests, awaited>>

NoResultDraft == [rev |-> -1, text |-> Nothing]
NoKeys == [begin |-> 0, save |-> 0, confirm |-> 0]
Unopened == [phase |-> "unopened", draft |-> NoResultDraft, input |-> Nothing,
             enabled |-> FALSE, keys |-> NoKeys, sent |-> 0]

SubmissionInit ==
  /\ progress = "accepted"
  /\ resultDraft = NoResultDraft
  /\ results = {}
  /\ receipts = {}
  /\ sheet = [s \in Sheets |-> Unopened]
  /\ requests = {}
  /\ awaited = {}

-----------------------------------------------------------------------------
(* The sheet.                                                               *)

\* A request; n tells its copies apart, and a new operation key is n itself.
Request(s, op, state, typed) ==
  [of |-> s, op |-> op, n |-> state.sent + 1,
   key |-> IF state.keys[op] = 0 THEN state.sent + 1 ELSE state.keys[op],
   rev |-> state.draft.rev, held |-> state.draft.text, typed |-> typed]

\* The sheet, in the given state, sends a request and waits; those answered
\* are over.
Send(s, op, state, typed, answered) ==
  LET r == Request(s, op, state, typed)
  IN /\ Spend("result")
     /\ sheet' = [sheet EXCEPT ![s] =
          [state EXCEPT !.keys[op] = r.key, !.sent = @ + 1]]
     /\ requests' = (requests \ answered) \cup {r}
     /\ awaited' = (awaited \ answered) \cup {r}

\* ensureDraft, on opening and on "repeat".
OpenSheet(s) ==
  /\ \/ sheet[s].phase = "unopened"
     \/ /\ sheet[s].phase = "open" /\ sheet[s].enabled
        /\ sheet[s].draft = NoResultDraft
  /\ Send(s, "begin", [sheet[s] EXCEPT !.phase = "open", !.enabled = FALSE],
          Nothing, {})
  /\ UNCHANGED serverVars

\* An edit forgets the key of a confirmation and, when a draft is open,
\* enables the button, even while an answer is awaited.
EditText(s, t) ==
  /\ sheet[s].phase = "open"
  /\ t # sheet[s].input
  /\ sheet' = [sheet EXCEPT ![s].input = t, ![s].keys.confirm = 0,
                            ![s].enabled = sheet[s].draft # NoResultDraft]
  /\ UNCHANGED <<serverVars, requests, awaited, left>>

\* The button: a changed text is saved first, an unchanged one confirmed.
PressButton(s) ==
  LET state == sheet[s]
  IN /\ state.phase = "open" /\ state.enabled
     /\ state.draft # NoResultDraft
     /\ Send(s, IF state.draft.text # state.input THEN "save" ELSE "confirm",
             [state EXCEPT !.enabled = FALSE], state.input, {})
     /\ UNCHANGED serverVars

\* Escape or a touch beside the sheet; its running submission goes on.
DismissSheet(s) ==
  /\ sheet[s].phase = "open"
  /\ sheet' = [sheet EXCEPT ![s].phase = "dismissed"]
  /\ UNCHANGED <<serverVars, requests, awaited, left>>

-----------------------------------------------------------------------------
(* The answers.                                                             *)

\* draft = await ...: a saved draft is confirmed at once.
Answered(r, stored) ==
  LET s == r.of
  IN \/ /\ r.op = "begin"
        /\ sheet' = [sheet EXCEPT ![s].draft = stored, ![s].input = stored.text,
                                  ![s].enabled = stored.text # Nothing]
        /\ requests' = requests \ {r} /\ awaited' = awaited \ {r}
        /\ UNCHANGED left
     \/ /\ r.op = "save"
        /\ Send(s, "confirm", [sheet[s] EXCEPT !.draft = stored, !.keys.save = 0,
                                               !.keys.confirm = 0],
                r.typed, {r})
     \/ /\ r.op = "confirm"
        /\ sheet' = [sheet EXCEPT ![s].phase = "done"]
        /\ requests' = requests \ {r} /\ awaited' = awaited \ {r}
        /\ UNCHANGED left

\* A refusal forgets the keys, a network error keeps them for the repetition.
Failed(r, refused) ==
  /\ sheet' = [sheet EXCEPT ![r.of].enabled = TRUE,
       ![r.of].keys =
         IF ~refused THEN @
         ELSE IF r.op = "begin" THEN [@ EXCEPT !.begin = 0]
         ELSE [@ EXCEPT !.save = 0, !.confirm = 0]]
  /\ awaited' = awaited \ {r}
  /\ UNCHANGED left

\* The served request is answered, if somebody still waits for the answer.
Replied(r, stored) ==
  IF r \in awaited THEN Answered(r, stored)
  ELSE requests' = requests \ {r} /\ UNCHANGED <<sheet, awaited, left>>

-----------------------------------------------------------------------------
(* The server: every command holds the gate of the performer and commits    *)
(* its receipt with its effect.                                             *)

Id(r) == <<r.of, r.op, r.key>>
Fingerprint(r) == <<r.op, r.rev, IF r.op = "save" THEN r.typed ELSE Nothing>>

Stored(r) == {x \in receipts : x.id = Id(r)}

\* require_submit_allowed; "over" stands for every other end and the deadline.
MaySubmit == progress = "accepted"

Received(r) ==
  receipts' = receipts \cup {[id |-> Id(r), fingerprint |-> Fingerprint(r)]}

\* create_or_get_submission_draft
Resumed ==
  IF resultDraft = NoResultDraft THEN [NoResultDraft EXCEPT !.rev = 0] ELSE resultDraft

\* begin_submission
ServeBegin(r) ==
  /\ r.op = "begin"
  /\ resultDraft' = Resumed
  /\ UNCHANGED <<progress, results>>

\* Mutant: a save keeps the revision.
RevisedInPlace(text) == [resultDraft EXCEPT !.text = text]

\* save_submission_draft_payload
Revised(text) == [rev |-> resultDraft.rev + 1, text |-> text]

\* save_submission_draft
ServeSave(r) ==
  /\ r.op = "save"
  /\ resultDraft.rev = r.rev
  /\ resultDraft' = Revised(r.typed)
  /\ UNCHANGED <<progress, results>>

\* append_result
Appended(r) ==
  /\ results' = results \cup
       {[version |-> Cardinality(results) + 1, text |-> resultDraft.text,
         held |-> r.held, typed |-> r.typed]}
  /\ progress' = "submitted"

\* confirm_submission_draft; what it does to the task is Exchange!Submit.
ServeConfirm(r) ==
  /\ r.op = "confirm"
  /\ resultDraft.rev = r.rev
  /\ resultDraft.text # Nothing
  /\ Appended(r)
  /\ UNCHANGED resultDraft

\* A command without a receipt, on an assignment that still takes a result.
Serve(r) ==
  /\ IsActive(Performer)
  /\ Stored(r) = {}
  /\ MaySubmit
  /\ ServeBegin(r) \/ ServeSave(r) \/ ServeConfirm(r)
  /\ Received(r)
  /\ Replied(r, resultDraft')

\* _draft_replay, _result_replay: the receipt answers, with the draft as it
\* is now.
Replay(r) ==
  /\ IsActive(Performer)
  /\ \E x \in Stored(r) : x.fingerprint = Fingerprint(r)
  /\ Replied(r, resultDraft)
  /\ UNCHANGED serverVars

\* Not an active member, another fingerprint under the key, or a status or a
\* revision that does not fit.
Refuse(r) ==
  /\ \/ ~IsActive(Performer)
     \/ \E x \in Stored(r) : x.fingerprint # Fingerprint(r)
     \/ /\ Stored(r) = {}
        /\ \/ ~MaySubmit
           \/ r.op # "begin" /\ resultDraft.rev # r.rev
           \/ r.op = "confirm" /\ resultDraft.text = Nothing
  /\ requests' = requests \ {r}
  /\ IF r \in awaited THEN Failed(r, TRUE) ELSE UNCHANGED <<sheet, awaited, left>>
  /\ UNCHANGED serverVars

\* The connection breaks.  The request is served later, so that its answer is
\* lost, or never: lost on its way, or rolled back with a crash.
GiveUp(r) ==
  /\ r \in awaited
  /\ Failed(r, FALSE)
  /\ UNCHANGED <<serverVars, requests>>

\* The assignment is cancelled.
EndAssignment ==
  /\ Spend("result")
  /\ progress = "accepted"
  /\ progress' = "over"
  /\ UNCHANGED <<resultDraft, results, receipts, sheet, requests, awaited>>

SubmissionNext ==
  /\ \/ \E s \in Sheets : \/ OpenSheet(s) \/ PressButton(s) \/ DismissSheet(s)
                          \/ \E t \in Texts : EditText(s, t)
     \/ \E r \in requests : Serve(r) \/ Replay(r) \/ Refuse(r) \/ GiveUp(r)
     \/ EndAssignment
  /\ UNCHANGED <<account, flow>>

-----------------------------------------------------------------------------
(* One result is recorded at most, the text its confirming sheet holds of   *)
(* the draft, and a sheet that reports success reports that text: neither a *)
(* late confirmation nor one of another device submits a text that changed  *)
(* since (confirm_submission_draft compares the revision, the receipt is    *)
(* found before anything else).                                             *)
SubmittedAsConfirmed ==
  /\ Cardinality(results) <= 1
  /\ \A r \in results : r.text = r.held
  /\ \A s \in Sheets : sheet[s].phase = "done" =>
       \E r \in results : r.text = sheet[s].draft.text

(* The result is what the performer had typed when he pressed the button.   *)
(* Not so in the code: a repeated save is answered with the draft as it is  *)
(* now, which another save has changed, and the sheet confirms it unseen.   *)
SubmittedAsTyped == \A r \in results : r.text = r.typed
=============================================================================
