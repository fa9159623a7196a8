------------------------------ MODULE GoalsPage ------------------------------
(***************************************************************************)
(* The funding goals of the dashboard (app/dashboard/page.tsx) and the     *)
(* milestone endpoints they are kept by.                                   *)
(*                                                                         *)
(* A handler is a closure over the list that was on the screen when the    *)
(* button was pressed, and an answer replaces the list by that list with   *)
(* one goal changed: answers that overlap undo each other.  Nothing but    *)
(* the two forms is disabled while a request is under way.                 *)
(*                                                                         *)
(* A goal is its title; amounts and assets are data the endpoint checks    *)
(* (it may refuse any request) and the page only prints.                   *)
(***************************************************************************)
EXTENDS Naturals, FiniteSets

CONSTANTS
  MaxGoals,    \* bound: goals ever made
  Titles,
  None,        \* no title: null, the empty field, a goal that does not exist
  MaxRequests  \* bound: requests of the page under way at once

Goals == 1 .. MaxGoals
Slots == 1 .. MaxRequests

GoalsAssumption == MaxGoals \in Nat /\ MaxRequests \in Nat \ {0} /\ None \notin Titles

VARIABLES
  goalRows,    \* the milestones in the database: goal -> title
  goalsMade,   \* the goals that have been created; their ids ascend
  goalsView,   \* loading, away (redirected), ready
  milestones,  \* the list on the screen: goal -> title
  goalForm,    \* showMilestoneForm, editingMilestone (0: none) and the title field
  submitting,  \* the flag that disables the form's button
  goalReqs,    \* the requests under way, with what their handlers closed over
  excused      \* history: goals the page may be wrong about

goalVars == <<goalRows, goalsMade, goalsView, milestones, goalForm, submitting,
              goalReqs, excused>>

List    == [Goals -> Titles \cup {None}]
NoGoals == [g \in Goals |-> None]
NoForm  == [open |-> FALSE, editing |-> 0, title |-> None]
NoReq   == [pc |-> "free", kind |-> "none", goal |-> 0, title |-> None, seen |-> NoGoals]
Present(list) == {g \in Goals : list[g] # None}
InFlight == {q \in Slots : goalReqs[q].pc # "free"}

TypeOK ==
  /\ goalRows \in List /\ milestones \in List
  /\ goalsMade \in 0 .. MaxGoals /\ excused \subseteq Goals
  /\ goalsView \in {"loading", "away", "ready"}
  /\ goalForm \in [open : BOOLEAN, editing : Goals \cup {0}, title : Titles \cup {None}]
  /\ submitting \in BOOLEAN
  /\ goalReqs \in [Slots -> [pc : {"free", "sent", "done"},
                             kind : {"none", "add", "edit", "delete"},
                             goal : Goals \cup {0}, title : Titles \cup {None},
                             seen : List]]

\* The page is opened by the owner of some milestones.
Init ==
  /\ goalsMade \in 0 .. MaxGoals
  /\ goalRows \in {r \in List : Present(r) \subseteq 1 .. goalsMade}
  /\ goalsView = "loading" /\ milestones = NoGoals /\ goalForm = NoForm
  /\ submitting = FALSE /\ goalReqs = [q \in Slots |-> NoReq] /\ excused = {}

-----------------------------------------------------------------------------
(* loadDashboard.                                                          *)

serverVars == <<goalRows, goalsMade>>
screenVars == <<goalsView, milestones, goalForm, submitting>>

\* The four requests are answered; a list that is refused stays empty.
Loaded ==
  /\ goalsView = "loading" /\ goalsView' = "ready"
  /\ \/ milestones' = goalRows /\ UNCHANGED excused
     \/ excused' = Goals /\ UNCHANGED milestones
  /\ UNCHANGED <<serverVars, goalForm, submitting, goalReqs>>

\* GET /auth/me is refused, or names no profile: router.push("/").
Redirected ==
  /\ goalsView = "loading" /\ goalsView' = "away"
  /\ UNCHANGED <<serverVars, milestones, goalForm, submitting, goalReqs, excused>>

-----------------------------------------------------------------------------
(* The buttons.                                                            *)

OpenForm ==
  /\ goalsView = "ready" /\ ~goalForm.open
  /\ goalForm' = [goalForm EXCEPT !.open = TRUE]
  /\ UNCHANGED <<serverVars, goalsView, milestones, submitting, goalReqs, excused>>

\* The pencil of any goal fills the form, over what it holds.
EditGoal(g) ==
  /\ goalsView = "ready" /\ g \in Present(milestones)
  /\ goalForm' = [open |-> TRUE, editing |-> g, title |-> milestones[g]]
  /\ UNCHANGED <<serverVars, goalsView, milestones, submitting, goalReqs, excused>>

TypeTitle(t) ==
  /\ goalsView = "ready" /\ goalForm.open /\ t # goalForm.title
  /\ goalForm' = [goalForm EXCEPT !.title = t]
  /\ UNCHANGED <<serverVars, goalsView, milestones, submitting, goalReqs, excused>>

CancelForm ==
  /\ goalsView = "ready" /\ goalForm.open /\ goalForm' = NoForm
  /\ UNCHANGED <<serverVars, goalsView, milestones, submitting, goalReqs, excused>>

Request(q, kind, g, t) ==
  /\ goalReqs[q].pc = "free"
  /\ goalReqs' = [goalReqs EXCEPT ![q] = [pc |-> "sent", kind |-> kind, goal |-> g,
                                  title |-> t, seen |-> milestones]]

\* handleAddMilestone up to its fetch: POST, or PATCH of the goal being edited.
Submit(q) ==
  /\ goalsView = "ready" /\ goalForm.open /\ ~submitting /\ goalForm.title # None
  /\ Request(q, IF goalForm.editing = 0 THEN "add" ELSE "edit", goalForm.editing, goalForm.title)
  /\ submitting' = TRUE
  /\ UNCHANGED <<serverVars, goalsView, milestones, goalForm, excused>>

\* handleDeleteMilestone up to its fetch, once the goal's bin and its "Confirm"
\* are pressed; neither is disabled meanwhile.
Delete(q, g) ==
  /\ goalsView = "ready" /\ g \in Present(milestones)
  /\ Request(q, "delete", g, None)
  /\ UNCHANGED <<serverVars, screenVars, excused>>

-----------------------------------------------------------------------------
(* The endpoints.                                                          *)

\* Another request has written goal g, and its answer may come after this one's.
WrittenTwice(g) ==
  excused' = IF \E p \in Slots : goalReqs[p].pc = "done" /\ goalReqs[p].goal = g
             THEN excused \cup {g} ELSE excused
Answered(q, g) == goalReqs' = [goalReqs EXCEPT ![q].pc = "done", ![q].goal = g]

\* POST: the new row, in a Serializable transaction under the cap of 20.
Create(q) ==
  /\ goalReqs[q].pc = "sent" /\ goalReqs[q].kind = "add" /\ goalsMade < MaxGoals
  /\ goalsMade' = goalsMade + 1
  /\ goalRows' = [goalRows EXCEPT ![goalsMade + 1] = goalReqs[q].title]
  /\ Answered(q, goalsMade + 1)
  /\ UNCHANGED <<screenVars, excused>>

\* PATCH.  (The page always sends a targetAmount, which a reached goal refuses.)
Update(q) ==
  LET g == goalReqs[q].goal IN
  /\ goalReqs[q].pc = "sent" /\ goalReqs[q].kind = "edit" /\ g \in Present(goalRows)
  /\ goalRows' = [goalRows EXCEPT ![g] = goalReqs[q].title]
  /\ Answered(q, g) /\ WrittenTwice(g)
  /\ UNCHANGED <<goalsMade, screenVars>>

Remove(q) ==
  LET g == goalReqs[q].goal IN
  /\ goalReqs[q].pc = "sent" /\ goalReqs[q].kind = "delete" /\ g \in Present(goalRows)
  /\ goalRows' = [goalRows EXCEPT ![g] = None]
  /\ Answered(q, g) /\ WrittenTwice(g)
  /\ UNCHANGED <<goalsMade, screenVars>>

-----------------------------------------------------------------------------
(* The answers.                                                            *)

Finish(q) == goalReqs' = [goalReqs EXCEPT ![q] = NoReq]

\* Fault seeded for the checks: an edited goal is put back as it was shown.
ListWithOld(q) == IF goalReqs[q].kind = "edit" THEN goalReqs[q].seen
                  ELSE [goalReqs[q].seen EXCEPT ![goalReqs[q].goal] = goalReqs[q].title]
\* The handler's own list with its goal added, changed or (None) filtered out;
\* map() changes nothing when the goal is not in that list.
ListWith(q) ==
  IF goalReqs[q].kind = "edit" /\ goalReqs[q].goal \notin Present(goalReqs[q].seen)
  THEN goalReqs[q].seen
  ELSE [goalReqs[q].seen EXCEPT ![goalReqs[q].goal] = goalReqs[q].title]

\* Other goals that the list on the screen has otherwise than the handler's own.
Undone(q) == {g \in Goals : g # goalReqs[q].goal /\ goalReqs[q].seen[g] # milestones[g]}

\* The handler goes on with an answer that is ok.
Succeed(q) ==
  /\ goalReqs[q].pc = "done"
  /\ milestones' = ListWith(q)
  /\ IF goalReqs[q].kind = "delete" THEN UNCHANGED <<goalForm, submitting>>
     ELSE goalForm' = NoForm /\ submitting' = FALSE
  /\ excused' = excused \cup Undone(q)
  /\ Finish(q)
  /\ UNCHANGED <<serverVars, goalsView>>

\* A toast: the request is refused (400 to 500, 429 included) and nothing is
\* written, or its answer is lost on the way.
Fail(q) ==
  /\ goalReqs[q].pc \in {"sent", "done"}
  /\ submitting' = (submitting /\ goalReqs[q].kind = "delete")
  /\ excused' = IF goalReqs[q].pc = "done" THEN excused \cup {goalReqs[q].goal} ELSE excused
  /\ Finish(q)
  /\ UNCHANGED <<serverVars, goalsView, milestones, goalForm>>

-----------------------------------------------------------------------------
Next ==
  \/ Loaded \/ Redirected \/ OpenForm \/ CancelForm
  \/ \E g \in Goals : EditGoal(g) \/ \E q \in Slots : Delete(q, g)
  \/ \E t \in Titles : TypeTitle(t)
  \/ \E q \in Slots : \/ Submit(q) \/ Create(q) \/ Update(q) \/ Remove(q)
                      \/ Succeed(q) \/ Fail(q)

Spec == Init /\ [][Next]_goalVars

-----------------------------------------------------------------------------
(* Properties.                                                             *)

\* When nothing is under way, the list shows the goals of the database, however their
\* requests overlapped.  A goal may differ only if the answer of a request about it was
\* lost, if two requests wrote it and neither was answered in between, or if an answer
\* put back what its handler remembered of it (page.tsx 299-303 and 345 replace the
\* list by that of the handler).
ListIsRight ==
  goalsView = "ready" /\ InFlight = {} =>
    \A g \in Goals \ excused : milestones[g] = goalRows[g]
=============================================================================
