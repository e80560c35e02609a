----------------------------- MODULE RosterScreen -----------------------------
(***************************************************************************)
(* The Roster page with the two components that share its dialog slot: the *)
(* manual-edit dialog and the import panel.  A step of one leaves the      *)
(* local state of the others alone; only the scope, the section and the    *)
(* dialog are common.                                                      *)
(***************************************************************************)
EXTENDS SlotEdit, ImportPanel

vars == <<screenVars, pageVars, editVars, panelVars>>

TypeOK == ScreenTypeOK /\ PageTypeOK /\ EditTypeOK /\ PanelTypeOK

Init == ScreenInit /\ PageInit /\ EditInit /\ PanelInit

Next ==
  \/ PageNext /\ UNCHANGED <<editVars, panelVars>>
  \/ MovesToScope /\ PanelKeeps /\ UNCHANGED editVars
  \/ MovesToSection /\ PanelRemounts /\ UNCHANGED editVars
  \/ EditNext /\ UNCHANGED panelVars
  \/ PanelNext /\ UNCHANGED <<pageVars, editVars>>

Spec == Init /\ [][Next]_vars

\* The network answers and polling goes on; nobody has to click, and no job has to end.
FairSpec ==
  /\ Spec
  /\ \A s \in Scope : WF_vars(Fetched(s) /\ UNCHANGED <<editVars, panelVars>>)
  /\ WF_vars(AnswerPoll /\ UNCHANGED <<editVars, panelVars>>)
  /\ WF_vars(\E c \in edits : AnswerEdit(c) /\ UNCHANGED panelVars)
  /\ WF_vars(AnswerFollow /\ UNCHANGED <<pageVars, editVars>>)
-----------------------------------------------------------------------------
(* Properties of the page as a whole, from those of its parts *)

\* What the page shows is about the company and month in its title, and the result
\* dialog about the import it was opened for, late answers or not, with the exceptions
\* that each part names.  Code: what RosterPage and WorkforceCsvPanel keep across a
\* switch and an await.
ScreenIsOfScope == BannerIsOfScope /\ ShownIsOfScope /\ StaleReportIsBrief

\* What discards a plan, overrides a warning or replaces an import was asked for in a
\* dialog about that very thing; an edit on its way is the only one of its dialog, an
\* upload of its panel, each part naming the late answers and second clicks that break
\* this.  Code: the dialog slot that RosterPage, SlotEditDialog and WorkforceCsvPanel share.
ActsWereAsked ==
  /\ ForcedWasAsked
  /\ WarningsAreOfPending /\ OneEditPerOpening
  /\ UploadsAreAgreed /\ OneUploadAtATime

\* What the planner waits for arrives: an ended generation is shown, an ended import
\* refetches the grid, a submitted edit gives the buttons back.  Code: useJobPolling's
\* stop, the tags invalidated on success, and every exit of runEdit.
AnswersArrive == GenerationShown /\ GridRefetched /\ SubmissionEnds
=============================================================================
