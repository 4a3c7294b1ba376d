----------------------------- MODULE TabProtocol -----------------------------
(***************************************************************************)
(* What the browser bridge (apps/chrome-bridge/bin/chrome-bridge.mjs)      *)
(* promises the orchestrator about the tabs of an archive run: the order   *)
(* of the messages of each tab that decide how the run goes on.            *)
(*                                                                         *)
(* An operator whose comment starts with "Variant" is a plausible mistake  *)
(* in the definition below it.                                             *)
(***************************************************************************)
EXTENDS Naturals, Sequences

CONSTANTS
  Tabs,
  RecoveryLimit   \* conversations a tab may look through for its artifact

VARIABLES
  tab,      \* the command each tab is at
  pipe,     \* the messages sent
  reports   \* how often each tab has reported its session as expired

tabVars == <<tab, pipe, reports>>

TabsInit ==
  /\ tab = [t \in Tabs |-> "none"]
  /\ pipe = <<>>
  /\ reports = [t \in Tabs |-> 0]

Message(t, kind) == [kind |-> kind, tab |-> t]

Is(t, stages) == tab[t] \in stages
Becomes(t, stage) == tab' = [tab EXCEPT ![t] = stage]
Emit(t, kind) == pipe' = Append(pipe, Message(t, kind))

\* The commands of a tab are queued, and done one after the other.
Launch(t) ==
  /\ Is(t, {"none"}) /\ Becomes(t, "opening")
  /\ UNCHANGED <<pipe, reports>>

\* Variant: a prompt is reported when the page is open.
TabOpensSubmitting(t) ==
  /\ Is(t, {"opening"}) /\ Becomes(t, "submitting")
  /\ Emit(t, "prompt-submitted")
  /\ UNCHANGED reports

\* open-tab and upload-archive
TabOpens(t) ==
  /\ Is(t, {"opening"}) /\ Becomes(t, "submitting")
  /\ UNCHANGED <<pipe, reports>>

PromptAccepted(t) ==
  /\ Is(t, {"submitting"}) /\ Becomes(t, "monitoring")
  /\ Emit(t, "prompt-submitted")
  /\ UNCHANGED reports

\* A session found expired is reported, and fails the tab.  It does not where it is
\* found in another conversation that may have the artifact.
SessionExpires(t) ==
  /\ \/ Is(t, {"submitting", "monitoring"}) /\ Becomes(t, "failing")
     \/ Is(t, {"monitoring"}) /\ reports[t] < RecoveryLimit /\ UNCHANGED tab
  /\ Emit(t, "session-expired")
  /\ reports' = [reports EXCEPT ![t] = @ + 1]

\* A command throws, or the monitor gives up: nothing of the tab follows.
TabFails(t) ==
  /\ Is(t, {"opening", "submitting", "monitoring", "failing"}) /\ Becomes(t, "done")
  /\ Emit(t, "error")
  /\ UNCHANGED reports

\* The artifact is there; the tab still fails if its page cannot be closed.
Delivers(t, kind) ==
  /\ Is(t, {"monitoring"})
  /\ Becomes(t, "done") \/ Becomes(t, "failing")
  /\ Emit(t, kind)
  /\ UNCHANGED reports

TabWork(t) ==
  \/ TabOpens(t) \/ PromptAccepted(t) \/ SessionExpires(t) \/ TabFails(t)
  \/ \E kind \in {"archive", "file"} : Delivers(t, kind)

TabSpec == TabsInit /\ [][\E t \in Tabs : Launch(t) \/ TabWork(t)]_tabVars
=============================================================================
