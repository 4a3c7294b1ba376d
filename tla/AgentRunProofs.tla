--------------------------- MODULE AgentRunProofs ---------------------------
(***************************************************************************)
(* Proofs about AgentRun and the archive run and leases it is made of, for *)
(* any number of tabs, accounts and holders and any limits.                *)
(*                                                                         *)
(* First the launches of the archive run, which follow from what the       *)
(* messages of a tab say of it; then what the summary and the snapshot     *)
(* tell of the run; then the leases.                                       *)
(***************************************************************************)
EXTENDS AgentRun, FiniteSetTheorems, SequenceTheorems, TLAPS

(***************************************************************************)
(* Tabs and their messages.                                                *)
(***************************************************************************)
Stages == {"none", "opening", "submitting", "monitoring", "failing", "done"}
Kinds == {"prompt-submitted", "session-expired", "error", "archive", "file", "garbled"}
Jobs == {"none", "queued", "running", "succeeded", "failed", "lost"}
Messages == [kind : Kinds, tab : Tabs \cup {NoTab}]

RunType ==
  /\ nextTab \in Nat
  /\ tab \in [Tabs -> Stages]
  /\ job \in [Tabs -> Jobs]
  /\ pipe \in Seq(Messages)
  /\ \A i \in 1 .. Len(pipe) : pipe[i].tab = NoTab => pipe[i].kind = "garbled"
  /\ downloaded \subseteq Tabs /\ deployed \subseteq Tabs

Uploading == {"opening", "submitting"}
Over == {"failing", "done"}

\* The tab that uploads or submits is the one waited for, none is scheduled meanwhile,
\* and who has sent a message no longer submits.
InLine ==
  /\ \A t \in Tabs : tab[t] \in Uploading => waiting = t
  /\ scheduled # NoTab => waiting = NoTab
  /\ phase \in {"idle", "starting"} => waiting = NoTab /\ scheduled = NoTab
  /\ \A i \in 1 .. Len(pipe) :
       pipe[i].tab \in Tabs => tab[pipe[i].tab] \notin Uploading \cup {"none"}

\* A tab delivers once, as the last it does: its artifact is on its way or was counted,
\* and its deploy is the artifact's.
Delivery(i) == pipe[i].kind \in {"archive", "file"}

DeliversOnce ==
  /\ \A i \in 1 .. Len(pipe) :
       Delivery(i) =>
         /\ tab[pipe[i].tab] \in Over
         /\ job[pipe[i].tab] = "none" /\ pipe[i].tab \notin deployed
  /\ \A i, j \in 1 .. Len(pipe) :
       Delivery(i) /\ Delivery(j) /\ pipe[i].tab = pipe[j].tab => i = j
  /\ \A t \in Tabs : job[t] # "none" \/ t \in deployed => tab[t] \in Over
  /\ deploys => \A t \in deployed : job[t] = "succeeded"

LineInv == RunType /\ InLine /\ DeliversOnce

(***************************************************************************)
(* What a step of the bridge's tab does.                                   *)
(***************************************************************************)
\* A message tells that its tab no longer submits, a delivery that it is over.
TabMoves(t) ==
  /\ tab' = [tab EXCEPT ![t] = tab'[t]]
  /\ tab'[t] \in Stages \ {"none", "opening"}
  /\ tab[t] \notin {"none", "done"}
  /\ tab[t] \in Over => tab'[t] \in Over
  /\ tab'[t] = "submitting" => tab[t] = "opening" /\ pipe' = pipe
  /\ \/ pipe' = pipe
     \/ \E m \in Messages :
          /\ m.tab = t /\ pipe' = Append(pipe, m) /\ tab'[t] # "submitting"
          /\ m.kind \in {"archive", "file"} => tab[t] = "monitoring" /\ tab'[t] \in Over

LEMMA TabWorkMoves ==
  ASSUME RunType, NEW t \in Tabs, TabWork(t)
  PROVE  TabMoves(t)
<1>1. tab[t] \in Stages /\ \A s : [tab EXCEPT ![t] = s][t] = s
  BY DEF RunType
<1>2. \A k \in Kinds : Message(t, k) \in Messages /\ Message(t, k).tab = t /\ Message(t, k).kind = k
  BY DEF Message, Messages
<1>3. CASE TabOpens(t)
  <2>1. tab[t] = "opening" /\ tab' = [tab EXCEPT ![t] = "submitting"] /\ pipe' = pipe
    BY <1>3 DEF TabOpens, Is, Becomes
  <2> QED
    BY <1>1, <2>1 DEF TabMoves, Stages, Over
<1>4. CASE PromptAccepted(t)
  <2>1. /\ tab[t] = "submitting" /\ tab' = [tab EXCEPT ![t] = "monitoring"]
        /\ pipe' = Append(pipe, Message(t, "prompt-submitted"))
    BY <1>4 DEF PromptAccepted, Is, Becomes, Emit
  <2> QED
    BY <1>1, <1>2, <2>1 DEF TabMoves, Stages, Over, Kinds
<1>5. CASE SessionExpires(t)
  <2>1. /\ tab[t] \in {"submitting", "monitoring"}
        /\ \/ tab' = [tab EXCEPT ![t] = "failing"]
           \/ tab[t] = "monitoring" /\ tab' = tab
        /\ pipe' = Append(pipe, Message(t, "session-expired"))
    BY <1>5 DEF SessionExpires, Is, Becomes, Emit
  <2>2. tab' = [tab EXCEPT ![t] = tab'[t]] /\ tab'[t] \in {"failing", "monitoring"}
    BY <1>1, <2>1 DEF RunType
  <2> QED
    BY <1>1, <1>2, <2>1, <2>2 DEF TabMoves, Stages, Over, Kinds
<1>6. CASE TabFails(t)
  <2>1. /\ tab[t] \in {"opening", "submitting", "monitoring", "failing"}
        /\ tab' = [tab EXCEPT ![t] = "done"]
        /\ pipe' = Append(pipe, Message(t, "error"))
    BY <1>6 DEF TabFails, Is, Becomes, Emit
  <2> QED
    BY <1>1, <1>2, <2>1 DEF TabMoves, Stages, Over, Kinds
<1>7. ASSUME NEW kind \in {"archive", "file"}, Delivers(t, kind)
      PROVE  TabMoves(t)
  <2>1. /\ tab[t] = "monitoring"
        /\ tab' = [tab EXCEPT ![t] = "done"] \/ tab' = [tab EXCEPT ![t] = "failing"]
        /\ pipe' = Append(pipe, Message(t, kind))
    BY <1>7 DEF Delivers, Is, Becomes, Emit
  <2>2. tab' = [tab EXCEPT ![t] = tab'[t]] /\ tab'[t] \in Over
    BY <1>1, <2>1 DEF Over
  <2> QED
    BY <1>1, <1>2, <1>7, <2>1, <2>2 DEF TabMoves, Stages, Over, Kinds
<1> QED
  BY <1>3, <1>4, <1>5, <1>6, <1>7 DEF TabWork

LEMMA DeliveriesHaveTabs ==
  ASSUME RunType, NEW i \in 1 .. Len(pipe), Delivery(i)
  PROVE  pipe[i].tab \in Tabs
<1>1. pipe[i] \in Messages /\ pipe[i].kind # "garbled"
  BY ElementOfSeq DEF RunType, Delivery
<1> QED
  BY <1>1 DEF RunType, Messages

LEMMA TabKeepsLine ==
  ASSUME LineInv, NEW t \in Tabs, TabStep(t)
  PROVE  LineInv'
<1> USE DEF LineInv
<1>1. TabMoves(t) /\ RunType /\ InLine /\ DeliversOnce
  BY TabWorkMoves DEF TabStep
<1>2. UNCHANGED <<phase, deploys, nextTab, waiting, scheduled, downloaded, deployed, job>>
  BY DEF TabStep, loopVars, launcher, tracker, deployVars
<1>3. /\ tab' \in [Tabs -> Stages]
      /\ \A u \in Tabs : u # t => tab'[u] = tab[u]
  BY <1>1 DEF TabMoves, RunType
<1>4. NoTab \notin Tabs
  BY DEF NoTab, Tabs
<1>5. \A u \in Tabs : tab[u] \in Over => tab'[u] \in Over
  BY <1>1, <1>3 DEF TabMoves
<1>6. \A i \in 1 .. Len(pipe) : Delivery(i) => pipe[i].tab \in Tabs
  BY <1>1, DeliveriesHaveTabs
<1>7. CASE pipe' = pipe
  <2>1. RunType'
    BY <1>1, <1>2, <1>3, <1>7 DEF RunType
  <2>2. InLine'
    BY <1>1, <1>2, <1>3, <1>7 DEF InLine, TabMoves, Uploading, Stages
  <2>3. DeliversOnce'
    <3>1. \A i : Delivery(i)' <=> Delivery(i)
      BY <1>7 DEF Delivery
    <3> QED
      BY <1>1, <1>2, <1>7, <1>5, <1>6, <3>1 DEF DeliversOnce
  <2> QED
    BY <2>1, <2>2, <2>3
<1>8. ASSUME NEW m \in Messages, m.tab = t, pipe' = Append(pipe, m), tab'[t] # "submitting",
             m.kind \in {"archive", "file"} => tab[t] = "monitoring" /\ tab'[t] \in Over
      PROVE  LineInv'
  <2>1. /\ pipe' \in Seq(Messages) /\ Len(pipe') = Len(pipe) + 1 /\ Len(pipe) \in Nat
        /\ pipe'[Len(pipe')] = m
        /\ \A i \in 1 .. Len(pipe) : pipe'[i] = pipe[i]
    BY <1>1, <1>8, AppendProperties, LenProperties DEF RunType
  <2>2. \A i \in 1 .. Len(pipe') : i = Len(pipe') \/ i \in 1 .. Len(pipe)
    BY <2>1
  <2>3. RunType'
    BY <1>1, <1>2, <1>3, <1>4, <1>8, <2>1, <2>2 DEF RunType
  <2>4. InLine'
    BY <1>1, <1>2, <1>3, <1>8, <2>1, <2>2 DEF InLine, TabMoves, Uploading, Stages
  <2>5. DeliversOnce'
    <3>1. ASSUME NEW i \in 1 .. Len(pipe'), Delivery(i)'
          PROVE  /\ tab'[pipe'[i].tab] \in Over
                 /\ job'[pipe'[i].tab] = "none" /\ pipe'[i].tab \notin deployed'
      <4>1. CASE i = Len(pipe')
        <5>1. pipe'[i] = m /\ m.kind \in {"archive", "file"}
          BY <2>1, <3>1, <4>1 DEF Delivery
        <5>2. tab[t] = "monitoring" /\ tab'[t] \in Over
          BY <1>8, <5>1
        <5>3. job[t] = "none" /\ t \notin deployed
          BY <1>1, <5>2 DEF DeliversOnce, Over
        <5> QED
          BY <1>2, <1>8, <5>1, <5>2, <5>3
      <4>2. CASE i \in 1 .. Len(pipe)
        <5>1. pipe'[i] = pipe[i] /\ Delivery(i)
          BY <2>1, <3>1, <4>2 DEF Delivery
        <5> QED
          BY <1>1, <1>2, <1>5, <1>6, <4>2, <5>1 DEF DeliversOnce
      <4> QED
        BY <2>2, <4>1, <4>2
    <3>2. ASSUME NEW i \in 1 .. Len(pipe'), NEW j \in 1 .. Len(pipe'),
                 Delivery(i)', Delivery(j)', pipe'[i].tab = pipe'[j].tab
          PROVE  i = j
      <4>1. ASSUME NEW k \in 1 .. Len(pipe), Delivery(k)', pipe'[k].tab = t
            PROVE  tab[t] \in Over
        BY <1>1, <2>1, <4>1 DEF DeliversOnce, Delivery
      <4>2. "monitoring" \notin Over
        BY DEF Over
      <4> QED
        BY <1>1, <1>8, <2>1, <2>2, <3>2, <4>1, <4>2 DEF DeliversOnce, Delivery
    <3>3. \A u \in Tabs : job'[u] # "none" \/ u \in deployed' => tab'[u] \in Over
      BY <1>1, <1>2, <1>3 DEF DeliversOnce, TabMoves
    <3>4. deploys' => \A u \in deployed' : job'[u] = "succeeded"
      BY <1>1, <1>2 DEF DeliversOnce
    <3> QED
      BY <3>1, <3>2, <3>3, <3>4 DEF DeliversOnce
  <2> QED
    BY <2>3, <2>4, <2>5
<1> QED
  BY <1>1, <1>7, <1>8 DEF TabMoves

(***************************************************************************)
(* What the loop does with launches and messages.                          *)
(***************************************************************************)
\* The first message is taken off or damaged, or nothing is done to the messages.
LEMMA DamageKeepsLine ==
  ASSUME LineInv, MessageGarbled
  PROVE  LineInv'
<1> USE DEF LineInv
<1>1. RunType /\ InLine /\ DeliversOnce /\ pipe # <<>>
  BY DEF MessageGarbled
<1>2. PICK t \in {NoTab, Head(pipe).tab} : pipe' = <<Message(t, "garbled")>> \o Tail(pipe)
  BY DEF MessageGarbled
<1>3. UNCHANGED <<phase, deploys, nextTab, waiting, scheduled, downloaded, deployed, job, tab>>
  BY DEF MessageGarbled, loopVars, launcher, tracker, deployVars
<1>4. /\ Len(pipe) \in Nat \ {0} /\ Head(pipe) = pipe[1] /\ pipe[1] \in Messages
      /\ Tail(pipe) \in Seq(Messages) /\ Len(Tail(pipe)) = Len(pipe) - 1
      /\ \A i \in 1 .. Len(Tail(pipe)) : Tail(pipe)[i] = pipe[i + 1]
  BY <1>1, HeadTailProperties, EmptySeq, ElementOfSeq, LenProperties DEF RunType
<1>5. Message(t, "garbled") \in Messages
  BY <1>4 DEF Message, Messages, Kinds
<1>6. <<Message(t, "garbled")>> \in Seq(Messages) /\ Len(<<Message(t, "garbled")>>) = 1
  BY <1>5
<1>7. /\ pipe' \in Seq(Messages) /\ Len(pipe') = Len(pipe)
      /\ pipe'[1] = Message(t, "garbled")
      /\ \A i \in 2 .. Len(pipe) : pipe'[i] = pipe[i]
  BY <1>2, <1>4, <1>6, ConcatProperties
<1>8. pipe'[1].kind = "garbled" /\ pipe'[1].tab = t
  BY <1>7 DEF Message
<1>9. \A i \in 1 .. Len(pipe') : i = 1 \/ i \in 2 .. Len(pipe)
  BY <1>4, <1>7
<1>10. NoTab \notin Tabs
  BY DEF NoTab, Tabs
<1>11. RunType'
  BY <1>1, <1>3, <1>4, <1>7, <1>8, <1>9 DEF RunType
<1>12. InLine'
  BY <1>1, <1>2, <1>3, <1>4, <1>7, <1>8, <1>9, <1>10 DEF InLine
<1>13. DeliversOnce'
  <2>1. \A i \in 1 .. Len(pipe') : Delivery(i)' => i \in 1 .. Len(pipe) /\ pipe'[i] = pipe[i] /\ Delivery(i)
    BY <1>4, <1>7, <1>8, <1>9 DEF Delivery
  <2> QED
    BY <1>1, <1>3, <2>1 DEF DeliversOnce
<1> QED
  BY <1>11, <1>12, <1>13

\* Tabs, launches and messages are left alone; a deploy in its queue or at work may
\* go on or be lost.
Rests ==
  /\ UNCHANGED <<deploys, nextTab, waiting, scheduled, downloaded, deployed, tab, pipe>>
  /\ phase' \in {"idle", "starting"} => phase \in {"idle", "starting"}
  /\ job' \in [Tabs -> Jobs]
  /\ \A t \in Tabs :
       \/ job'[t] = job[t]
       \/ job[t] \in {"queued", "running"} /\ job'[t] # "none"

LEMMA RestKeepsLine ==
  ASSUME LineInv, Rests
  PROVE  LineInv'
<1> USE DEF LineInv
<1>1. RunType /\ InLine /\ DeliversOnce
  OBVIOUS
<1>2. RunType' /\ InLine'
  BY <1>1 DEF Rests, RunType, InLine
<1>3. \A i \in 1 .. Len(pipe) : Delivery(i) => pipe[i].tab \in Tabs
  BY <1>1, DeliveriesHaveTabs
<1>4. pipe' = pipe /\ tab' = tab /\ deployed' = deployed /\ deploys' = deploys
  BY DEF Rests
<1>5. \A i : Delivery(i)' <=> Delivery(i)
  BY <1>4 DEF Delivery
<1>6. \A t \in Tabs : /\ job[t] = "none" => job'[t] = "none"
                      /\ job[t] = "succeeded" => job'[t] = "succeeded"
                      /\ job'[t] # "none" => job[t] # "none"
  BY DEF Rests
<1>7. deployed \subseteq Tabs
  BY <1>1 DEF RunType
<1>8. DeliversOnce'
  BY <1>1, <1>3, <1>4, <1>5, <1>6, <1>7 DEF DeliversOnce
<1> QED
  BY <1>2, <1>8

\* A launch: nobody was waited for.
LEMMA LaunchKeepsLine ==
  ASSUME LineInv, LaunchNext, waiting = NoTab,
         scheduled' = NoTab, phase' \notin {"idle", "starting"},
         UNCHANGED <<deploys, downloaded, deployed, job>>
  PROVE  LineInv'
<1> USE DEF LineInv
<1>1. RunType /\ InLine /\ DeliversOnce
  OBVIOUS
<1>2. /\ nextTab' = nextTab + 1 /\ waiting' = nextTab
      /\ tab[nextTab] = "none" /\ tab' = [tab EXCEPT ![nextTab] = "opening"]
      /\ pipe' = pipe
  BY DEF LaunchNext, Launch, Is, Becomes
<1>3. /\ tab' \in [Tabs -> Stages]
      /\ \A t \in Tabs : t = nextTab \/ tab'[t] = tab[t]
  BY <1>1, <1>2 DEF RunType, Stages
<1>4. \A t \in Tabs : tab[t] \notin Uploading
  BY <1>1 DEF InLine, NoTab, Tabs
<1>5. \A i \in 1 .. Len(pipe) : Delivery(i) => pipe[i].tab \in Tabs
  BY <1>1, DeliveriesHaveTabs
<1>6. \A i : Delivery(i)' <=> Delivery(i)
  BY <1>2 DEF Delivery
<1>7. "none" \notin Over
  BY DEF Over
<1>8. \A t \in Tabs : tab[t] \in Over => tab'[t] \in Over
  BY <1>2, <1>3, <1>7
<1>9. RunType'
  BY <1>1, <1>2, <1>3 DEF RunType
<1>10. InLine'
  <2>1. \A t \in Tabs : tab'[t] \in Uploading => waiting' = t
    BY <1>2, <1>3, <1>4
  <2>2. \A i \in 1 .. Len(pipe') :
          pipe'[i].tab \in Tabs => tab'[pipe'[i].tab] \notin Uploading \cup {"none"}
    BY <1>1, <1>2, <1>3 DEF InLine
  <2> QED
    BY <2>1, <2>2 DEF InLine
<1>11. DeliversOnce'
  BY <1>1, <1>2, <1>5, <1>6, <1>8 DEF DeliversOnce
<1> QED
  BY <1>9, <1>10, <1>11

LEMMA ReadyKeepsLine ==
  ASSUME LineInv, BridgeReady
  PROVE  LineInv'
<1>1. waiting = NoTab /\ scheduled = NoTab
  BY DEF LineInv, InLine, BridgeReady
<1>2. /\ LaunchNext /\ phase' = "running"
      /\ UNCHANGED <<deploys, scheduled, downloaded, deployed, job>>
  BY DEF BridgeReady, tracker, deployVars
<1> QED
  BY <1>1, <1>2, LaunchKeepsLine

LEMMA DueKeepsLine ==
  ASSUME LineInv, NEW t \in Tabs, LaunchDue(t)
  PROVE  LineInv'
<1>1. /\ phase = "running" /\ phase' \in {"running", "draining"}
      /\ UNCHANGED <<deploys, downloaded, deployed, job>>
  BY DEF LaunchDue, Looping, tracker, deployVars
<1>2. CASE scheduled # t
  <2>1. UNCHANGED <<nextTab, waiting, scheduled, tab, pipe>>
    BY <1>2 DEF LaunchDue, tabState
  <2>2. Rests
    BY <1>1, <2>1 DEF Rests, LineInv, RunType
  <2> QED
    BY <2>2, RestKeepsLine
<1>3. CASE scheduled = t
  <2>1. scheduled' = NoTab /\ LaunchNext
    BY <1>3 DEF LaunchDue
  <2>2. waiting = NoTab
    BY <1>3 DEF LineInv, InLine, NoTab, Tabs
  <2> QED
    BY <1>1, <2>1, <2>2, LaunchKeepsLine
<1> QED
  BY <1>2, <1>3

LEMMA ResultKeepsLine ==
  ASSUME LineInv, NEW t \in Tabs, DeployResult(t)
  PROVE  LineInv'
<1> USE DEF LineInv
<1>1. RunType /\ InLine /\ DeliversOnce
  OBVIOUS
<1>2. /\ UNCHANGED <<phase, deploys, nextTab, waiting, scheduled, downloaded, job, tab, pipe>>
      /\ \/ deployed' = deployed
         \/ job[t] = "succeeded" /\ deployed' = deployed \cup {t}
  BY DEF DeployResult, loopVars, launcher, bridgeVars, tabState
<1>3. RunType' /\ InLine'
  BY <1>1, <1>2 DEF RunType, InLine
<1>4. \A i : Delivery(i)' <=> Delivery(i)
  BY <1>2 DEF Delivery
<1>5. DeliversOnce'
  BY <1>1, <1>2, <1>4 DEF DeliversOnce
<1> QED
  BY <1>3, <1>5

(***************************************************************************)
(* A message is handled.                                                   *)
(***************************************************************************)
\* What handling the first message may do: its tab is no longer waited for, and may
\* have its artifact counted.
Handled(m) ==
  /\ UNCHANGED <<phase, deploys, nextTab, tab>>
  /\ phase \notin {"idle", "starting"}
  /\ \/ UNCHANGED <<waiting, scheduled>>
     \/ waiting = m.tab /\ waiting' = NoTab
     \/ waiting' = waiting /\ scheduled' = NoTab
  /\ \/ UNCHANGED <<downloaded, deployed, job>>
     \/ /\ m.kind \in {"archive", "file"}
        /\ downloaded' = downloaded \cup {m.tab}
        /\ \/ deploys /\ job' = [job EXCEPT ![m.tab] = "queued"] /\ deployed' = deployed
           \/ ~deploys /\ deployed' = deployed \cup {m.tab} /\ job' = job

LEMMA MessagesHaveKinds ==
  ASSUME RunType, pipe # <<>>
  PROVE  Head(pipe).kind \in Kinds
<1>1. pipe \in Seq(Messages)
  BY DEF RunType
<1>2. Head(pipe) \in Messages
  BY <1>1, HeadTailProperties
<1> QED
  BY <1>2 DEF Messages

LEMMA MessageIsHandled ==
  ASSUME LineInv, HandleMessage
  PROVE  Handled(Head(pipe))
<1> DEFINE m == Head(pipe)
<1> HIDE DEF m
<1>1. deploys' = deploys /\ phase' = phase /\ phase = "running" /\ tab' = tab
  BY DEF HandleMessage, Looping, loopVars
<1>2. /\ CASE m.kind = "prompt-submitted" ->
                Settled(m.tab) /\ UNCHANGED <<downloaded, deployed, terminal, failures, job, published>>
           [] m.kind \in {"archive", "file"} -> DownloadComplete(m)
           [] m.kind = "error" -> TabError(m)
           [] m.kind = "session-expired" ->
                TabEnds(m.tab, TabFailed(m.tab)) /\ UNCHANGED published
           [] m.kind = "garbled" -> Garbled(m)
  BY DEF HandleMessage, m
<1>3. m.kind \in Kinds
  BY MessagesHaveKinds DEF LineInv, HandleMessage, m
<1>4. ASSUME NEW t, Settled(t)
      PROVE  /\ nextTab' = nextTab
             /\ UNCHANGED <<waiting, scheduled>> \/ (waiting = t /\ waiting' = NoTab)
  BY <1>4 DEF Settled, ScheduleNext, launcher
<1>5. ASSUME NEW t, TabFailed(t)
      PROVE  /\ nextTab' = nextTab
             /\ scheduled' = NoTab /\ (waiting' = waiting \/ (waiting = t /\ waiting' = NoTab))
  BY <1>5 DEF TabFailed
<1>6. CASE m.kind = "prompt-submitted"
  <2>1. Settled(m.tab) /\ UNCHANGED <<downloaded, deployed, job>>
    BY <1>2, <1>6
  <2> QED
    BY <1>1, <1>4, <2>1 DEF Handled, m
<1>7. CASE m.kind \in {"archive", "file"}
  <2>1. DownloadComplete(m)
    BY <1>2, <1>7
  <2>2. CASE Acceptable(m)
    BY <1>1, <1>7, <2>1, <2>2 DEF DownloadComplete, Handled, launcher, m
  <2>3. CASE ~Acceptable(m)
    <3>1. Settled(m.tab) /\ UNCHANGED <<downloaded, deployed, job>>
      BY <2>1, <2>3 DEF DownloadComplete, TabEnds
    <3> QED
      BY <1>1, <1>4, <3>1 DEF Handled, m
  <2> QED
    BY <2>2, <2>3
<1>8. CASE m.kind = "error"
  <2>1. UNCHANGED <<downloaded, deployed, job>> /\ (Settled(m.tab) \/ TabFailed(m.tab))
    BY <1>2, <1>8 DEF TabError, TabEnds
  <2> QED
    BY <1>1, <1>4, <1>5, <2>1 DEF Handled, m
<1>9. CASE m.kind = "session-expired"
  <2>1. UNCHANGED <<downloaded, deployed, job>> /\ TabFailed(m.tab)
    BY <1>2, <1>9 DEF TabEnds
  <2> QED
    BY <1>1, <1>5, <2>1 DEF Handled, m
<1>10. CASE m.kind = "garbled"
  <2>1. UNCHANGED <<downloaded, deployed, job>> /\ (Settled(m.tab) \/ UNCHANGED launcher)
    BY <1>2, <1>10 DEF Garbled, TabEnds
  <2> QED
    BY <1>1, <1>4, <2>1 DEF Handled, launcher, m
<1> QED
  BY <1>3, <1>6, <1>7, <1>8, <1>9, <1>10 DEF Kinds

LEMMA MessageKeepsLine ==
  ASSUME LineInv, HandleMessage
  PROVE  LineInv'
<1> USE DEF LineInv
<1>1. RunType /\ InLine /\ DeliversOnce /\ Handled(Head(pipe))
  BY MessageIsHandled
<1>2. pipe # <<>> /\ pipe' = Tail(pipe)
  BY DEF HandleMessage
<1>3. /\ Len(pipe) \in Nat \ {0} /\ Head(pipe) = pipe[1]
      /\ pipe' \in Seq(Messages) /\ Len(pipe') = Len(pipe) - 1
      /\ \A i \in 1 .. Len(pipe') : i + 1 \in 1 .. Len(pipe) /\ pipe'[i] = pipe[i + 1]
  BY <1>1, <1>2, HeadTailProperties, EmptySeq, LenProperties DEF RunType
<1> DEFINE m == pipe[1]
<1>4. Handled(m) /\ 1 \in 1 .. Len(pipe)
  BY <1>1, <1>3
<1> HIDE DEF m
<1>5. \A i \in 1 .. Len(pipe) : Delivery(i) => pipe[i].tab \in Tabs
  BY <1>1, DeliveriesHaveTabs
<1>6. m.kind \in {"archive", "file"} => Delivery(1) /\ m.tab \in Tabs
  BY <1>4, <1>5 DEF Delivery, m
<1>7. RunType'
  <2>1. nextTab' \in Nat /\ tab' \in [Tabs -> Stages]
    BY <1>1, <1>4 DEF Handled, RunType
  <2>2. job' \in [Tabs -> Jobs] /\ downloaded' \subseteq Tabs /\ deployed' \subseteq Tabs
    BY <1>1, <1>4, <1>6 DEF Handled, RunType, Jobs
  <2>3. \A i \in 1 .. Len(pipe') : pipe'[i].tab = NoTab => pipe'[i].kind = "garbled"
    BY <1>1, <1>3 DEF RunType
  <2> QED
    BY <1>3, <2>1, <2>2, <2>3 DEF RunType
<1>8. InLine'
  <2>1. m.tab \in Tabs => tab[m.tab] \notin Uploading
    BY <1>1, <1>4 DEF InLine, m
  <2>2. \A t \in Tabs : tab'[t] \in Uploading => waiting' = t
    BY <1>1, <1>4, <2>1 DEF Handled, InLine
  <2>3. scheduled' # NoTab => waiting' = NoTab
    BY <1>1, <1>4 DEF Handled, InLine
  <2>4. phase' \notin {"idle", "starting"}
    BY <1>4 DEF Handled
  <2>5. \A i \in 1 .. Len(pipe') :
          pipe'[i].tab \in Tabs => tab'[pipe'[i].tab] \notin Uploading \cup {"none"}
    BY <1>1, <1>3, <1>4 DEF Handled, InLine
  <2> QED
    BY <2>2, <2>3, <2>4, <2>5 DEF InLine
<1>9. DeliversOnce'
  <2>1. \A i \in 1 .. Len(pipe') : Delivery(i)' => Delivery(i + 1)
    BY <1>3 DEF Delivery
  <2>2. tab' = tab /\ deploys' = deploys
    BY <1>4 DEF Handled
  <2>3. CASE UNCHANGED <<downloaded, deployed, job>>
    <3>1. /\ \A i \in 1 .. Len(pipe') :
               Delivery(i)' =>
                 /\ tab'[pipe'[i].tab] \in Over
                 /\ job'[pipe'[i].tab] = "none" /\ pipe'[i].tab \notin deployed'
          /\ \A t \in Tabs : job'[t] # "none" \/ t \in deployed' => tab'[t] \in Over
          /\ deploys' => \A t \in deployed' : job'[t] = "succeeded"
      BY <1>1, <1>3, <2>1, <2>2, <2>3 DEF DeliversOnce
    <3>2. ASSUME NEW i \in 1 .. Len(pipe'), NEW j \in 1 .. Len(pipe'),
                 Delivery(i)', Delivery(j)', pipe'[i].tab = pipe'[j].tab
          PROVE  i = j
      <4>1. i + 1 = j + 1
        BY <1>1, <1>3, <2>1, <3>2 DEF DeliversOnce
      <4> QED
        BY <1>3, <4>1
    <3> QED
      BY <3>1, <3>2 DEF DeliversOnce
  <2>4. CASE m.kind \in {"archive", "file"} /\ ~UNCHANGED <<downloaded, deployed, job>>
    <3>1. /\ m.tab \in Tabs /\ Delivery(1) /\ tab[m.tab] \in Over
          /\ job[m.tab] = "none" /\ m.tab \notin deployed
      BY <1>1, <1>4, <1>6, <2>4 DEF DeliversOnce, m
    <3>2. /\ \A t \in Tabs : t # m.tab => job'[t] = job[t]
          /\ \A t \in Tabs : t # m.tab => (t \in deployed' <=> t \in deployed)
          /\ deployed' \subseteq Tabs
      BY <1>1, <1>4, <2>4, <3>1 DEF Handled, RunType
    <3>3. ASSUME NEW i \in 1 .. Len(pipe'), Delivery(i)'
          PROVE  pipe'[i].tab \in Tabs /\ pipe'[i].tab # m.tab
      <4>1. i + 1 \in 1 .. Len(pipe) /\ Delivery(i + 1) /\ i + 1 # 1 /\ pipe'[i] = pipe[i + 1]
        BY <1>3, <2>1, <3>3
      <4> QED
        BY <1>1, <1>4, <1>5, <3>1, <4>1 DEF DeliversOnce, m
    <3>4. ASSUME NEW i \in 1 .. Len(pipe'), Delivery(i)'
          PROVE  /\ tab'[pipe'[i].tab] \in Over
                 /\ job'[pipe'[i].tab] = "none" /\ pipe'[i].tab \notin deployed'
      BY <1>1, <1>3, <2>1, <2>2, <3>2, <3>3, <3>4 DEF DeliversOnce
    <3>5. ASSUME NEW i \in 1 .. Len(pipe'), NEW j \in 1 .. Len(pipe'),
                 Delivery(i)', Delivery(j)', pipe'[i].tab = pipe'[j].tab
          PROVE  i = j
      <4>1. i + 1 = j + 1
        BY <1>1, <1>3, <2>1, <3>5 DEF DeliversOnce
      <4> QED
        BY <1>3, <4>1
    <3>6. \A t \in Tabs : job'[t] # "none" \/ t \in deployed' => tab'[t] \in Over
      BY <1>1, <2>2, <3>1, <3>2 DEF DeliversOnce
    <3>7. deploys' => \A t \in deployed' : job'[t] = "succeeded"
      <4>1. deploys => deployed' = deployed
        BY <1>4, <2>4 DEF Handled
      <4> QED
        BY <1>1, <2>2, <3>1, <3>2, <4>1 DEF DeliversOnce
    <3> QED
      BY <3>4, <3>5, <3>6, <3>7 DEF DeliversOnce
  <2> QED
    BY <1>4, <2>3, <2>4 DEF Handled
<1> QED
  BY <1>7, <1>8, <1>9

LEMMA ArchiveKeepsLine ==
  ASSUME LineInv, ArchiveStep
  PROVE  LineInv'
<1>1. job \in [Tabs -> Jobs]
  BY DEF LineInv, RunType
<1>2. CASE BridgeReady
  BY <1>2, ReadyKeepsLine
<1>3. CASE StartFails \/ RunCompletes \/ RunCancelled \/ BridgeExited \/ RunEnds \/ RunDeadline
  <2>1. Rests
    BY <1>1, <1>3 DEF StartFails, RunCompletes, RunCancelled, BridgeExited, RunEnds, RunDeadline,
       LoopFails, Rests, launcher, tracker, deployVars, bridgeVars, tabState
  <2> QED
    BY <2>1, RestKeepsLine
<1>4. CASE HandleMessage
  BY <1>4, MessageKeepsLine
<1>5. ASSUME NEW t \in Tabs, LaunchDue(t) \/ DeployResult(t)
      PROVE  LineInv'
  BY <1>5, DueKeepsLine, ResultKeepsLine
<1>6. ASSUME NEW t \in Tabs, TabStep(t)
      PROVE  LineInv'
  BY <1>6, TabKeepsLine
<1>7. ASSUME NEW t \in Tabs, DeployStep(t)
      PROVE  LineInv'
  <2>1. UNCHANGED <<phase, deploys, nextTab, waiting, scheduled, downloaded, deployed, tab, pipe>>
    BY <1>7 DEF DeployStep, loopVars, launcher, tracker, bridgeVars, tabState
  <2>2. PICK s \in {"running", "succeeded", "failed"} :
          job[t] \in {"queued", "running"} /\ job' = [job EXCEPT ![t] = s]
    BY <1>7 DEF DeployStep, DeployStarts, DeployEnds
  <2>3. Rests
    BY <1>1, <2>1, <2>2 DEF Rests, Jobs
  <2> QED
    BY <2>3, RestKeepsLine
<1>8. CASE MessageGarbled
  BY <1>8, DamageKeepsLine
<1>9. CASE BridgeDies \/ BridgeShutsDown
  <2>1. Rests
    BY <1>1, <1>9 DEF BridgeDies, BridgeShutsDown, Rests, loopVars, launcher, tracker, deployVars,
       tabState
  <2> QED
    BY <2>1, RestKeepsLine
<1> QED
  BY <1>2, <1>3, <1>4, <1>5, <1>6, <1>7, <1>8, <1>9 DEF ArchiveStep, LoopStep

(***************************************************************************)
(* What the agent and the others do of it.                                 *)
(***************************************************************************)
\* Of the archive run the agent only decides that it starts or must stop.
LEMMA AgentRests ==
  ASSUME RunType, AgentStep \/ OthersStep \/ UNCHANGED vars
  PROVE  Rests
<1>1. job \in [Tabs -> Jobs]
  BY DEF RunType
<1> USE DEF Rests, loopVars, launcher, tracker, deployVars, bridgeVars, tabState, archiveVars
<1>2. CASE \E ids \in SUBSET Accounts : Submit(ids)
  BY <1>1, <1>2 DEF Submit
<1>3. CASE Acquire
  BY <1>1, <1>3 DEF Acquire
<1>4. CASE BackendStarts
  BY <1>1, <1>4 DEF BackendStarts, StartRun
<1>5. CASE BackendFails
  BY <1>1, <1>5 DEF BackendFails
<1>6. CASE CollectEvent \/ EventsLag
  BY <1>1, <1>6 DEF CollectEvent, EventsLag
<1>7. CASE CollectionFails
  BY <1>1, <1>7 DEF CollectionFails
<1>8. CASE AgentDeadline \/ TakeSummary
  BY <1>1, <1>8 DEF AgentDeadline, TakeSummary
<1>9. CASE ReturnSummary
  BY <1>1, <1>9 DEF ReturnSummary
<1>10. CASE ProcessDies
  <2>1. UNCHANGED <<deploys, nextTab, waiting, scheduled, downloaded, deployed, tab, pipe>>
    BY <1>10 DEF ProcessDies
  <2>2. phase' \in {"idle", "starting"} => phase \in {"idle", "starting"}
    BY <1>10 DEF ProcessDies
  <2>3. job' = [t \in Tabs |-> IF job[t] \in {"queued", "running"} THEN "lost" ELSE job[t]]
    BY <1>10 DEF ProcessDies
  <2> QED
    BY <1>1, <2>1, <2>2, <2>3 DEF Jobs
<1>11. CASE OthersStep
  BY <1>1, <1>11 DEF OthersStep
<1>12. CASE UNCHANGED vars
  BY <1>1, <1>12 DEF vars
<1> QED
  BY <1>2, <1>3, <1>4, <1>5, <1>6, <1>7, <1>8, <1>9, <1>10, <1>11, <1>12 DEF AgentStep

LEMMA LineStep ==
  ASSUME LineInv, [Next]_vars
  PROVE  LineInv'
<1>1. CASE ArchiveStep
  BY <1>1, ArchiveKeepsLine
<1>2. CASE AgentStep \/ OthersStep \/ UNCHANGED vars
  BY <1>2, AgentRests, RestKeepsLine DEF LineInv
<1> QED
  BY <1>1, <1>2 DEF Next

LEMMA LineStart ==
  ASSUME Init
  PROVE  LineInv
<1>1. /\ phase = "idle" /\ nextTab = 1 /\ waiting = NoTab /\ scheduled = NoTab
      /\ downloaded = {} /\ deployed = {}
      /\ job = [t \in Tabs |-> "none"] /\ tab = [t \in Tabs |-> "none"] /\ pipe = <<>>
  BY DEF Init, ArchiveInit, TabsInit
<1>2. pipe \in Seq(Messages) /\ Len(pipe) = 0
  BY <1>1, EmptySeq
<1>3. RunType
  BY <1>1, <1>2 DEF RunType, Stages, Jobs
<1>4. InLine
  BY <1>1, <1>2 DEF InLine, Uploading
<1>5. DeliversOnce
  BY <1>1, <1>2 DEF DeliversOnce
<1> QED
  BY <1>3, <1>4, <1>5 DEF LineInv

\* Two tabs of an archive run never upload or submit at once, however many tabs it has
\* and whatever fails, expires or is damaged: the tab of the next launch waits for the
\* message or the end of the one before it (LaunchScheduler, run/launch.rs).
THEOREM OneAtATime == Spec => []LaunchedOneAtATime
<1>1. LineInv => LaunchedOneAtATime
  <2> SUFFICES ASSUME LineInv PROVE LaunchedOneAtATime
    OBVIOUS
  <2> DEFINE active == {t \in Tabs : tab[t] \in {"opening", "submitting"}}
  <2>1. active \subseteq {waiting}
    BY DEF LineInv, InLine, Uploading
  <2>2. IsFiniteSet({waiting}) /\ Cardinality({waiting}) = 1
    BY FS_Singleton
  <2> HIDE DEF active
  <2>3. IsFiniteSet(active) /\ Cardinality(active) <= 1
    BY <2>1, <2>2, FS_Subset
  <2> QED
    BY <2>3 DEF LaunchedOneAtATime, active
<1>2. Init => LineInv
  BY LineStart
<1>3. LineInv /\ [Next]_vars => LineInv'
  BY LineStep
<1> QED
  BY <1>1, <1>2, <1>3, PTL DEF Spec

(***************************************************************************)
(* What the run tells.                                                     *)
(***************************************************************************)
\* What speaks against a success is in the summary, or the run was told to stop.
Blemished == failures # {} \/ shutdown

RunTold ==
  /\ shutdown \in BOOLEAN
  /\ terminal \subseteq failures
  /\ published \subseteq {"started", "error"}
  /\ "error" \in published => Blemished
  /\ phase \in {"draining", "ended"} => Blemished \/ IsComplete \/ agent = "dead"

\* The agent stops the run only as it stops waiting for it; what it shows as failed
\* is over or will not be reported as a success.
AgentTold ==
  /\ agent \in {"idle", "acquiring", "starting", "collecting"} =>
       ~shutdown /\ outcome # "succeeded"
  /\ shown = "failed" => agent \in {"finished", "dead"} \/ Blemished
  /\ outcome = "succeeded" =>
       /\ phase = "ended" /\ failures = {} /\ IsComplete
       /\ agent = "returning" => shown # "failed"

TellInv == LineInv /\ RunTold /\ AgentTold

\* What a step of the archive run tells: failures are kept, an error that is published
\* is one of them, and nothing is counted once the loop is over.
Tells ==
  /\ UNCHANGED <<deploys, shutdown>>
  /\ failures \subseteq failures' /\ terminal' \subseteq terminal \cup failures'
  /\ published' \subseteq published \cup {"started", "error"}
  /\ "error" \in published' => "error" \in published \/ failures' # {} \/ shutdown
  /\ phase \in {"draining", "ended"} =>
       /\ UNCHANGED <<failures, terminal, downloaded, deployed>>
       /\ phase' \in {"draining", "ended"}
  /\ phase = "ended" => phase' = "ended"
  /\ phase \notin {"draining", "ended"} /\ phase' \in {"draining", "ended"} =>
       failures' # {} \/ shutdown \/ IsComplete'

LEMMA CompletionKept ==
  ASSUME UNCHANGED <<terminal, downloaded, deployed, deploys>>
  PROVE  IsComplete' <=> IsComplete
BY DEF IsComplete

\* A tab that ends without its artifact is a failure, and the run goes on.
LEMMA EndingTells ==
  ASSUME NEW t, failures' = failures \cup {t}, terminal' \subseteq terminal \cup {t},
         phase \notin {"draining", "ended"}, phase' = phase,
         UNCHANGED <<deploys, shutdown>>, published' \subseteq published \cup {"error"}
  PROVE  Tells
BY DEF Tells

LEMMA MessageTells ==
  ASSUME LineInv, HandleMessage
  PROVE  Tells
<1> DEFINE m == Head(pipe)
<1> HIDE DEF m
<1>1. phase = "running" /\ UNCHANGED <<phase, shutdown, deploys>>
  BY DEF HandleMessage, Looping, loopVars
<1>2. CASE m.kind = "prompt-submitted"
  <2>1. UNCHANGED <<terminal, failures, published>>
    BY <1>2 DEF HandleMessage, m
  <2> QED
    BY <1>1, <2>1 DEF Tells
<1>3. ASSUME failures' = failures \cup {m.tab}, terminal' = terminal \cup {m.tab},
             published' \subseteq published \cup {"error"}
      PROVE  Tells
  BY <1>1, <1>3, EndingTells
<1>4. CASE m.kind \in {"archive", "file"}
  <2>1. DownloadComplete(m)
    BY <1>4 DEF HandleMessage, m
  <2>2. CASE Acceptable(m)
    <3>1. UNCHANGED <<terminal, failures, published>>
      BY <2>1, <2>2 DEF DownloadComplete
    <3> QED
      BY <1>1, <3>1 DEF Tells
  <2>3. CASE ~Acceptable(m)
    <3>1. /\ failures' = failures \cup {m.tab} /\ terminal' = terminal \cup {m.tab}
          /\ published' = published \cup {"error"}
      BY <2>1, <2>3 DEF DownloadComplete, TabEnds, Publish
    <3> QED
      BY <1>3, <3>1
  <2> QED
    BY <2>2, <2>3
<1>5. CASE m.kind = "error"
  <2>1. TabError(m)
    BY <1>5 DEF HandleMessage, m
  <2> QED
    BY <1>3, <2>1 DEF TabError, TabEnds, Publish
<1>6. CASE m.kind = "session-expired"
  <2>1. /\ failures' = failures \cup {m.tab} /\ terminal' = terminal \cup {m.tab}
        /\ published' = published
    BY <1>6 DEF HandleMessage, TabEnds, m
  <2> QED
    BY <1>3, <2>1
<1>7. CASE m.kind = "garbled"
  <2>1. Garbled(m)
    BY <1>7 DEF HandleMessage, m
  <2>2. published' = published \cup {"error"}
    BY <2>1 DEF Garbled, Publish
  <2>3. CASE m.tab = NoTab
    <3>1. failures' = failures \cup {NoTab} /\ terminal' = terminal
      BY <2>1, <2>3 DEF Garbled
    <3> QED
      BY <1>1, <2>2, <3>1, EndingTells
  <2>4. CASE m.tab # NoTab
    BY <1>3, <2>1, <2>2, <2>4 DEF Garbled, TabEnds
  <2> QED
    BY <2>3, <2>4
<1>8. m.kind \in Kinds
  BY MessagesHaveKinds DEF LineInv, HandleMessage, m
<1> QED
  BY <1>2, <1>4, <1>5, <1>6, <1>7, <1>8 DEF Kinds

LEMMA ArchiveTells ==
  ASSUME LineInv, ArchiveStep
  PROVE  Tells
<1> USE DEF Tells, loopVars, launcher, tracker, deployVars, bridgeVars, tabState
<1>1. CASE BridgeReady
  BY <1>1 DEF BridgeReady
<1>2. CASE StartFails
  BY <1>2 DEF StartFails, Publish
<1>3. CASE RunDeadline \/ BridgeExited
  BY <1>3 DEF RunDeadline, BridgeExited, LoopFails, Looping, Publish
<1>4. CASE RunCompletes
  <2>1. IsComplete'
    BY <1>4, CompletionKept DEF RunCompletes
  <2> QED
    BY <1>4, <2>1 DEF RunCompletes
<1>5. CASE RunCancelled
  BY <1>5 DEF RunCancelled, Looping, Publish
<1>6. CASE RunEnds
  BY <1>6 DEF RunEnds
<1>7. CASE HandleMessage
  BY <1>7, MessageTells
<1>8. ASSUME NEW t \in Tabs, LaunchDue(t)
      PROVE  Tells
  <2>1. /\ phase = "running" /\ UNCHANGED <<deploys, shutdown, downloaded, deployed, terminal>>
        /\ \/ UNCHANGED <<phase, failures, published>>
           \/ /\ failures' = failures \cup {NoTab}
              /\ published' = published \cup {"error"}
    BY <1>8 DEF LaunchDue, Looping, Publish
  <2> QED
    BY <2>1
<1>9. ASSUME NEW t \in Tabs, DeployResult(t)
      PROVE  Tells
  <2>1. phase = "running" /\ UNCHANGED <<phase, deploys, shutdown>>
    BY <1>9 DEF DeployResult, Looping
  <2>2. CASE job[t] = "succeeded"
    BY <1>9, <2>1, <2>2 DEF DeployResult
  <2>3. CASE job[t] # "succeeded"
    BY <1>9, <2>1, <2>3, EndingTells DEF DeployResult, Publish
  <2> QED
    BY <2>2, <2>3
<1>10. ASSUME NEW t \in Tabs, TabStep(t) \/ DeployStep(t)
      PROVE  Tells
  BY <1>10 DEF TabStep, DeployStep
<1>11. CASE MessageGarbled \/ BridgeDies
  BY <1>11 DEF MessageGarbled, BridgeDies
<1>12. CASE BridgeShutsDown
  BY <1>12 DEF BridgeShutsDown
<1> QED
  BY <1>1, <1>2, <1>3, <1>4, <1>5, <1>6, <1>7, <1>8, <1>9, <1>10, <1>11, <1>12
     DEF ArchiveStep, LoopStep

LEMMA TellingKeepsTold ==
  ASSUME RunTold, AgentTold, Tells, UNCHANGED agentVars
  PROVE  RunTold' /\ AgentTold'
<1>1. phase \in {"draining", "ended"} => (IsComplete' <=> IsComplete)
  BY CompletionKept DEF Tells
<1>2. UNCHANGED <<agent, outcome, shown>>
  BY DEF agentVars
<1>3. Blemished => Blemished'
  BY DEF Blemished, Tells
<1>4. shutdown' \in BOOLEAN /\ terminal' \subseteq failures' /\ published' \subseteq {"started", "error"}
  BY DEF RunTold, Tells
<1>5. "error" \in published' => Blemished'
  BY <1>3 DEF RunTold, Tells, Blemished
<1>6. phase' \in {"draining", "ended"} => Blemished' \/ IsComplete' \/ agent' = "dead"
  <2>1. CASE phase \in {"draining", "ended"}
    BY <1>1, <1>2, <1>3, <2>1 DEF RunTold
  <2>2. CASE phase \notin {"draining", "ended"}
    BY <2>2 DEF Tells, Blemished
  <2> QED
    BY <2>1, <2>2
<1>7. AgentTold'
  <2>1. agent' \in {"idle", "acquiring", "starting", "collecting"} =>
          ~shutdown' /\ outcome' # "succeeded"
    BY <1>2 DEF AgentTold, Tells
  <2>2. shown' = "failed" => agent' \in {"finished", "dead"} \/ Blemished'
    BY <1>2, <1>3 DEF AgentTold
  <2>3. ASSUME outcome' = "succeeded"
        PROVE  /\ phase' = "ended" /\ failures' = {} /\ IsComplete'
               /\ agent' = "returning" => shown' # "failed"
    BY <1>1, <1>2, <2>3 DEF AgentTold, Tells
  <2> QED
    BY <2>1, <2>2, <2>3 DEF AgentTold
<1> QED
  BY <1>4, <1>5, <1>6, <1>7 DEF RunTold

(***************************************************************************)
(* What the agent makes of it.                                             *)
(***************************************************************************)
Told == RunTold /\ AgentTold

\* Nothing of the archive run's account changes, unless it is told to stop.
Listens ==
  /\ UNCHANGED <<deploys, downloaded, deployed, terminal, failures>>
  /\ published' \subseteq published
  /\ shutdown' \in BOOLEAN /\ (shutdown => shutdown')
  /\ phase' = phase \/ phase' \notin {"draining", "ended"}

LEMMA ListeningKeepsRunTold ==
  ASSUME RunTold, Listens, agent = "dead" => agent' = "dead"
  PROVE  RunTold'
<1>1. IsComplete' <=> IsComplete
  BY CompletionKept DEF Listens
<1>2. Blemished => Blemished'
  BY DEF Blemished, Listens
<1> QED
  BY <1>1, <1>2 DEF RunTold, Listens

LEMMA SubmitTold ==
  ASSUME Told, NEW ids \in SUBSET Accounts, Submit(ids)
  PROVE  Told'
<1>1. Listens /\ agent = "idle" /\ agent' = "acquiring" /\ outcome' = outcome /\ shown' = "queued"
      /\ shutdown' = shutdown
  BY DEF Submit, Listens, Told, RunTold, archiveVars, loopVars, tracker
<1>2. RunTold'
  BY <1>1, ListeningKeepsRunTold DEF Told
<1> QED
  BY <1>1, <1>2 DEF Told, AgentTold

LEMMA AcquireTold ==
  ASSUME Told, Acquire
  PROVE  Told'
<1>1. Listens /\ agent = "acquiring" /\ shutdown' = shutdown
      /\ \/ agent' = "starting" /\ outcome' = outcome /\ shown' = "starting"
         \/ agent' = "finished" /\ outcome' = "error"
  BY DEF Acquire, EndsInError, Listens, Told, RunTold, archiveVars, loopVars, tracker
<1>2. RunTold'
  BY <1>1, ListeningKeepsRunTold DEF Told
<1> QED
  BY <1>1, <1>2 DEF Told, AgentTold

LEMMA StartTold ==
  ASSUME Told, BackendStarts
  PROVE  Told'
<1>1. /\ UNCHANGED <<deploys, shutdown, downloaded, deployed, terminal, failures, outcome, shown>>
      /\ agent = "starting" /\ agent' = "collecting" /\ phase' = "starting"
      /\ published' = published \cup {"started"}
  BY DEF BackendStarts, StartRun, Publish, tracker
<1>2. Blemished' <=> Blemished
  BY <1>1 DEF Blemished
<1>3. RunTold'
  BY <1>1, <1>2 DEF Told, RunTold
<1> QED
  BY <1>1, <1>2, <1>3 DEF Told, AgentTold

LEMMA FailureTold ==
  ASSUME Told, BackendFails \/ CollectionFails
  PROVE  Told'
<1>1. Listens /\ agent' = "finished" /\ outcome' = "error" /\ agent # "dead"
  BY DEF BackendFails, CollectionFails, EndsInError, Listens, Told, RunTold, archiveVars, loopVars,
     tracker
<1>2. RunTold'
  BY <1>1, ListeningKeepsRunTold DEF Told
<1> QED
  BY <1>1, <1>2 DEF Told, AgentTold

LEMMA EventTold ==
  ASSUME Told, CollectEvent
  PROVE  Told'
<1>1. /\ Listens /\ agent = "collecting" /\ agent' = agent /\ outcome' = outcome
      /\ shutdown' = shutdown
      /\ shown' = "failed" => "error" \in published
  BY DEF CollectEvent, Listens, Told, RunTold, archiveVars, loopVars, tracker
<1>2. RunTold'
  BY <1>1, ListeningKeepsRunTold DEF Told
<1>3. Blemished => Blemished'
  BY <1>1 DEF Listens, Blemished
<1>4. shown' = "failed" => Blemished'
  BY <1>1, <1>3 DEF Told, RunTold
<1> QED
  BY <1>1, <1>2, <1>4 DEF Told, AgentTold

LEMMA LagTold ==
  ASSUME Told, EventsLag
  PROVE  Told'
<1>1. Listens /\ UNCHANGED <<agent, outcome, shown, shutdown>> /\ agent = "collecting"
  BY DEF EventsLag, Listens, Told, RunTold, archiveVars, loopVars, tracker, agentVars
<1>2. RunTold'
  BY <1>1, ListeningKeepsRunTold DEF Told
<1>3. Blemished => Blemished'
  BY <1>1 DEF Listens, Blemished
<1> QED
  BY <1>1, <1>2, <1>3 DEF Told, AgentTold

LEMMA DeadlineTold ==
  ASSUME Told, AgentDeadline
  PROVE  Told'
<1>1. /\ Listens /\ agent = "collecting" /\ agent' = "returning" /\ outcome' = "timed-out"
      /\ shutdown'
  BY DEF AgentDeadline, Listens, Told, RunTold, tracker
<1>2. RunTold'
  BY <1>1, ListeningKeepsRunTold DEF Told
<1> QED
  BY <1>1, <1>2 DEF Told, AgentTold, Blemished

LEMMA SummaryTold ==
  ASSUME Told, TakeSummary
  PROVE  Told'
<1>1. /\ Listens /\ agent = "collecting" /\ agent' = "returning" /\ shown' = shown
      /\ shutdown' /\ phase = "ended" /\ phase' = phase
      /\ outcome' = "succeeded" => failures = {}
  BY DEF TakeSummary, Listens, Told, RunTold, tracker
<1>2. RunTold'
  BY <1>1, ListeningKeepsRunTold DEF Told
<1>3. ASSUME outcome' = "succeeded"
      PROVE  failures' = {} /\ IsComplete' /\ shown' # "failed"
  <2>1. failures = {} /\ ~Blemished
    BY <1>1, <1>3 DEF Told, AgentTold, Blemished
  <2>2. IsComplete /\ shown # "failed"
    BY <1>1, <2>1 DEF Told, RunTold, AgentTold
  <2>3. IsComplete'
    BY <1>1, <2>2, CompletionKept DEF Listens
  <2> QED
    BY <1>1, <2>1, <2>2, <2>3 DEF Listens
<1> QED
  BY <1>1, <1>2, <1>3 DEF Told, AgentTold, Blemished

LEMMA ReturnTold ==
  ASSUME Told, ReturnSummary
  PROVE  Told'
<1>1. /\ Listens /\ agent = "returning" /\ agent' = "finished" /\ phase' = phase
      /\ outcome' = "error" \/ outcome' = outcome
  BY DEF ReturnSummary, EndsInError, Listens, Told, RunTold, archiveVars, loopVars, tracker
<1>2. RunTold' /\ (IsComplete' <=> IsComplete)
  BY <1>1, ListeningKeepsRunTold, CompletionKept DEF Told, Listens
<1> QED
  BY <1>1, <1>2 DEF Told, AgentTold, Listens

LEMMA DeathTold ==
  ASSUME Told, ProcessDies
  PROVE  Told'
<1>1. /\ UNCHANGED <<deploys, shutdown, downloaded, deployed, terminal, failures, published, outcome,
                     shown>>
      /\ agent' = "dead" /\ phase' = IF phase = "idle" THEN phase ELSE "ended"
  BY DEF ProcessDies, tracker
<1>2. (Blemished' <=> Blemished) /\ (IsComplete' <=> IsComplete)
  BY <1>1, CompletionKept DEF Blemished
<1> QED
  BY <1>1, <1>2 DEF Told, RunTold, AgentTold

LEMMA OthersTold ==
  ASSUME Told, UNCHANGED <<archiveVars, agentVars>>
  PROVE  Told'
<1>1. Listens /\ UNCHANGED <<agent, outcome, shown, shutdown, phase>>
  BY DEF Listens, Told, RunTold, archiveVars, loopVars, tracker, agentVars
<1>2. RunTold' /\ (IsComplete' <=> IsComplete) /\ (Blemished => Blemished')
  BY <1>1, ListeningKeepsRunTold, CompletionKept DEF Told, Listens, Blemished
<1> QED
  BY <1>1, <1>2 DEF Told, AgentTold, Listens

LEMMA TellStep ==
  ASSUME TellInv, [Next]_vars
  PROVE  TellInv'
<1> USE DEF TellInv
<1>1. LineInv'
  BY LineStep
<1>2. CASE ArchiveStep /\ UNCHANGED <<leaseVars, agentVars>>
  BY <1>1, <1>2, ArchiveTells, TellingKeepsTold
<1>3. CASE AgentStep
  <2>1. Told
    BY DEF Told
  <2>2. Told'
    BY <1>3, <2>1, SubmitTold, AcquireTold, StartTold, FailureTold, EventTold, LagTold, DeadlineTold,
       SummaryTold, ReturnTold, DeathTold DEF AgentStep
  <2> QED
    BY <1>1, <2>2 DEF Told
<1>4. CASE OthersStep \/ UNCHANGED vars
  <2>1. UNCHANGED <<archiveVars, agentVars>>
    BY <1>4 DEF OthersStep, vars
  <2> QED
    BY <1>1, <2>1, OthersTold DEF Told
<1> QED
  BY <1>2, <1>3, <1>4 DEF Next

LEMMA TellStart ==
  ASSUME Init
  PROVE  TellInv
<1>1. /\ phase = "idle" /\ shutdown = FALSE /\ terminal = {} /\ failures = {} /\ published = {}
      /\ agent = "idle" /\ outcome = "none" /\ shown = "none"
  BY DEF Init, ArchiveInit
<1> QED
  BY <1>1, LineStart DEF TellInv, RunTold, AgentTold

\* A run is only reported as succeeded when each of its tabs delivered and, where the run
\* deploys, each deploy succeeded: every tab that ended without its artifact and every
\* failed deploy is in the summary, and a loop that stops early leaves a failure or was
\* told to stop by whoever no longer reads the summary (run/mod.rs, agent/execute.rs).
THEOREM SuccessIsWhole == Spec => []SucceededIsWhole
<1>1. TellInv => SucceededIsWhole
  <2> SUFFICES ASSUME TellInv, outcome = "succeeded"
               PROVE  /\ downloaded = Tabs /\ terminal = {}
                      /\ deploys => \A t \in Tabs : job[t] = "succeeded"
    BY DEF SucceededIsWhole
  <2>1. failures = {} /\ IsComplete /\ terminal = {}
    BY DEF TellInv, AgentTold, RunTold
  <2>2. \A t \in Tabs : t \in downloaded /\ (deploys => t \in deployed)
    BY <2>1 DEF IsComplete
  <2>3. downloaded \subseteq Tabs
    BY DEF TellInv, LineInv, RunType
  <2>4. deploys => \A t \in deployed : job[t] = "succeeded"
    BY DEF TellInv, LineInv, DeliversOnce
  <2> QED
    BY <2>1, <2>2, <2>3, <2>4
<1>2. Init => TellInv
  BY TellStart
<1>3. TellInv /\ [Next]_vars => TellInv'
  BY TellStep
<1> QED
  BY <1>1, <1>2, <1>3, PTL DEF Spec

\* A run that was shown as failed is not reported as succeeded afterwards, whichever of
\* its events the collector reads before it takes the summary (runs/events.rs).
THEOREM FailureStays == Spec => FailureIsNotRetracted
<1>1. TellInv /\ [Next]_vars => [shown = "failed" => shown' # "succeeded"]_vars
  <2> SUFFICES ASSUME TellInv, Next, shown = "failed", shown' = "succeeded"
               PROVE  FALSE
    OBVIOUS
  <2>1. CASE ReturnSummary
    <3>1. agent = "returning" /\ outcome = "succeeded"
      BY <2>1 DEF ReturnSummary, EndsInError
    <3> QED
      BY <3>1 DEF TellInv, AgentTold
  <2>2. CASE \E ids \in SUBSET Accounts : Submit(ids)
    BY <2>2 DEF Submit
  <2>3. CASE Acquire \/ BackendStarts \/ BackendFails
    BY <2>3 DEF Acquire, BackendStarts, BackendFails, EndsInError
  <2>4. CASE CollectEvent \/ EventsLag \/ CollectionFails
    BY <2>4 DEF CollectEvent, EventsLag, CollectionFails, EndsInError, agentVars
  <2>5. CASE AgentDeadline \/ TakeSummary \/ ProcessDies
    BY <2>5 DEF AgentDeadline, TakeSummary, ProcessDies
  <2>6. CASE OthersStep \/ (ArchiveStep /\ UNCHANGED <<leaseVars, agentVars>>)
    BY <2>6 DEF OthersStep, agentVars
  <2> QED
    BY <2>1, <2>2, <2>3, <2>4, <2>5, <2>6 DEF Next, AgentStep
<1>2. Init => TellInv
  BY TellStart
<1>3. TellInv /\ [Next]_vars => TellInv'
  BY TellStep
<1> QED
  BY <1>1, <1>2, <1>3, PTL DEF Spec, FailureIsNotRetracted

(***************************************************************************)
(* The allocation of tabs to accounts.                                     *)
(***************************************************************************)
LEMMA LeastNatural ==
  ASSUME NEW S \in SUBSET Nat, S # {}
  PROVE  \E m \in S : \A k \in S : m <= k
<1> DEFINE R == OpToRel(<, Nat)
<1>1. IsWellFoundedOn(R, Nat)
  BY NatLessThanWellFounded
<1>2. \A x, y \in Nat : x < y => <<x, y>> \in R
  BY DEF OpToRel
<1> HIDE DEF R
<1>3. PICK m \in S : \A k \in S : ~ (<<k, m>> \in R)
  BY <1>1, WFMin
<1>4. \A k \in S : ~(k < m)
  BY <1>2, <1>3
<1> QED
  BY <1>3, <1>4

\* There is a least element in the order of a share and, where it is the same, a use.
LEMMA BestExists ==
  ASSUME NEW S, S # {}, NEW f, NEW g, \A a \in S : f[a] \in Nat /\ g[a] \in Nat
  PROVE  \E a \in S : \A b \in S : f[a] < f[b] \/ (f[a] = f[b] /\ g[a] <= g[b])
<1> DEFINE F == {f[a] : a \in S}
<1>1. F \in SUBSET Nat /\ F # {}
  OBVIOUS
<1>2. PICK low \in F : \A k \in F : low <= k
  BY <1>1, LeastNatural
<1> DEFINE G == {g[a] : a \in {x \in S : f[x] = low}}
<1>3. G \in SUBSET Nat /\ G # {}
  OBVIOUS
<1>4. PICK least \in G : \A k \in G : least <= k
  BY <1>3, LeastNatural
<1>5. PICK a \in S : f[a] = low /\ g[a] = least
  OBVIOUS
<1>6. ASSUME NEW b \in S
      PROVE  f[a] < f[b] \/ (f[a] = f[b] /\ g[a] <= g[b])
  <2>1. f[b] \in F /\ low <= f[b]
    BY <1>2
  <2>2. f[b] = low => g[b] \in G /\ least <= g[b]
    BY <1>4
  <2> HIDE DEF F, G
  <2>3. f[a] \in Nat /\ f[b] \in Nat /\ g[a] \in Nat /\ g[b] \in Nat
    OBVIOUS
  <2> QED
    BY <1>5, <2>1, <2>2, <2>3
<1> QED
  BY <1>6

LEMMA ImageIsFinite ==
  ASSUME NEW S, IsFiniteSet(S), NEW f
  PROVE  IsFiniteSet({f[x] : x \in S})
<1> DEFINE g == [x \in S |-> f[x]]
           T == {f[x] : x \in S}
<1>1. g \in Surjection(S, T)
  BY DEF Surjection
<1> HIDE DEF g, T
<1>2. IsFiniteSet(T)
  BY <1>1, FS_Surjection
<1> QED
  BY <1>2 DEF T

Records == [holder : Holders, account : Accounts, tabs : Nat]

LEMMA LoadIsNatural ==
  ASSUME NEW records \in SUBSET Records, IsFiniteSet(records), NEW a
  PROVE  IsFiniteSet(Leased(records, a)) /\ Load(records, a) \in Nat
<1> DEFINE mine == {r \in records : r.account = a}
           slots == [l \in mine |-> {l} \X (1 .. l.tabs)]
           all == {slots[l] : l \in mine}
<1>1. IsFiniteSet(mine)
  BY FS_Subset
<1>2. \A l \in mine : IsFiniteSet(slots[l])
  <2> TAKE l \in mine
  <2>1. l.tabs \in Nat
    BY DEF Records
  <2>2. IsFiniteSet(1 .. l.tabs)
    <3>1. 1 \in Int /\ l.tabs \in Int
      BY <2>1
    <3> QED
      BY <3>1, FS_Interval
  <2>3. IsFiniteSet({l} \X (1 .. l.tabs))
    BY <2>2, FS_Singleton, FS_Product
  <2> QED
    BY <2>3
<1>3. Leased(records, a) = UNION all
  BY DEF Leased
<1> HIDE DEF mine, slots
<1>4. IsFiniteSet(all)
  BY <1>1, ImageIsFinite
<1>5. \A T \in all : IsFiniteSet(T)
  BY <1>2
<1> HIDE DEF all
<1>6. IsFiniteSet(UNION all)
  BY <1>4, <1>5, FS_UNION
<1>7. IsFiniteSet(Leased(records, a))
  BY <1>3, <1>6
<1> QED
  BY <1>7, FS_CardinalityType DEF Load

LEMMA LoadIsMonotonic ==
  ASSUME NEW all \in SUBSET Records, IsFiniteSet(all), NEW records \in SUBSET all, NEW a
  PROVE  Load(records, a) <= Load(all, a)
<1>1. Leased(records, a) \subseteq Leased(all, a)
  BY DEF Leased
<1>2. IsFiniteSet(Leased(all, a))
  BY LoadIsNatural
<1> QED
  BY <1>1, <1>2, FS_Subset DEF Load

\* How many of the tabs an allocation gives to an account.
Share(given, a) == Cardinality({i \in DOMAIN given : given[i] = a})

LEMMA ShareIsNatural ==
  ASSUME NEW C, NEW given \in Seq(C), NEW a
  PROVE  Share(given, a) \in Nat
<1> DEFINE mine == {i \in DOMAIN given : given[i] = a}
<1>1. DOMAIN given = 1 .. Len(given) /\ Len(given) \in Nat
  BY LenProperties
<1>2. IsFiniteSet(1 .. Len(given)) /\ mine \subseteq 1 .. Len(given)
  BY <1>1, FS_Interval
<1> HIDE DEF mine
<1>3. Cardinality(mine) \in Nat
  BY <1>2, FS_Subset, FS_CardinalityType
<1> QED
  BY <1>3 DEF Share, mine

LEMMA ShareOfNothing == \A a : Share(<<>>, a) = 0
<1> SUFFICES ASSUME NEW a PROVE Share(<<>>, a) = 0
  OBVIOUS
<1>1. {i \in DOMAIN <<>> : (<<>>)[i] = a} = {}
  OBVIOUS
<1> QED
  BY <1>1, FS_EmptySet DEF Share

LEMMA ShareGrows ==
  ASSUME NEW C, NEW given \in Seq(C), NEW b \in C, NEW a
  PROVE  Share(Append(given, b), a) =
           IF a = b THEN Share(given, a) + 1 ELSE Share(given, a)
<1> DEFINE n == Len(given)
           mine == {i \in DOMAIN given : given[i] = a}
           more == Append(given, b)
           then == {i \in DOMAIN more : more[i] = a}
<1>1. n \in Nat /\ DOMAIN given = 1 .. n
  BY LenProperties
<1>2. DOMAIN more = 1 .. n + 1 /\ more[n + 1] = b /\ \A i \in 1 .. n : more[i] = given[i]
  BY <1>1, AppendProperties
<1>3. IsFiniteSet(mine) /\ n + 1 \notin mine
  <2>1. IsFiniteSet(1 .. n)
    BY <1>1, FS_Interval
  <2>2. mine \subseteq 1 .. n /\ n + 1 \notin 1 .. n
    BY <1>1
  <2> HIDE DEF n, mine
  <2> QED
    BY <2>1, <2>2, FS_Subset
<1>5. a = b => then = mine \cup {n + 1}
  BY <1>1, <1>2
<1>6. a # b => then = mine
  BY <1>1, <1>2
<1> HIDE DEF n, mine, more, then
<1>7. Cardinality(mine \cup {n + 1}) = IF n + 1 \in mine THEN Cardinality(mine) ELSE Cardinality(mine) + 1
  BY <1>3, FS_AddElement
<1>8. Cardinality(then) = IF a = b THEN Cardinality(mine) + 1 ELSE Cardinality(mine)
  BY <1>3, <1>5, <1>6, <1>7
<1> QED
  BY <1>8 DEF Share, mine, more, then

\* A sequence of tabs given to candidates that keeps every account within its limit.
Fits(records, candidates) ==
  {given \in Seq(candidates) : \A a \in Accounts : Used(records, given, a) <= MaxTabs[a]}

LEMMA UsedIsLoadAndShare ==
  ASSUME NEW records, NEW given, NEW a
  PROVE  Used(records, given, a) = Load(records, a) + Share(given, a)
BY DEF Used, Share

LEMMA NextTabFits ==
  ASSUME NEW records \in SUBSET Records, IsFiniteSet(records),
         NEW candidates \in SUBSET Accounts, NEW given \in Fits(records, candidates)
  PROVE  NextTab(records, candidates, given) \in Fits(records, candidates)
<1> DEFINE used == [a \in candidates |-> Used(records, given, a)]
           free == {a \in candidates : used[a] < MaxTabs[a]}
           share == [a \in candidates |-> (used[a] * 1000) \div MaxTabs[a]]
           Best(a) == \A b \in free :
                        share[a] < share[b] \/ (share[a] = share[b] /\ used[a] <= used[b])
           best == CHOOSE a \in free : Best(a)
<1>1. /\ NextTab(records, candidates, given) = IF free = {} THEN given ELSE Append(given, best)
      /\ free \subseteq candidates
      /\ \A a \in free : Used(records, given, a) < MaxTabs[a]
  BY DEF NextTab
<1>2. given \in Seq(candidates) /\ \A a \in Accounts : Used(records, given, a) <= MaxTabs[a]
  BY DEF Fits
<1>3. \A a \in candidates : used[a] \in Nat
  <2> SUFFICES ASSUME NEW a \in candidates PROVE Used(records, given, a) \in Nat
    OBVIOUS
  <2>1. Load(records, a) \in Nat
    BY LoadIsNatural
  <2>2. Share(given, a) \in Nat
    BY <1>2, ShareIsNatural
  <2> QED
    BY <2>1, <2>2, UsedIsLoadAndShare
<1>4. CASE free # {}
  <2>1. \A a \in free : used[a] \in Nat /\ MaxTabs[a] \in Nat \ {0}
    BY <1>1, <1>3, LeasesAssumption
  <2>2. \A a \in free : share[a] = (used[a] * 1000) \div MaxTabs[a]
    BY <1>1
  <2> HIDE DEF used, free, share
  <2>3. \A a \in free : share[a] \in Nat /\ used[a] \in Nat
    BY <2>1, <2>2
  <2>4. \E a \in free : Best(a)
    BY <1>4, <2>3, BestExists
  <2> HIDE DEF Best
  <2>5. best \in free
    BY <2>4
  <2> HIDE DEF best
  <2>6. Append(given, best) \in Seq(candidates)
    BY <1>1, <1>2, <2>5, AppendProperties
  <2>7. ASSUME NEW a \in Accounts
        PROVE  Used(records, Append(given, best), a) <= MaxTabs[a]
    <3>1. Load(records, a) \in Nat /\ Share(given, a) \in Nat /\ MaxTabs[a] \in Nat
      BY <1>2, <1>1, <2>5, LoadIsNatural, ShareIsNatural, LeasesAssumption
    <3>2. Load(records, a) + Share(given, a) <= MaxTabs[a]
      BY <1>2, UsedIsLoadAndShare
    <3>3. a = best => Load(records, a) + Share(given, a) < MaxTabs[a]
      BY <1>1, <2>5, UsedIsLoadAndShare
    <3>4. Share(Append(given, best), a) = IF a = best THEN Share(given, a) + 1 ELSE Share(given, a)
      BY <1>1, <1>2, <2>5, ShareGrows
    <3>5. Load(records, a) + Share(Append(given, best), a) <= MaxTabs[a]
      BY <3>1, <3>2, <3>3, <3>4
    <3> QED
      BY <3>5, UsedIsLoadAndShare
  <2> QED
    BY <1>1, <1>4, <2>6, <2>7 DEF Fits
<1> QED
  BY <1>1, <1>4

\* The tabs of an allocation are found one after the other, so that there is a plan
\* for every number of them.
Repeats(f, X, start, step, N) ==
  /\ f \in [0 .. N -> X]
  /\ \A n \in 0 .. N : f[n] = IF n = 0 THEN start ELSE step[f[n - 1]]

LEMMA PlanExists ==
  ASSUME NEW X, NEW start \in X, NEW step, \A x \in X : step[x] \in X, NEW N \in Nat
  PROVE  \E f : Repeats(f, X, start, step, N)
<1> DEFINE Ok(f, k) == \A n \in 0 .. k : f[n] = IF n = 0 THEN start ELSE step[f[n - 1]]
           Without == {k \in Nat : ~ \E f \in [0 .. k -> X] : Ok(f, k)}
<1> SUFFICES Without = {}
  BY DEF Repeats
<1> SUFFICES ASSUME Without # {} PROVE FALSE
  OBVIOUS
<1>1. PICK k \in Without : \A j \in Without : k <= j
  BY LeastNatural
<1>2. k # 0
  <2>1. Ok([n \in 0 .. 0 |-> start], 0)
    OBVIOUS
  <2>2. [n \in 0 .. 0 |-> start] \in [0 .. 0 -> X]
    OBVIOUS
  <2> QED
    BY <2>1, <2>2
<1>3. k - 1 \in Nat /\ k - 1 \notin Without
  BY <1>1, <1>2
<1>4. PICK f \in [0 .. k - 1 -> X] : Ok(f, k - 1)
  BY <1>3
<1> DEFINE g == [n \in 0 .. k |-> IF n = k THEN step[f[k - 1]] ELSE f[n]]
<1>5. f[k - 1] \in X /\ step[f[k - 1]] \in X
  BY <1>3, <1>4
<1>6. g \in [0 .. k -> X]
  BY <1>3, <1>5
<1>7. Ok(g, k)
  <2> SUFFICES ASSUME NEW n \in 0 .. k PROVE g[n] = IF n = 0 THEN start ELSE step[g[n - 1]]
    OBVIOUS
  <2>1. CASE n = k
    BY <1>2, <1>3, <2>1
  <2>2. CASE n # k
    <3>1. n \in 0 .. k - 1 /\ g[n] = f[n]
      BY <1>3, <2>2
    <3>2. n # 0 => n - 1 \in 0 .. k /\ n - 1 # k /\ g[n - 1] = f[n - 1]
      BY <1>3, <3>1
    <3> QED
      BY <1>4, <3>1, <3>2
  <2> QED
    BY <2>1, <2>2
<1> QED
  BY <1>1, <1>6, <1>7

LEMMA AllocationFits ==
  ASSUME NEW records \in SUBSET Records, IsFiniteSet(records),
         \A a \in Accounts : Load(records, a) <= MaxTabs[a],
         NEW candidates \in SUBSET Accounts, NEW tabs \in Nat
  PROVE  Allocation(records, candidates, tabs) \in Fits(records, candidates)
<1> DEFINE X == Fits(records, candidates)
           Step(x) == NextTab(records, candidates, x)
           step == [x \in X |-> Step(x)]
           Def(f) == [n \in 0 .. tabs |-> IF n = 0 THEN <<>> ELSE Step(f[n - 1])]
           plan == CHOOSE f : f = Def(f)
<1>1. Allocation(records, candidates, tabs) = plan[tabs]
  BY DEF Allocation
<1>2. <<>> \in X
  <2>1. <<>> \in Seq(candidates)
    BY EmptySeq
  <2>2. ASSUME NEW a \in Accounts
        PROVE  Used(records, <<>>, a) <= MaxTabs[a]
    <3>1. Share(<<>>, a) = 0 /\ Load(records, a) \in Nat
      BY ShareOfNothing, LoadIsNatural
    <3> QED
      BY <3>1, UsedIsLoadAndShare
  <2> QED
    BY <2>1, <2>2 DEF Fits
<1>3. \A x \in X : Step(x) \in X
  BY NextTabFits
<1> HIDE DEF X, Step
<1>4. \A x \in X : step[x] = Step(x)
  OBVIOUS
<1> HIDE DEF step
<1>5. \A x \in X : step[x] \in X
  BY <1>3, <1>4
<1>6. PICK f : Repeats(f, X, <<>>, step, tabs)
  BY <1>2, <1>5, PlanExists
<1>7. \A n \in 0 .. tabs : f[n] = IF n = 0 THEN <<>> ELSE Step(f[n - 1])
  <2> TAKE n \in 0 .. tabs
  <2>1. n # 0 => n - 1 \in 0 .. tabs
    OBVIOUS
  <2> QED
    BY <1>4, <1>6, <2>1 DEF Repeats
<1>8. f = Def(f)
  <2>1. f \in [0 .. tabs -> X]
    BY <1>6 DEF Repeats
  <2> QED
    BY <1>7, <2>1
<1>9. plan = Def(plan)
  BY <1>8
<1> HIDE DEF plan
<1>10. \A n \in 0 .. tabs : plan[n] = IF n = 0 THEN <<>> ELSE Step(plan[n - 1])
  BY <1>9
<1> DEFINE Off == {n \in 0 .. tabs : plan[n] \notin X}
<1>11. Off = {}
  <2> SUFFICES ASSUME Off # {} PROVE FALSE
    OBVIOUS
  <2>1. Off \in SUBSET Nat
    OBVIOUS
  <2>2. PICK n \in Off : \A k \in Off : n <= k
    BY <2>1, LeastNatural
  <2>3. n # 0
    BY <1>2, <1>10, <2>2
  <2>4. n - 1 \in 0 .. tabs /\ n - 1 \notin Off
    BY <2>2, <2>3
  <2> QED
    BY <1>3, <1>10, <2>2, <2>3, <2>4
<1> QED
  BY <1>1, <1>11 DEF X

(***************************************************************************)
(* The leases.                                                             *)
(***************************************************************************)
LeaseInv ==
  /\ leases \subseteq Records /\ IsFiniteSet(leases)
  /\ LeasedWithinLimit /\ ClaimedIsNotLeased

\* Records only go: they are returned, or purged.
LEMMA FewerLeases ==
  ASSUME LeaseInv, leases' \subseteq leases, claimed' = claimed
  PROVE  LeaseInv'
<1>1. IsFiniteSet(leases') /\ leases' \subseteq Records
  BY FS_Subset DEF LeaseInv
<1>2. ASSUME NEW a \in Accounts
      PROVE  Load(leases', a) <= MaxTabs[a]
  <2>1. Load(leases', a) <= Load(leases, a) /\ Load(leases, a) <= MaxTabs[a]
    BY LoadIsMonotonic DEF LeaseInv, LeasedWithinLimit
  <2>2. Load(leases', a) \in Nat /\ Load(leases, a) \in Nat /\ MaxTabs[a] \in Nat
    BY <1>1, LoadIsNatural, LeasesAssumption DEF LeaseInv
  <2> QED
    BY <2>1, <2>2
<1>3. LeasedWithinLimit'
  BY <1>2 DEF LeasedWithinLimit
<1>4. ClaimedIsNotLeased'
  BY DEF LeaseInv, ClaimedIsNotLeased
<1> QED
  BY <1>1, <1>3, <1>4 DEF LeaseInv

LEMMA PurgedIsSubset ==
  ASSUME NEW all, NEW records \in Purged(all)
  PROVE  records \subseteq all
BY DEF Purged

\* The records of an allocation add its share to the load of each account.
LEMMA RecordsAddShare ==
  ASSUME NEW records \in SUBSET Records, IsFiniteSet(records), NEW h \in Holders,
         NEW candidates \in SUBSET Accounts, NEW plan \in Seq(candidates)
  PROVE  /\ records \cup RecordsOf(h, plan) \subseteq Records
         /\ IsFiniteSet(records \cup RecordsOf(h, plan))
         /\ \A l \in RecordsOf(h, plan) : l.account \in candidates
         /\ \A a \in Accounts :
              Load(records \cup RecordsOf(h, plan), a) <= Load(records, a) + Share(plan, a)
<1> DEFINE new == RecordsOf(h, plan)
           Rec(a) == [holder |-> h, account |-> a, tabs |-> Share(plan, a)]
           places == {plan[i] : i \in DOMAIN plan}
<1>1. new = {Rec(a) : a \in places}
  BY DEF RecordsOf, Share
<1>2. DOMAIN plan = 1 .. Len(plan) /\ Len(plan) \in Nat
  BY LenProperties
<1>3. places \subseteq candidates /\ IsFiniteSet(places)
  <2>1. IsFiniteSet(DOMAIN plan)
    BY <1>2, FS_Interval
  <2>2. \A i \in DOMAIN plan : plan[i] \in candidates
    BY <1>2, ElementOfSeq
  <2> QED
    BY <2>1, <2>2, ImageIsFinite
<1>4. \A a : Share(plan, a) \in Nat
  BY ShareIsNatural
<1>5. \A a \in Accounts : Rec(a) \in Records /\ Rec(a).account = a /\ Rec(a).tabs = Share(plan, a)
  BY <1>4 DEF Records
<1>6. IsFiniteSet(new)
  <2> DEFINE f == [a \in places |-> Rec(a)]
  <2>1. new = {f[a] : a \in places}
    BY <1>1
  <2> HIDE DEF f, new, places
  <2> QED
    BY <1>3, <2>1, ImageIsFinite
<1> HIDE DEF places, Rec, new
<1>7. new \subseteq Records /\ \A l \in new : l.account \in candidates
  BY <1>1, <1>3, <1>5
<1>8. records \cup new \subseteq Records /\ IsFiniteSet(records \cup new)
  BY <1>6, <1>7, FS_Union
<1>9. ASSUME NEW a \in Accounts
      PROVE  Load(records \cup new, a) <= Load(records, a) + Share(plan, a)
  <2> DEFINE old == Leased(records, a)
             slots == {Rec(a)} \X (1 .. Share(plan, a))
  <2>1. Leased(records \cup new, a) \subseteq old \cup slots
    BY <1>1, <1>3, <1>5 DEF Leased
  <2>2. IsFiniteSet(old) /\ Cardinality(old) = Load(records, a) /\ Load(records, a) \in Nat
    BY LoadIsNatural DEF Load
  <2>3. IsFiniteSet(slots) /\ Cardinality(slots) = Share(plan, a)
    <3>1. Share(plan, a) \in Nat
      BY <1>4
    <3>2. IsFiniteSet(1 .. Share(plan, a)) /\ Cardinality(1 .. Share(plan, a)) = Share(plan, a)
      <4> DEFINE n == Share(plan, a)
      <4>1. 1 \in Int /\ n \in Int /\ n \in Nat
        BY <3>1
      <4> HIDE DEF n
      <4>2. IsFiniteSet(1 .. n) /\ Cardinality(1 .. n) = IF 1 > n THEN 0 ELSE n - 1 + 1
        BY <4>1, FS_Interval
      <4>3. IsFiniteSet(1 .. n) /\ Cardinality(1 .. n) = n
        BY <4>1, <4>2
      <4> QED
        BY <4>3 DEF n
    <3>3. IsFiniteSet({Rec(a)}) /\ Cardinality({Rec(a)}) = 1
      BY FS_Singleton
    <3>4. IsFiniteSet(slots) /\ Cardinality(slots) = 1 * Share(plan, a)
      BY <3>2, <3>3, FS_Product
    <3> QED
      BY <3>1, <3>4
  <2> HIDE DEF old, slots
  <2>4. /\ IsFiniteSet(old \cup slots) /\ IsFiniteSet(old \cap slots)
        /\ Cardinality(old \cup slots)
             = Cardinality(old) + Cardinality(slots) - Cardinality(old \cap slots)
    BY <2>2, <2>3, FS_Union, FS_Intersection
  <2>5. Cardinality(old \cap slots) \in Nat
    BY <2>4, FS_CardinalityType
  <2>6. Cardinality(Leased(records \cup new, a)) <= Cardinality(old \cup slots)
    BY <2>1, <2>4, FS_Subset
  <2>7. Cardinality(Leased(records \cup new, a)) \in Nat
    BY <2>1, <2>4, FS_Subset, FS_CardinalityType
  <2>8. Share(plan, a) \in Nat
    BY <1>4
  <2>9. Load(records \cup new, a) = Cardinality(Leased(records \cup new, a))
    BY DEF Load
  <2> QED
    BY <2>2, <2>3, <2>4, <2>5, <2>6, <2>7, <2>8, <2>9
<1> QED
  BY <1>7, <1>8, <1>9 DEF new

LEMMA AcquisitionKeepsLeases ==
  ASSUME LeaseInv, NEW h \in Holders, NEW ids, NEW tabs \in Nat, NEW answer,
         TryAcquire(h, ids, tabs, answer)
  PROVE  LeaseInv'
<1>1. claimed' = claimed
  BY DEF TryAcquire
<1>2. CASE leases' = leases
  BY <1>1, <1>2, FewerLeases
<1>3. CASE leases' # leases
  <2>1. /\ ~Refused(ids, tabs)
        /\ \E records \in Purged(leases) :
             leases' = records \cup RecordsOf(h, Allocation(records, Candidates(ids), tabs))
    BY <1>3 DEF TryAcquire
  <2>2. PICK records \in Purged(leases) :
          leases' = records \cup RecordsOf(h, Allocation(records, Candidates(ids), tabs))
    BY <2>1
  <2> DEFINE candidates == Candidates(ids)
             plan == Allocation(records, candidates, tabs)
  <2>3. candidates \subseteq Accounts /\ candidates \cap claimed = {}
    BY <2>1 DEF Refused, Ready
  <2>4. records \subseteq leases /\ records \subseteq Records /\ IsFiniteSet(records)
    BY PurgedIsSubset, FS_Subset DEF LeaseInv
  <2>5. ASSUME NEW a \in Accounts
        PROVE  Load(records, a) <= MaxTabs[a]
    <3>1. Load(records, a) <= Load(leases, a) /\ Load(leases, a) <= MaxTabs[a]
      BY <2>4, LoadIsMonotonic DEF LeaseInv, LeasedWithinLimit
    <3>2. Load(records, a) \in Nat /\ Load(leases, a) \in Nat /\ MaxTabs[a] \in Nat
      BY <2>4, LoadIsNatural, LeasesAssumption DEF LeaseInv
    <3> QED
      BY <3>1, <3>2
  <2> HIDE DEF candidates
  <2>6. plan \in Fits(records, candidates)
    BY <2>3, <2>4, <2>5, AllocationFits
  <2>7. leases' = records \cup RecordsOf(h, plan)
    BY <2>2 DEF candidates
  <2> HIDE DEF plan
  <2>8. plan \in Seq(candidates) /\ \A a \in Accounts : Used(records, plan, a) <= MaxTabs[a]
    BY <2>6 DEF Fits
  <2>9. /\ leases' \subseteq Records /\ IsFiniteSet(leases')
        /\ \A l \in RecordsOf(h, plan) : l.account \in candidates
        /\ \A a \in Accounts : Load(leases', a) <= Load(records, a) + Share(plan, a)
    BY <2>3, <2>4, <2>7, <2>8, RecordsAddShare
  <2>10. ASSUME NEW a \in Accounts
         PROVE  Load(leases', a) <= MaxTabs[a]
    <3>1. /\ Load(leases', a) <= Used(records, plan, a)
          /\ Used(records, plan, a) <= MaxTabs[a]
      BY <2>8, <2>9, UsedIsLoadAndShare
    <3>2. Load(leases', a) \in Nat /\ MaxTabs[a] \in Nat
      BY <2>9, LoadIsNatural, LeasesAssumption
    <3>3. Used(records, plan, a) \in Nat
      <4>1. Load(records, a) \in Nat /\ Share(plan, a) \in Nat
        BY <2>4, <2>8, LoadIsNatural, ShareIsNatural
      <4> QED
        BY <4>1, UsedIsLoadAndShare
    <3> QED
      BY <3>1, <3>2, <3>3
  <2>11. LeasedWithinLimit'
    BY <2>10 DEF LeasedWithinLimit
  <2>12. ClaimedIsNotLeased'
    BY <1>1, <2>3, <2>4, <2>7, <2>9 DEF LeaseInv, ClaimedIsNotLeased
  <2> QED
    BY <2>9, <2>11, <2>12 DEF LeaseInv
<1> QED
  BY <1>2, <1>3
LEMMA ReturningKeepsLeases ==
  ASSUME LeaseInv, NEW h, ReleaseLease(h)
  PROVE  LeaseInv'
<1>1. PICK records \in Purged(leases) : leases' = {l \in records : l.holder # h}
  BY DEF ReleaseLease
<1>2. leases' \subseteq leases /\ claimed' = claimed
  BY <1>1, PurgedIsSubset DEF ReleaseLease
<1> QED
  BY <1>2, FewerLeases

LEMMA OthersKeepLeases ==
  ASSUME LeaseInv, OthersStep
  PROVE  LeaseInv'
<1>1. ASSUME NEW h \in Rivals, RivalAcquires(h)
      PROVE  LeaseInv'
  <2>1. PICK ids \in SUBSET Accounts, tabs \in 1 .. Capacity(Accounts) :
          TryAcquire(h, ids, tabs, "leased")
    BY <1>1 DEF RivalAcquires
  <2>2. tabs \in Nat /\ h \in Holders
    BY DEF Rivals
  <2> QED
    BY <2>1, <2>2, AcquisitionKeepsLeases
<1>2. ASSUME NEW h \in Rivals, RivalReleases(h)
      PROVE  LeaseInv'
  BY <1>2, ReturningKeepsLeases DEF RivalReleases
<1>3. ASSUME NEW h \in Rivals, HolderDies(h)
      PROVE  LeaseInv'
  BY <1>3, FewerLeases DEF HolderDies
<1>4. ASSUME NEW a \in Accounts, RegisterAccount(a) \/ \E confirmed \in BOOLEAN : VerifyAccount(a, confirmed)
      PROVE  LeaseInv'
  BY <1>4, FewerLeases DEF RegisterAccount, VerifyAccount
<1>5. CASE ClaimProfiles
  <2>1. leases' = {}
    BY <1>5 DEF ClaimProfiles
  <2>3. IsFiniteSet(leases') /\ leases' \subseteq Records
    BY <2>1, FS_EmptySet
  <2>4. ClaimedIsNotLeased'
    BY <2>1 DEF ClaimedIsNotLeased
  <2>5. \A a \in Accounts : Load(leases', a) <= MaxTabs[a]
    <3> TAKE a \in Accounts
    <3>1. Load(leases', a) <= Load(leases, a) /\ Load(leases, a) <= MaxTabs[a]
      BY <2>1, LoadIsMonotonic DEF LeaseInv, LeasedWithinLimit
    <3>2. Load(leases', a) \in Nat /\ Load(leases, a) \in Nat /\ MaxTabs[a] \in Nat
      BY <2>3, LoadIsNatural, LeasesAssumption DEF LeaseInv
    <3> QED
      BY <3>1, <3>2
  <2> QED
    BY <2>3, <2>4, <2>5 DEF LeaseInv, LeasedWithinLimit
<1> QED
  BY <1>1, <1>2, <1>3, <1>4, <1>5 DEF OthersStep

LEMMA AgentKeepsLeases ==
  ASSUME LeaseInv, AgentStep
  PROVE  LeaseInv'
<1>1. CASE Acquire
  <2>1. PICK answer \in {"leased", "busy", "refused"} : TryAcquire(Run, requested, TotalTabs, answer)
    BY <1>1 DEF Acquire
  <2>2. Run \in Holders /\ TotalTabs \in Nat
    BY AgentAssumption, ArchiveAssumption
  <2> QED
    BY <2>1, <2>2, AcquisitionKeepsLeases
<1>2. CASE BackendFails \/ CollectionFails \/ ReturnSummary
  BY <1>2, ReturningKeepsLeases DEF BackendFails, CollectionFails, ReturnSummary
<1>3. CASE \/ \E ids \in SUBSET Accounts : Submit(ids)
           \/ BackendStarts \/ CollectEvent \/ EventsLag \/ AgentDeadline \/ TakeSummary
  BY <1>3, FewerLeases DEF Submit, BackendStarts, CollectEvent, EventsLag, AgentDeadline, TakeSummary,
     leaseVars
<1>4. CASE ProcessDies
  BY <1>4, FewerLeases DEF ProcessDies, HolderDies
<1> QED
  BY <1>1, <1>2, <1>3, <1>4 DEF AgentStep

LEMMA LeaseInvariant == Spec => []LeaseInv
<1>1. Init => LeaseInv
  <2> SUFFICES ASSUME Init PROVE LeaseInv
    OBVIOUS
  <2>1. leases = {} /\ claimed = {}
    BY DEF Init, LeasesInit
  <2>2. IsFiniteSet(leases) /\ leases \subseteq Records
    BY <2>1, FS_EmptySet
  <2>3. ASSUME NEW a \in Accounts
        PROVE  Load(leases, a) <= MaxTabs[a]
    <3>1. Leased(leases, a) = {}
      BY <2>1 DEF Leased
    <3>2. Load(leases, a) = 0
      BY <3>1, FS_EmptySet DEF Load
    <3>3. MaxTabs[a] \in Nat
      BY LeasesAssumption
    <3> QED
      BY <3>2, <3>3
  <2> QED
    BY <2>1, <2>2, <2>3 DEF LeaseInv, LeasedWithinLimit, ClaimedIsNotLeased
<1>2. LeaseInv /\ [Next]_vars => LeaseInv'
  <2> SUFFICES ASSUME LeaseInv, [Next]_vars PROVE LeaseInv'
    OBVIOUS
  <2>1. CASE AgentStep
    BY <2>1, AgentKeepsLeases
  <2>2. CASE OthersStep
    BY <2>2, OthersKeepLeases
  <2>3. CASE UNCHANGED leaseVars
    BY <2>3, FewerLeases DEF leaseVars
  <2> QED
    BY <2>1, <2>2, <2>3 DEF Next, vars
<1> QED
  BY <1>1, <1>2, PTL DEF Spec

\* No account has more tabs on lease than its limit, for any accounts, limits, holders
\* and numbers of tabs: an allocation counts what is leased under the lock it writes the
\* records under, and gives tabs only to accounts that are not full.
THEOREM LimitsKept == Spec => []LeasedWithinLimit
<1>1. LeaseInv => LeasedWithinLimit
  BY DEF LeaseInv
<1> QED
  BY <1>1, LeaseInvariant, PTL

\* A profile the workflow owns is never on lease to an archive run, however claims and
\* acquisitions of any processes interleave.
THEOREM ClaimsExclusive == Spec => []ClaimedIsNotLeased
<1>1. LeaseInv => ClaimedIsNotLeased
  BY DEF LeaseInv
<1> QED
  BY <1>1, LeaseInvariant, PTL
=============================================================================
