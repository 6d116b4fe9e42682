--------------------------- MODULE Bootstrap_proofs ---------------------------
(***************************************************************************)
(* A wrapper that has the plugin directory to itself fails closed, and     *)
(* never takes a complete binary away: for any number of wrappers and any  *)
(* policy files.  What overlapping wrappers do instead is shown by runs.   *)
(***************************************************************************)
EXTENDS Bootstrap, TLAPS

Writing == {"extracting", "building"}

\* Alone, the running wrapper owns the binary: it is partial only while that
\* wrapper writes it, and complete when it is about to be executed.
Alone ==
  ~hist.overlap =>
    /\ \A g, h \in Hooks : Running(g) /\ Running(h) => g = h
    /\ \A h \in Hooks : pc[h] \in Writing => writer = h /\ binary = "partial"
    /\ \A h \in Hooks : pc[h] \in {"download", "extract"} => binary # "complete"
    /\ \A h \in Hooks : pc[h] = "build" => binary # "complete"

Intact ==
  ~hist.overlap /\ ~hist.cut =>
    /\ binary = "partial" => writer \in Hooks /\ pc[writer] \in Writing
    /\ \A h \in Hooks : pc[h] \in {"exec", "recheck", "lastCheck"} /\ script[h] = "sh" =>
         binary = "complete"

\* How a wrapper of run.sh may have ended.
WellEnded ==
  \A h \in Hooks :
    /\ Ended(h) /\ script[h] = "sh" =>
         \/ outcome[h] = "gatekeeper"
         \/ outcome[h] = "blocked" /\ exit[h] = 2
         \/ outcome[h] = "abstained" /\ AskedToAbstain(h)
         \/ outcome[h] = "broken" /\ (hist.overlap \/ hist.cut)

BootstrapInv == TypeOK /\ Alone /\ Intact /\ WellEnded

\* No wrapper has started, and nobody writes.
LEMMA BootstrapInit == Init => BootstrapInv
<1> SUFFICES ASSUME Init PROVE BootstrapInv
  OBVIOUS
<1>1. TypeOK
  BY ConfigsAssumption, ScriptsAssumption DEF Init, TypeOK, PC
<1>2. Alone /\ Intact /\ WellEnded
  BY HooksAssumption DEF Init, Alone, Intact, WellEnded, Running, Writing, Ended
<1> QED BY <1>1, <1>2 DEF BootstrapInv

\* The shapes, and the tie between writer and binary.
LEMMA TypeStep ==
  ASSUME TypeOK, [Next]_vars PROVE TypeOK'
<1> USE DEF TypeOK, PC, Unchanged
<1>1. ASSUME NEW h \in Hooks, Step(h) \/ Killed(h) PROVE TypeOK'
  <2>1. CASE Start(h)
    BY <2>1 DEF Start, Goto, Running
  <2>2. CASE CheckBinary(h) \/ Recheck(h) \/ LastCheck(h)
    BY <2>2 DEF CheckBinary, Recheck, LastCheck, Goto
  <2>3. CASE Exec(h)
    BY <2>3 DEF Exec, Goto, End, BrokenExit
  <2>11. CASE TryExec(h)
    BY <2>11 DEF TryExec, Goto, End
  <2>4. CASE Download(h)
    BY <2>4 DEF Download, Goto
  <2>5. CASE Extract(h)
    BY <2>5, HooksAssumption DEF Extract, Goto, OpenBinary
  <2>6. CASE Extracted(h)
    <3>1. CASE Goto(h, "extracting", "recheck") /\ CompleteBinary(h) /\ UNCHANGED hist
      BY <2>6, <3>1 DEF Extracted, Goto, CompleteBinary
    <3>2. CASE Goto(h, "extracting", "build") /\ AbandonBinary(h)
      BY <2>6, <3>2 DEF Extracted, Goto, AbandonBinary
    <3> QED BY <2>6, <3>1, <3>2 DEF Extracted
  <2>7. CASE Build(h)
    BY <2>7, HooksAssumption DEF Build, Goto, OpenBinary
  <2>8. CASE Built(h)
    <3>1. CASE Goto(h, "building", "lastCheck") /\ CompleteBinary(h) /\ UNCHANGED hist
      BY <2>8, <3>1 DEF Built, Goto, CompleteBinary
    <3>2. CASE Goto(h, "building", IF script[h] = "sh" THEN "failure" ELSE "exec") /\ AbandonBinary(h)
      BY <2>8, <3>2 DEF Built, Goto, AbandonBinary
    <3> QED BY <2>8, <3>1, <3>2 DEF Built
  <2>9. CASE Failure(h)
    BY <2>9 DEF Failure, Goto, End
  <2>10. CASE Killed(h)
    BY <2>10 DEF Killed, Running, AbandonBinary
  <2> QED BY <1>1, <2>1, <2>2, <2>3, <2>4, <2>5, <2>6, <2>7, <2>8, <2>9, <2>10, <2>11 DEF Step
<1>2. CASE UNCHANGED vars
  BY <1>2 DEF vars
<1> QED BY <1>1, <1>2 DEF Next

\* What starting does to the history.
LEMMA StartHist ==
  ASSUME TypeOK, NEW h \in Hooks, Start(h)
  PROVE  /\ hist'.cut = hist.cut
         /\ hist'.overlap = (hist.overlap \/ \E g \in Hooks \ {h} : Running(g))
<1> DEFINE Met == \E g \in Hooks \ {h} : Running(g)
<1>1. hist' = [hist EXCEPT !.overlap = @ \/ Met]
  BY DEF Start
<1> HIDE DEF Met
<1>2. hist'.cut = hist.cut /\ hist'.overlap = (hist.overlap \/ Met)
  BY <1>1 DEF TypeOK
<1> QED BY <1>2 DEF Met

\* A wrapper that meets another one ends the promise; alone it owns the binary.
LEMMA AloneStep ==
  ASSUME TypeOK, Alone, TypeOK', [Next]_vars PROVE Alone'
<1> USE DEF TypeOK, Alone, Running, Writing, PC
<1>1. ASSUME NEW h \in Hooks, Step(h) \/ Killed(h) PROVE Alone'
  <2>1. CASE Start(h)
    <3> SUFFICES ASSUME ~hist'.overlap PROVE Alone'
      OBVIOUS
    <3>1. ~hist.overlap /\ \A g \in Hooks \ {h} : ~Running(g)
      BY <2>1, StartHist
    <3> QED BY <2>1, <3>1 DEF Start, Goto
  <2>2. CASE CheckBinary(h) \/ Recheck(h) \/ LastCheck(h)
    BY <2>2 DEF CheckBinary, Recheck, LastCheck, Goto
  <2>3. CASE Exec(h) \/ TryExec(h) \/ Download(h) \/ Failure(h)
    BY <2>3 DEF Exec, TryExec, Download, Failure, Goto
  <2>4. CASE Extract(h)
    BY <2>4 DEF Extract, Goto, OpenBinary
  <2>5. CASE Extracted(h)
    BY <2>5 DEF Extracted, Goto, CompleteBinary, AbandonBinary
  <2>6. CASE Build(h)
    BY <2>6 DEF Build, Goto, OpenBinary
  <2>7. CASE Built(h)
    BY <2>7 DEF Built, Goto, CompleteBinary, AbandonBinary
  <2>8. CASE Killed(h)
    BY <2>8 DEF Killed, AbandonBinary
  <2> QED BY <1>1, <2>1, <2>2, <2>3, <2>4, <2>5, <2>6, <2>7, <2>8 DEF Step
<1>2. CASE UNCHANGED vars
  BY <1>2 DEF vars
<1> QED BY <1>1, <1>2 DEF Next

\* Alone and never cut short, what is executed is complete.
LEMMA IntactStep ==
  ASSUME TypeOK, Alone, Intact, TypeOK', [Next]_vars PROVE Intact'
<1> USE DEF TypeOK, Alone, Intact, Running, Writing, PC, Unchanged
<1>1. ASSUME NEW h \in Hooks, Step(h) \/ Killed(h) PROVE Intact'
  <2>1. CASE Start(h)
    BY <2>1, StartHist DEF Start, Goto
  <2>2. CASE CheckBinary(h)
    BY <2>2 DEF CheckBinary, Goto
  <2>3. CASE Recheck(h) \/ LastCheck(h)
    BY <2>3 DEF Recheck, LastCheck, Goto
  <2>4. CASE Exec(h) \/ TryExec(h) \/ Download(h) \/ Failure(h)
    BY <2>4 DEF Exec, TryExec, Download, Failure, Goto
  <2>5. CASE Extract(h)
    BY <2>5 DEF Extract, Goto, OpenBinary
  <2>6. CASE Extracted(h)
    BY <2>6 DEF Extracted, Goto, CompleteBinary, AbandonBinary
  <2>7. CASE Build(h)
    BY <2>7 DEF Build, Goto, OpenBinary
  <2>8. CASE Built(h)
    BY <2>8 DEF Built, Goto, CompleteBinary, AbandonBinary
  <2>9. CASE Killed(h)
    BY <2>9 DEF Killed, AbandonBinary
  <2> QED BY <1>1, <2>1, <2>2, <2>3, <2>4, <2>5, <2>6, <2>7, <2>8, <2>9 DEF Step
<1>2. CASE UNCHANGED vars
  BY <1>2 DEF vars
<1> QED BY <1>1, <1>2 DEF Next

\* A posture of abstain was put there by one of the two files that speak.
LEMMA PostureNeedsAWord ==
  BootstrapPosture = "abstain" =>
    "abstain" \in {FirstOf(config["xdg"], config["legacy"]),
                  FirstOf(config["project"], config["claude"])}
BY DEF BootstrapPosture, Apply

\* The history of races only ever grows.
LEMMA HistGrows ==
  ASSUME TypeOK, [Next]_vars
  PROVE  (hist.overlap => hist'.overlap) /\ (hist.cut => hist'.cut)
<1>1. ASSUME NEW h \in Hooks, Start(h) PROVE (hist.overlap => hist'.overlap) /\ (hist.cut => hist'.cut)
  BY <1>1, StartHist
<1>2. ASSUME NEW h \in Hooks, (Step(h) /\ ~Start(h)) \/ Killed(h)
      PROVE  (hist.overlap => hist'.overlap) /\ (hist.cut => hist'.cut)
  BY <1>2 DEF TypeOK, Step, CheckBinary, Exec, TryExec, Download, Extract, Extracted, Recheck,
              Build, Built, LastCheck, Failure, Killed, AbandonBinary
<1> QED BY <1>1, <1>2 DEF Next, vars

\* A wrapper that has ended stays so, and ends well unless it met another one.
LEMMA WellEndedStep ==
  ASSUME BootstrapInv, TypeOK', [Next]_vars PROVE WellEnded'
<1> USE DEF BootstrapInv, TypeOK, WellEnded, Ended, AskedToAbstain, Unchanged
<1>1. ASSUME NEW h \in Hooks, Step(h) \/ Killed(h) PROVE WellEnded'
  <2>1. CASE Exec(h) \/ TryExec(h)
    BY <2>1, HistGrows DEF Exec, TryExec, Goto, End, Intact
  <2>2. CASE Failure(h)
    BY <2>2, PostureNeedsAWord DEF Failure, Goto, End
  <2>3. CASE Start(h)
    BY <2>3, StartHist DEF Start, Goto
  <2>4. CASE CheckBinary(h) \/ Recheck(h) \/ LastCheck(h) \/ Download(h)
    BY <2>4 DEF CheckBinary, Recheck, LastCheck, Download, Goto
  <2>5. CASE Extract(h) \/ Build(h)
    BY <2>5 DEF Extract, Build, Goto
  <2>6. CASE Extracted(h) \/ Built(h)
    BY <2>6 DEF Extracted, Built, Goto, CompleteBinary, AbandonBinary
  <2>7. CASE Killed(h)
    BY <2>7 DEF Killed, Running, AbandonBinary
  <2> QED BY <1>1, <2>1, <2>2, <2>3, <2>4, <2>5, <2>6, <2>7 DEF Step
<1>2. CASE UNCHANGED vars
  BY <1>2 DEF vars
<1> QED BY <1>1, <1>2 DEF Next

\* BootstrapInv is inductive.
LEMMA BootstrapInvariant == Spec => []BootstrapInv
<1>1. BootstrapInv /\ [Next]_vars => BootstrapInv'
  BY TypeStep, AloneStep, IntactStep, WellEndedStep DEF BootstrapInv
<1> QED BY BootstrapInit, <1>1, PTL DEF Spec

\* run.sh, alone and not cut short: the gatekeeper decides the call, or it is
\* blocked, or the user asked for availability in so many words.
THEOREM FailsClosedWhenAloneHolds == Spec => []FailsClosedWhenAlone
<1>1. BootstrapInv => FailsClosedWhenAlone
  BY DEF BootstrapInv, WellEnded, FailsClosedWhenAlone, Unprotected, Ended
<1> QED BY BootstrapInvariant, <1>1, PTL

\* Without overlap no step takes a complete binary away.
THEOREM CompleteBinaryStaysHolds == Spec => CompleteBinaryStays
<1>1. BootstrapInv /\ [Next]_vars => (binary = "complete" /\ ~hist.overlap => binary' = "complete")
  <2> SUFFICES ASSUME BootstrapInv, Next, binary = "complete", ~hist.overlap
               PROVE  binary' = "complete"
    BY DEF vars
  <2>1. PICK h \in Hooks : Step(h) \/ Killed(h)
    BY DEF Next
  <2> QED
    BY <2>1 DEF BootstrapInv, Alone, TypeOK, Step, Start, CheckBinary, Exec, TryExec, Download, Extract,
                Extracted, Recheck, Build, Built, LastCheck, Failure, Killed, Goto,
                OpenBinary, CompleteBinary, AbandonBinary
<1> QED BY BootstrapInvariant, <1>1, PTL DEF Spec, CompleteBinaryStays

-----------------------------------------------------------------------------
(* Giving up silently *)

\* The words that let a wrapper of run.sh give up without a block.
Word ==
  LET global  == FirstOf(config["xdg"], config["legacy"])
      project == FirstOf(config["project"], config["claude"])
  IN  project = "abstain" \/ (global = "abstain" /\ project \notin {"deny", "unreadable"})

\* apply_posture_file, file after file, keeps the last word.
LEMMA PostureIsTheLastWord == BootstrapPosture = "abstain" => Word
BY DEF BootstrapPosture, Apply, Word

\* Only Failure abstains, and the posture files and the escape never change.
LEMMA AbstainStep ==
  ASSUME TypeOK, AbstainNeedsAWord, [Next]_vars
  PROVE  AbstainNeedsAWord'
<1> USE DEF TypeOK, Unchanged
<1>1. (\A h \in Hooks : outcome[h] = "abstained" /\ ~escape[h] => Word) <=> AbstainNeedsAWord
  BY DEF AbstainNeedsAWord, Word
<1>2. (UNCHANGED <<outcome, escape, config>>) => AbstainNeedsAWord'
  BY DEF AbstainNeedsAWord
<1>3. ASSUME NEW h \in Hooks, Step(h) \/ Killed(h) PROVE AbstainNeedsAWord'
  <2>1. UNCHANGED <<escape, config>>
    BY <1>3 DEF Step, Start, CheckBinary, Exec, TryExec, Download, Extract, Extracted, Recheck, Build, Built,
                LastCheck, Failure, Killed, Goto, Running
  <2>2. CASE Exec(h) \/ TryExec(h)
    <3>1. outcome' = outcome \/ outcome' = [outcome EXCEPT ![h] = "gatekeeper"] \/ outcome' = [outcome EXCEPT ![h] = "broken"]
      BY <2>2 DEF Exec, TryExec, End
    <3> QED BY <2>1, <3>1 DEF AbstainNeedsAWord
  <2>3. CASE Failure(h)
    <3>1. \/ \E how \in {"gaveUp", "blocked"} : outcome' = [outcome EXCEPT ![h] = how]
          \/ (escape[h] \/ Word) /\ outcome' = [outcome EXCEPT ![h] = "abstained"]
      BY <2>3, PostureIsTheLastWord DEF Failure, End
    <3> QED BY <1>1, <2>1, <3>1 DEF AbstainNeedsAWord, Word
  <2>4. CASE ~Exec(h) /\ ~TryExec(h) /\ ~Failure(h)
    <3>1. outcome' = outcome
      BY <1>3, <2>4 DEF Step, Start, CheckBinary, Download, Extract, Extracted, Recheck, Build, Built,
                        LastCheck, Killed
    <3> QED BY <1>2, <2>1, <3>1
  <2> QED BY <2>2, <2>3, <2>4
<1>4. CASE UNCHANGED vars
  BY <1>2, <1>4 DEF vars
<1> QED BY <1>3, <1>4 DEF Next

\* run.sh gives up silently only on an explicit word that nothing overrules,
\* whatever wrappers run at once and however often they are killed.
THEOREM AbstainNeedsAWordHolds == Spec => []AbstainNeedsAWord
<1>1. Init => AbstainNeedsAWord
  BY DEF Init, AbstainNeedsAWord
<1>2. BootstrapInv /\ AbstainNeedsAWord /\ [Next]_vars => AbstainNeedsAWord'
  BY AbstainStep DEF BootstrapInv
<1> QED BY <1>1, <1>2, BootstrapInvariant, PTL DEF Spec

\* Only a wrapper that extracts or builds writes the binary, and what is being
\* written is not complete.
THEOREM TypeCorrect == Spec => []TypeOK
<1>1. BootstrapInv => TypeOK
  BY DEF BootstrapInv
<1> QED BY <1>1, BootstrapInvariant, PTL
=============================================================================
