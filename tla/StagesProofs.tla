---------------------------- MODULE StagesProofs ----------------------------
(***************************************************************************)
(* The stages that run a tool, the certificate-transparency stage, and the *)
(* sweeps over hosts and over lists of candidates: for any tools,          *)
(* providers, names, lists, bounds and budgets, and any number of attempts *)
(* and cancellations.                                                      *)
(***************************************************************************)
EXTENDS Stages, BoundsProofs

(***************************************************************************)
(* A tool's stage: where run() stands, what the process group can be then, *)
(* and why it got a signal.                                                *)
(***************************************************************************)
Standing ==
  /\ phase = "running" => at \in {"starting", "waiting", "stopping", "reading"}
  /\ phase = "unwinding" => at \in {"killing", "over"}
  /\ Ended => at = "over"

Group ==
  /\ at = "starting" => process \in {"none", "exited"}
  /\ at \in {"stopping", "killing"} => process # "alive"
  /\ at = "reading" => process = "exited"
  /\ at = "over" /\ ~abandoned => process \in {"none", "exited"}
  /\ abandoned => at = "over" /\ process # "alive"

Blamed == signalled => timedOut \/ limited \/ at \in {"killing", "over"}

\* The record of a run is its last word: nothing can change what it is about.
Reported ==
  report # {} =>
    /\ phase = "returned" /\ process = "exited" /\ reader = "done"
    /\ \A r \in report : r.kind = "adapter_execution" /\ run = "main" /\ signalled =>
                         r.timed_out \/ r.output_limited

ToolInv == IsTool => Standing /\ Group /\ Blamed /\ Reported

LEMMA ToolInit0 == Init => ToolInv
<1> SUFFICES ASSUME Init, IsTool PROVE Standing /\ Group /\ Blamed /\ Reported
  BY DEF ToolInv
<1>1. PICK name : AttemptInit(name)
  BY DEF Init
<1> QED BY <1>1 DEF Init, AttemptInit, ToolInit, Standing, Group, Blamed, Reported, Ended

\* What the other stages do is not a step of a tool's.
LEMMA OthersAreNotTools ==
  ASSUME IsTool
  PROVE  /\ LookupNext => FALSE
         /\ CTNext => FALSE
         /\ HostNext => FALSE
         /\ PathNext => FALSE
<1>1. plugin \notin {DNS, Extraction, CT, DiscoveredDNS, DiscoveredHTTP, Directory, Vhost, Bundles}
  BY StagesAssumption DEF IsTool
<1>2. ~IsLookup /\ plugin # DNS /\ ~IsCT /\ ~IsHostSweep /\ ~IsPathSweep
  BY <1>1 DEF IsLookup, IsCT, IsHostSweep, IsPathSweep
<1>3. LookupNext => FALSE
  BY <1>2 DEF LookupNext, LookupAnswers, LookupFails, LookupRaises, CancelLookup, UnwindLookup, RetryLookup
<1>4. CTNext => FALSE
  BY <1>2 DEF CTNext, NextPage, Answer, Fail, Asking, CancelProvider, CTGathered, CTRaises, CancelCT,
              UnwindCT, RetryCT
<1>5. HostNext => FALSE
  <2>1. \A n : ~HostStart(n) /\ ~UnwindHost(n)
    BY <1>2 DEF HostStart, UnwindHost
  <2>2. \A n : ~LookedUp(n) /\ ~OriginSettles(n) /\ ~Probed(n)
    BY <1>1 DEF LookedUp, OriginSettles, Probed
  <2>3. ~HostsDone /\ ~CancelHosts /\ ~UnwindHosts
    BY <1>2 DEF HostsDone, CancelHosts, UnwindHosts
  <2> QED BY <2>1, <2>2, <2>3 DEF HostNext
<1>6. PathNext => FALSE
  BY <1>1, <1>2 DEF PathNext, Load, Baseline, ProviderRaises, Decide, Paused, Candidated, Slept, LoopEnds,
                    PathDone, CancelPath, UnwindPath, RetryPath, Works
<1> QED BY <1>3, <1>4, <1>5, <1>6

LEMMA ToolStep ==
  ASSUME IsTool, ToolInv, ToolNext
  PROVE  ToolInv'
<1> DEFINE I == Standing /\ Group /\ Blamed /\ Reported
<1>0. I
  BY DEF ToolInv
<1>1. CASE Launch
  BY <1>0, <1>1 DEF Launch, attemptVars, Standing, Group, Blamed, Reported, Ended, ToolInv
<1>2. CASE LaunchFails
  BY <1>0, <1>2 DEF LaunchFails, Goes, Standing, Group, Blamed, Reported, Ended, ToolInv
<1>3. CASE ToolExits
  BY <1>0, <1>3 DEF ToolExits, attemptVars, Standing, Group, Blamed, Reported, Ended, ToolInv
<1>4. CASE OutputLimit
  BY <1>0, <1>4 DEF OutputLimit, Terminated, attemptVars, Standing, Group, Blamed, Reported, Ended, ToolInv
<1>5. CASE ReaderKills
  BY <1>0, <1>5 DEF ReaderKills, Kill, attemptVars, Standing, Group, Blamed, Reported, Ended, ToolInv
<1>6. CASE ReaderGoesOn \/ ReaderDone
  BY <1>0, <1>6 DEF ReaderGoesOn, ReaderDone, attemptVars, Standing, Group, Blamed, Reported, Ended, ToolInv
<1>7. CASE Waited \/ Stopped
  BY <1>0, <1>7 DEF Waited, Stopped, attemptVars, Standing, Group, Blamed, Reported, Ended, ToolInv
<1>8. CASE ToolDeadline
  BY <1>0, <1>8 DEF ToolDeadline, Terminated, attemptVars, Standing, Group, Blamed, Reported, Ended, ToolInv
<1>9. CASE StopKills
  BY <1>0, <1>9 DEF StopKills, Kill, attemptVars, Standing, Group, Blamed, Reported, Ended, ToolInv
<1>10. CASE Read
  <2>0. /\ at = "reading" /\ reader = "done" /\ phase = "running" /\ report = {} /\ process = "exited"
        /\ process' = process /\ reader' = reader /\ limited' = limited /\ timedOut' = timedOut
        /\ signalled' = signalled /\ abandoned' = abandoned
    BY <1>0, <1>10 DEF Read, Reported, Group
  <2>1. CASE run' = "main" /\ at' = "starting" /\ phase' = phase /\ report' = report
    BY <1>0, <2>0, <2>1 DEF Standing, Group, Blamed, Reported, Ended, ToolInv
  <2>2. CASE (run = "main" \/ timedOut) /\ phase' = "returned" /\ at' = "over" /\ run' = run
             /\ \E failed \in BOOLEAN : report' = {Execution} \cup Parsed(failed)
    <3>1. Standing' /\ Group' /\ Blamed'
      BY <1>0, <2>0, <2>2 DEF Standing, Group, Blamed, Ended
    <3>2. \A r \in report' : r = Execution \/ r.kind = "parsed"
      BY <2>2 DEF Parsed
    <3>3. signalled => timedOut \/ limited
      BY <1>0, <2>0 DEF Blamed
    <3>4. /\ timedOut => Execution.timed_out
          /\ limited /\ run = "main" => Execution.output_limited
      BY DEF Execution
    <3>5. \A r \in report' : r.kind = "adapter_execution" /\ run' = "main" /\ signalled' =>
                               r.timed_out \/ r.output_limited
      BY <2>0, <2>2, <3>2, <3>3, <3>4
    <3>6. Reported'
      BY <2>0, <2>2, <3>5 DEF Reported
    <3> QED BY <3>1, <3>6 DEF ToolInv
  <2> QED BY <1>10, <2>1, <2>2 DEF Read, Goes, attemptVars
<1>11. CASE CancelTool
  BY <1>0, <1>11 DEF CancelTool, Cancelled, Terminated, Running, Standing, Group, Blamed, Reported, Ended, ToolInv
<1>12. CASE UnwindTool
  BY <1>0, <1>12 DEF UnwindTool, Goes, Standing, Group, Blamed, Reported, Ended, ToolInv
<1>13. CASE RetryTool
  BY <1>0, <1>13 DEF RetryTool, NextAttempt, Standing, Group, Blamed, Reported, Ended, ToolInv
<1> QED BY <1>1, <1>2, <1>3, <1>4, <1>5, <1>6, <1>7, <1>8, <1>9, <1>10, <1>11, <1>12, <1>13 DEF ToolNext

\* A stage keeps its plugin.
LEMMA PluginStays == [Next]_vars => plugin' = plugin
<1> SUFFICES ASSUME [Next]_vars PROVE plugin' = plugin
  OBVIOUS
<1>1. LookupNext => plugin' = plugin
  BY DEF LookupNext, LookupAnswers, LookupFails, LookupRaises, CancelLookup, UnwindLookup, RetryLookup,
         Goes, Cancelled, NextAttempt
<1>2. ToolNext => plugin' = plugin
  BY DEF ToolNext, Launch, LaunchFails, ToolExits, OutputLimit, ReaderKills, ReaderGoesOn, ReaderDone,
         Waited, ToolDeadline, StopKills, Stopped, Read, CancelTool, UnwindTool, RetryTool,
         Goes, Cancelled, NextAttempt, attemptVars
<1>3. CTNext => plugin' = plugin
  BY DEF CTNext, NextPage, Answer, Fail, CancelProvider, CTGathered, CTRaises, CancelCT, UnwindCT, RetryCT,
         Conclude, Goes, Cancelled, NextAttempt, attemptVars
<1>4. HostNext => plugin' = plugin
  BY DEF HostNext, HostStart, LookedUp, OriginSettles, Probed, UnwindHost, HostsDone, CancelHosts, UnwindHosts,
         Goes, Cancelled, attemptVars
<1>5. PathNext => plugin' = plugin
  BY DEF PathNext, Load, Baseline, ProviderRaises, Decide, Paused, Candidated, Slept, LoopEnds,
         PathDone, CancelPath, UnwindPath, RetryPath, Skipped, Moves, Goes, Cancelled, NextAttempt, attemptVars
<1> QED BY <1>1, <1>2, <1>3, <1>4, <1>5 DEF Next, vars, attemptVars

LEMMA ToolNextInv ==
  ASSUME ToolInv, [Next]_vars PROVE ToolInv'
<1>1. CASE IsTool
  <2>1. ToolNext \/ UNCHANGED vars
    BY <1>1, OthersAreNotTools DEF Next
  <2>2. CASE UNCHANGED vars
    BY <1>1, <2>2 DEF vars, attemptVars, toolVars, ToolInv, Standing, Group, Blamed, Reported, Ended
  <2> QED BY <1>1, <2>1, <2>2, ToolStep
<1>2. CASE ~IsTool
  BY <1>2, PluginStays DEF ToolInv, IsTool
<1> QED BY <1>1, <1>2

(***************************************************************************)
(* Whoever stops a tool first -- its deadline, the output limit or the     *)
(* scheduler -- when the stage has ended none runs on unless a             *)
(* cancellation met it while it was being stopped, and a tool that was     *)
(* stopped while it ran is reported so (runner.py 74-84, 101-114, 161-173, *)
(* plugin.py 60-74).                                                       *)
(***************************************************************************)
THEOREM ToolsAreStopped == Spec => []ToolStopped
<1>1. ToolInv => ToolStopped
  BY DEF ToolInv, ToolStopped, Standing, Group, Reported, Ended
<1> QED BY <1>1, ToolInit0, ToolNextInv, PTL DEF Spec
-----------------------------------------------------------------------------
(***************************************************************************)
(* The certificate-transparency stage: what its plugin object remembers of *)
(* the answers that were final, from one attempt to the next.              *)
(***************************************************************************)
Active == phase \in {"running", "unwinding"}

\* The attempt's only cancellation has been let through.
LetThrough == phase = "cancelled" /\ cuts < 2

Final(p) == provider[p] \in {"success", "limited", "refused"}

Counted == (phase = "running" => cuts = 0) /\ (phase = "unwinding" => cuts = 1)

Domains ==
  /\ DOMAIN provider = Providers /\ DOMAIN got = Providers /\ DOMAIN cached = Providers
  /\ DOMAIN delivered = Providers /\ DOMAIN final = Providers

\* Every final answer is in the memory, or is about to be.
Held(p) ==
  /\ Active => (provider[p] = "preserved" <=> cached[p] # Nothing)
  /\ Active /\ Final(p) => delivered[p] \subseteq cached[p].names \cup got[p]
  /\ Active /\ ~Final(p) => delivered[p] \subseteq cached[p].names
  /\ phase = "returned" \/ LetThrough => delivered[p] \subseteq cached[p].names
  /\ LetThrough => cached[p] = Nothing

\* How the provider answered, and that it need not be asked again.
Answers(p) ==
  /\ final[p] = "names" => delivered[p] # {}
  /\ phase = "returned" /\ provider[p] \in ForGood /\ final[p] # "none" => cached[p] # Nothing
  /\ phase = "running" /\ provider[p] = "asking" /\ final[p] # "none" => Preserved = {}

Told(p) ==
  phase = "returned" =>
    \A n \in delivered[p] :
      \E r \in result : r.kind = "subdomain_found" /\ n \in r.names /\ p \in r.sources

Memory(p) == Held(p) /\ Answers(p) /\ Told(p)

CTInv == IsCT => Counted /\ Domains /\ \A p \in Providers : Memory(p)

LEMMA InitCT == Init => CTInv
<1> SUFFICES ASSUME Init, IsCT PROVE Counted /\ Domains /\ \A p \in Providers : Memory(p)
  BY DEF CTInv
<1>1. phase = "running" /\ cuts = 0
  BY DEF Init, AttemptInit
<1>2. Counted /\ Domains
  BY <1>1 DEF Init, CTInit, Counted, Domains
<1>3. ASSUME NEW p \in Providers PROVE Memory(p)
  BY <1>1, <1>3 DEF Init, CTInit, Memory, Held, Answers, Told, Active, LetThrough, Final, Nothing
<1> QED BY <1>2, <1>3

LEMMA OthersAreNotCT ==
  ASSUME IsCT
  PROVE  /\ LookupNext => FALSE
         /\ ToolNext => FALSE
         /\ HostNext => FALSE
         /\ PathNext => FALSE
<1>1. plugin \notin Tools \cup {DNS, Extraction, DiscoveredDNS, DiscoveredHTTP, Directory, Vhost, Bundles}
  BY StagesAssumption DEF IsCT
<1>2. ~IsLookup /\ plugin # DNS /\ ~IsTool /\ ~IsHostSweep /\ ~IsPathSweep
  BY <1>1 DEF IsLookup, IsTool, IsHostSweep, IsPathSweep
<1>3. LookupNext => FALSE
  BY <1>2 DEF LookupNext, LookupAnswers, LookupFails, LookupRaises, CancelLookup, UnwindLookup, RetryLookup
<1>4. ToolNext => FALSE
  BY <1>2 DEF ToolNext, Launch, LaunchFails, ToolExits, OutputLimit, ReaderKills, ReaderGoesOn, ReaderDone,
         Waited, ToolDeadline, StopKills, Stopped, Read, CancelTool, UnwindTool, RetryTool
<1>5. HostNext => FALSE
  <2>1. \A n : ~HostStart(n) /\ ~UnwindHost(n)
    BY <1>2 DEF HostStart, UnwindHost
  <2>2. \A n : ~LookedUp(n) /\ ~OriginSettles(n) /\ ~Probed(n)
    BY <1>1 DEF LookedUp, OriginSettles, Probed
  <2>3. ~HostsDone /\ ~CancelHosts /\ ~UnwindHosts
    BY <1>2 DEF HostsDone, CancelHosts, UnwindHosts
  <2> QED BY <2>1, <2>2, <2>3 DEF HostNext
<1>6. PathNext => FALSE
  BY <1>1, <1>2 DEF PathNext, Load, Baseline, ProviderRaises, Decide, Paused, Candidated, Slept, LoopEnds,
                    PathDone, CancelPath, UnwindPath, RetryPath, Works
<1> QED BY <1>3, <1>4, <1>5, <1>6

\* One provider answers, fails or is cancelled.
LEMMA ProviderMoves ==
  ASSUME CTInv, IsCT, NEW q \in Providers, provider[q] = "asking",
         attemptVars' = attemptVars, cached' = cached, result' = result, Domains',
         provider'[q] # "preserved",
         \A p \in Providers \ {q} :
           /\ provider'[p] = provider[p] /\ got'[p] = got[p]
           /\ delivered'[p] = delivered[p] /\ final'[p] = final[p],
         Memory(q)'
  PROVE  CTInv'
<1>1. phase' = phase /\ cuts' = cuts /\ plugin' = plugin
  BY DEF attemptVars
<1>2. Preserved' = Preserved
  BY DEF Preserved
<1>3. ASSUME NEW p \in Providers, p # q PROVE Memory(p)'
  <2>1. Memory(p)
    BY DEF CTInv
  <2>2. /\ provider'[p] = provider[p] /\ got'[p] = got[p]
        /\ delivered'[p] = delivered[p] /\ final'[p] = final[p]
    BY <1>3
  <2>3. Held(p)'
    BY <1>1, <2>1, <2>2 DEF Memory, Held, Active, LetThrough, Final
  <2>4. Answers(p)'
    BY <1>1, <1>2, <2>1, <2>2 DEF Memory, Answers
  <2>5. Told(p)'
    BY <1>1, <2>1, <2>2 DEF Memory, Told
  <2> QED BY <2>3, <2>4, <2>5 DEF Memory
<1>4. Counted'
  BY <1>1 DEF CTInv, Counted
<1> QED BY <1>3, <1>4 DEF CTInv

LEMMA NextPageStep ==
  ASSUME CTInv, NEW q \in Providers, NEW more, NextPage(q, more) PROVE CTInv'
<1>1. /\ IsCT /\ phase = "running" /\ provider[q] = "asking"
      /\ attemptVars' = attemptVars /\ phase' = phase /\ cuts' = cuts
      /\ got' = [got EXCEPT ![q] = @ \cup more]
      /\ provider' = provider /\ cached' = cached /\ result' = result
      /\ delivered' = delivered /\ final' = final
  BY DEF NextPage, Asking, attemptVars
<1>2. Domains /\ Memory(q)
  BY <1>1 DEF CTInv
<1>3. Domains' /\ \A p \in Providers \ {q} : got'[p] = got[p]
  BY <1>1, <1>2 DEF Domains
<1>4. Memory(q)'
  BY <1>1, <1>2 DEF Memory, Held, Answers, Told, Active, LetThrough, Final, Preserved
<1> QED BY <1>1, <1>3, <1>4, ProviderMoves

LEMMA AnswerStep ==
  ASSUME CTInv, NEW q \in Providers, NEW more, Answer(q, more) PROVE CTInv'
<1>1. /\ IsCT /\ phase = "running" /\ provider[q] = "asking"
      /\ attemptVars' = attemptVars /\ phase' = phase /\ cuts' = cuts
      /\ cached' = cached /\ result' = result
      /\ provider' = [provider EXCEPT ![q] = "success"]
      /\ got' = [got EXCEPT ![q] = @ \cup more]
      /\ delivered' = [delivered EXCEPT ![q] = @ \cup got'[q]]
      /\ final' = [final EXCEPT ![q] = IF got'[q] = {} THEN "empty" ELSE "names"]
  BY DEF Answer, Asking, attemptVars
<1>2. Domains /\ Memory(q)
  BY <1>1 DEF CTInv
<1>3. Domains'
  BY <1>1, <1>2 DEF Domains
<1>4. \A p \in Providers \ {q} :
        /\ provider'[p] = provider[p] /\ got'[p] = got[p]
        /\ delivered'[p] = delivered[p] /\ final'[p] = final[p]
  BY <1>1, <1>2 DEF Domains
<1>5. /\ provider'[q] = "success" /\ delivered'[q] = delivered[q] \cup got'[q]
      /\ final'[q] = IF got'[q] = {} THEN "empty" ELSE "names"
  BY <1>1, <1>2 DEF Domains
<1>6. Held(q)'
  BY <1>1, <1>2, <1>5 DEF Memory, Held, Active, LetThrough, Final
<1>7. Answers(q)' /\ Told(q)'
  BY <1>1, <1>5 DEF Answers, Told
<1> QED BY <1>1, <1>3, <1>4, <1>5, <1>6, <1>7, ProviderMoves DEF Memory

LEMMA FailStep ==
  ASSUME CTInv, NEW q \in Providers, NEW response, Fail(q, response) PROVE CTInv'
<1> DEFINE how == Failure(response)
<1>0. how \in {"limited", "refused", "broken", "failed"}
  BY DEF Failure
<1>1. /\ IsCT /\ phase = "running" /\ provider[q] = "asking"
      /\ attemptVars' = attemptVars /\ phase' = phase /\ cuts' = cuts
      /\ cached' = cached /\ result' = result /\ got' = got
      /\ provider' = [provider EXCEPT ![q] = how]
      /\ \/ /\ how \in {"limited", "refused"}
            /\ delivered' = [delivered EXCEPT ![q] = @ \cup got[q]]
            /\ final' = [final EXCEPT ![q] = IF got[q] = {} THEN "refused" ELSE "names"]
         \/ how \notin {"limited", "refused"} /\ delivered' = delivered /\ final' = final
  BY DEF Fail, Asking, attemptVars
<1> HIDE DEF how
<1>2. Domains /\ Memory(q)
  BY <1>1 DEF CTInv
<1>3. Domains'
  BY <1>1, <1>2 DEF Domains
<1>4. \A p \in Providers \ {q} :
        /\ provider'[p] = provider[p] /\ got'[p] = got[p]
        /\ delivered'[p] = delivered[p] /\ final'[p] = final[p]
  BY <1>1, <1>2 DEF Domains
<1>5. /\ provider'[q] = how
      /\ \/ /\ how \in {"limited", "refused"}
            /\ delivered'[q] = delivered[q] \cup got[q]
            /\ final'[q] = IF got[q] = {} THEN "refused" ELSE "names"
         \/ how \notin {"limited", "refused"} /\ delivered'[q] = delivered[q] /\ final'[q] = final[q]
  BY <1>1, <1>2 DEF Domains
<1>6. Held(q)'
  BY <1>0, <1>1, <1>2, <1>5 DEF Memory, Held, Active, LetThrough, Final
<1>7. Answers(q)' /\ Told(q)'
  BY <1>0, <1>1, <1>2, <1>5 DEF Memory, Answers, Told
<1>8. provider'[q] # "preserved"
  BY <1>0, <1>5
<1> QED BY <1>1, <1>3, <1>4, <1>6, <1>7, <1>8, ProviderMoves DEF Memory

LEMMA CancelProviderStep ==
  ASSUME CTInv, NEW q \in Providers, CancelProvider(q) PROVE CTInv'
<1>1. /\ IsCT /\ phase \in {"unwinding", "cancelled"} /\ provider[q] = "asking"
      /\ attemptVars' = attemptVars /\ phase' = phase /\ cuts' = cuts
      /\ provider' = [provider EXCEPT ![q] = "cancelled"]
      /\ cached' = cached /\ result' = result /\ got' = got
      /\ delivered' = delivered /\ final' = final
  BY DEF CancelProvider, attemptVars
<1>2. Domains /\ Memory(q)
  BY <1>1 DEF CTInv
<1>3. Domains' /\ provider'[q] = "cancelled" /\ \A p \in Providers \ {q} : provider'[p] = provider[p]
  BY <1>1, <1>2 DEF Domains
<1>4. Memory(q)'
  BY <1>1, <1>2, <1>3 DEF Memory, Held, Answers, Told, Active, LetThrough, Final
<1> QED BY <1>1, <1>3, <1>4, ProviderMoves
-----------------------------------------------------------------------------
(* execute().                                                              *)

\* A provider that has names in its entry is named beside each of them.
LEMMA NamesAreTold ==
  ASSUME NEW p \in Answered \cup Preserved, NEW n \in Entry(p).names
  PROVE  \E r \in Discoveries : r.kind = "subdomain_found" /\ n \in r.names /\ p \in r.sources
<1> DEFINE r == [kind |-> "subdomain_found", sources |-> {s \in Answered \cup Preserved : n \in Entry(s).names},
                 names |-> {n}, retryable |-> FALSE]
<1>1. n \in Found
  BY DEF Found
<1>2. r \in Discoveries
  BY <1>1 DEF Discoveries
<1>3. r.kind = "subdomain_found" /\ n \in r.names /\ p \in r.sources
  OBVIOUS
<1> QED BY <1>2, <1>3

\* What a provider has delivered is in its entry when the stage concludes.
LEMMA DeliveredEntry ==
  ASSUME NEW p \in Providers, Active, Held(p), NEW n \in delivered[p]
  PROVE  p \in Answered \cup Preserved /\ n \in Entry(p).names
<1>1. CASE provider[p] = "preserved"
  <2>1. ~Final(p)
    BY <1>1 DEF Final
  <2> QED BY <1>1, <2>1 DEF Held, Preserved, Entry
<1>2. CASE provider[p] # "preserved"
  <2>1. cached[p].names = {}
    BY <1>2 DEF Held, Nothing
  <2>2. Final(p) /\ n \in got[p]
    BY <2>1 DEF Held
  <2> QED BY <1>2, <2>2 DEF Final, Answered, Entry
<1> QED BY <1>1, <1>2

LEMMA ConcludeStep ==
  ASSUME CTInv, IsCT, Active, Conclude PROVE CTInv'
<1>1. /\ result' = Discoveries /\ phase' = "returned" /\ plugin' = plugin /\ cuts' = cuts
      /\ provider' = provider /\ got' = got /\ delivered' = delivered /\ final' = final
      /\ cached' = [p \in Providers |->
           IF Final(p) THEN [status |-> provider[p], names |-> got[p]] ELSE cached[p]]
  BY DEF Conclude, Remember, Goes, Final
<1>2. Domains'
  BY <1>1 DEF CTInv, Domains
<1>3. Counted'
  BY <1>1 DEF Counted
<1>4. ASSUME NEW p \in Providers PROVE Memory(p)'
  <2>1. Memory(p)
    BY DEF CTInv
  <2>2. cached'[p] = IF Final(p) THEN [status |-> provider[p], names |-> got[p]] ELSE cached[p]
    BY <1>1
  <2>3. Final(p) => cached'[p].names = got[p] /\ cached'[p] # Nothing
    <3>1. Final(p) => cached'[p].status # "none"
      BY <2>2 DEF Final
    <3>2. Nothing.status = "none"
      BY DEF Nothing
    <3> QED BY <2>2, <3>1, <3>2
  <2>4. delivered[p] \subseteq cached'[p].names
    <3>1. CASE Final(p)
      <4>1. provider[p] # "preserved"
        BY <3>1 DEF Final
      <4>2. cached[p].names = {}
        BY <2>1, <4>1 DEF Memory, Held, Nothing
      <4> QED BY <2>1, <2>3, <3>1, <4>2 DEF Memory, Held
    <3>2. CASE ~Final(p)
      BY <2>1, <2>2, <3>2 DEF Memory, Held
    <3> QED BY <3>1, <3>2
  <2>5. Held(p)'
    BY <1>1, <2>4 DEF Held, Active, LetThrough
  <2>6. Answers(p)'
    <3>1. final[p] = "names" => delivered[p] # {}
      BY <2>1 DEF Memory, Answers
    <3>2. provider[p] \in ForGood => cached'[p] # Nothing
      <4>1. CASE provider[p] = "preserved"
        <5>1. ~Final(p) /\ cached[p] # Nothing
          BY <2>1, <4>1 DEF Final, Memory, Held
        <5> QED BY <2>2, <5>1
      <4>2. CASE provider[p] # "preserved"
        BY <2>3, <4>2 DEF Final, ForGood
      <4> QED BY <4>1, <4>2
    <3>3. Nothing' = Nothing
      BY DEF Nothing
    <3> QED BY <1>1, <3>1, <3>2, <3>3 DEF Answers
  <2>7. Told(p)'
    BY <1>1, <2>1, DeliveredEntry, NamesAreTold DEF Memory, Told
  <2> QED BY <2>5, <2>6, <2>7 DEF Memory
<1> QED BY <1>2, <1>3, <1>4 DEF CTInv

LEMMA UnwindCTStep ==
  ASSUME CTInv, UnwindCT PROVE CTInv'
<1>1. IsCT /\ phase = "unwinding" /\ cuts = 1 /\ Active
  BY DEF UnwindCT, CTInv, Counted, Active
<1>2. CASE Conclude
  BY <1>1, <1>2, ConcludeStep
<1>3. CASE /\ ~(Preserved # {} \/ \E p \in Answered : got[p] # {})
           /\ Goes("cancelled", FALSE) /\ UNCHANGED ctVars
  <2>1. /\ phase' = "cancelled" /\ plugin' = plugin /\ cuts' = 1
        /\ provider' = provider /\ got' = got /\ cached' = cached
        /\ result' = result /\ delivered' = delivered /\ final' = final
    BY <1>1, <1>3 DEF Goes, ctVars
  <2>2. Counted' /\ Domains'
    BY <1>1, <2>1 DEF CTInv, Counted, Domains
  <2>3. ASSUME NEW p \in Providers PROVE Memory(p)'
    <3>1. Memory(p)
      BY <1>1 DEF CTInv
    <3>2. provider[p] # "preserved"
      BY <1>3 DEF Preserved
    <3>3. cached[p] = Nothing
      BY <1>1, <3>1, <3>2 DEF Memory, Held
    <3>4. Final(p) => got[p] = {}
      BY <1>3 DEF Final, Answered
    <3>5. delivered[p] \subseteq cached[p].names
      BY <1>1, <3>1, <3>4 DEF Memory, Held
    <3>6. Held(p)'
      BY <2>1, <3>3, <3>5 DEF Held, Active, LetThrough, Nothing
    <3> QED BY <2>1, <3>1, <3>6 DEF Memory, Answers, Told
  <2> QED BY <2>2, <2>3 DEF CTInv
<1> QED BY <1>2, <1>3 DEF UnwindCT

LEMMA EndCTStep ==
  ASSUME CTInv, CTRaises \/ CancelCT PROVE CTInv'
<1>1. /\ IsCT /\ plugin' = plugin
      /\ provider' = provider /\ got' = got /\ cached' = cached
      /\ result' = result /\ delivered' = delivered /\ final' = final
      /\ \/ phase = "running" /\ phase' = "raised"
         \/ phase = "running" /\ phase' = "unwinding" /\ cuts' = cuts + 1
         \/ phase = "unwinding" /\ phase' = "cancelled" /\ cuts' = cuts + 1
  BY DEF CTRaises, CancelCT, Goes, Cancelled, ctVars
<1>2. Counted' /\ (phase' = "cancelled" => cuts' = 2)
  BY <1>1 DEF CTInv, Counted
<1>3. ASSUME NEW p \in Providers PROVE Memory(p)'
  <2>1. Memory(p)
    BY <1>1 DEF CTInv
  <2>2. Held(p)'
    BY <1>1, <1>2, <2>1 DEF Memory, Held, Active, LetThrough, Final, Nothing
  <2> QED BY <1>1, <2>1, <2>2 DEF Memory, Answers, Told
<1> QED BY <1>1, <1>2, <1>3 DEF CTInv, Domains

LEMMA RetryCTStep ==
  ASSUME CTInv, RetryCT PROVE CTInv'
<1>1. /\ IsCT /\ plugin' = plugin /\ phase' = "running" /\ cuts' = 0
      /\ phase = "returned" \/ LetThrough
      /\ cached' = cached /\ delivered' = delivered
      /\ provider' = [p \in Providers |-> IF cached[p] = Nothing THEN "asking" ELSE "preserved"]
      /\ got' = [p \in Providers |-> {}]
      /\ final' = [p \in Providers |-> IF provider[p] \in ForGood THEN final[p] ELSE "none"]
  BY DEF RetryCT, NextAttempt, Ask, LetThrough
<1>2. Counted' /\ Domains'
  BY <1>1 DEF CTInv, Counted, Domains
<1>3. ASSUME NEW p \in Providers PROVE Memory(p)'
  <2>1. Memory(p)
    BY <1>1 DEF CTInv
  <2>2. /\ provider'[p] = IF cached[p] = Nothing THEN "asking" ELSE "preserved"
        /\ final'[p] = IF provider[p] \in ForGood THEN final[p] ELSE "none"
    BY <1>1
  <2>3. Held(p)'
    BY <1>1, <2>1, <2>2 DEF Memory, Held, Active, LetThrough, Final, Nothing
  <2>4. provider'[p] = "asking" /\ final'[p] # "none" => Preserved' = {}
    <3>1. CASE phase = "returned"
      BY <2>1, <2>2, <3>1 DEF Memory, Answers
    <3>2. CASE LetThrough
      <4>1. \A s \in Providers : cached[s] = Nothing
        BY <1>1, <3>2 DEF CTInv, Memory, Held
      <4> QED BY <1>1, <4>1 DEF Preserved
    <3> QED BY <1>1, <3>1, <3>2
  <2>5. Answers(p)' /\ Told(p)'
    BY <1>1, <2>1, <2>2, <2>4 DEF Memory, Answers, Told
  <2> QED BY <2>3, <2>5 DEF Memory
<1> QED BY <1>2, <1>3 DEF CTInv

LEMMA CTNextInv ==
  ASSUME CTInv, [Next]_vars PROVE CTInv'
<1>1. CASE IsCT
  <2>1. CTNext \/ UNCHANGED vars
    BY <1>1, OthersAreNotCT DEF Next
  <2>2. CASE UNCHANGED vars
    <3>1. /\ plugin' = plugin /\ phase' = phase /\ cuts' = cuts
          /\ provider' = provider /\ got' = got /\ cached' = cached
          /\ result' = result /\ delivered' = delivered /\ final' = final
      BY <2>2 DEF vars, attemptVars, ctVars
    <3>2. ASSUME NEW p \in Providers PROVE Memory(p)'
      BY <1>1, <3>1 DEF CTInv, Memory, Held, Answers, Told, Active, LetThrough, Final, Preserved, Nothing
    <3> QED BY <1>1, <3>1, <3>2 DEF CTInv, Counted, Domains
  <2>3. CASE CTGathered
    <3>1. Active /\ Conclude
      BY <2>3 DEF CTGathered, Active
    <3> QED BY <1>1, <3>1, ConcludeStep
  <2> QED BY <2>1, <2>2, <2>3, NextPageStep, AnswerStep, FailStep, CancelProviderStep,
             UnwindCTStep, EndCTStep, RetryCTStep DEF CTNext
<1>2. CASE ~IsCT
  BY <1>2, PluginStays DEF CTInv, IsCT
<1> QED BY <1>1, <1>2

(***************************************************************************)
(* Over any number of attempts, a result that is returned has every name   *)
(* of every final answer, and a provider is asked again only if there was  *)
(* nothing to remember of it (ct_plugin.py 65-74, 91-106).                 *)
(***************************************************************************)
THEOREM AnswersAreCarried == Spec => []AnswersCarried
<1>1. CTInv => AnswersCarried
  <2> SUFFICES ASSUME CTInv, IsCT PROVE AnswersCarried
    BY DEF AnswersCarried
  <2>1. ASSUME NEW p \in Providers, phase = "running", provider[p] = "asking", final[p] # "none"
        PROVE  final[p] # "names" /\ Preserved = {}
    <3>1. Memory(p) /\ ~Final(p) /\ Active
      BY <2>1 DEF CTInv, Final, Active
    <3>2. cached[p] = Nothing
      BY <2>1, <3>1 DEF Memory, Held
    <3>3. delivered[p] = {}
      BY <3>1, <3>2 DEF Memory, Held, Nothing
    <3> QED BY <2>1, <3>1, <3>3 DEF Memory, Answers
  <2>2. phase = "returned" => \A p \in Providers : Told(p)
    BY DEF CTInv, Memory
  <2> QED BY <2>1, <2>2 DEF AnswersCarried, Told
<1> QED BY <1>1, InitCT, CTNextInv, PTL DEF Spec
-----------------------------------------------------------------------------
(***************************************************************************)
(* Every stage is an attempt as StageAttempt describes it.                 *)
(***************************************************************************)
AttemptInv ==
  /\ plugin \in DOMAIN OnCancel
  /\ phase \in {"running", "unwinding"} => told = FALSE

\* What a step of a stage is to the scheduler.
Seen == Scheduled!Next \/ UNCHANGED Scheduled!vars

\* The ways a stage's step can look.
Same     == UNCHANGED <<plugin, phase, cuts, told>>

Finishes == phase = "running" /\ phase' \in {"returned", "raised"} /\ told' = FALSE
            /\ plugin' = plugin /\ cuts' = cuts

Cuts(again) ==
  /\ plugin' = plugin /\ told' = told /\ cuts' = cuts + 1
  /\ \/ phase = "running" /\ phase' = "unwinding"
     \/ phase = "unwinding" /\ phase' = again

Unwinds(to, truncated) ==
  phase = "unwinding" /\ phase' = to /\ told' = truncated /\ plugin' = plugin /\ cuts' = cuts

Retries == phase \in {"returned", "cancelled"} /\ phase' = "running" /\ cuts' = 0 /\ told' = FALSE
           /\ plugin' = plugin

LEMMA Shapes ==
  ASSUME AttemptInv,
         \/ Same \/ Finishes \/ Cuts("unwinding") \/ Cuts("cancelled") \/ Retries
         \/ (Unwinds("cancelled", FALSE) /\ OnCancel[plugin] # "told")
         \/ (Unwinds("returned", FALSE) /\ OnCancel[plugin] = "silent")
         \/ (Unwinds("returned", TRUE) /\ OnCancel[plugin] = "told")
  PROVE  Seen /\ AttemptInv'
<1> USE DEF AttemptInv, Seen, Scheduled!Next, Scheduled!vars, Scheduled!Finish, Scheduled!Cut,
            Scheduled!Unwind, Scheduled!Again, Scheduled!Ended
<1>1. CASE Same
  BY <1>1 DEF Same
<1>2. CASE Finishes
  BY <1>2 DEF Finishes
<1>3. CASE Cuts("unwinding") \/ Cuts("cancelled")
  BY <1>3 DEF Cuts
<1>4. CASE Retries
  BY <1>4 DEF Retries
<1>5. CASE Unwinds("cancelled", FALSE) /\ OnCancel[plugin] # "told"
  BY <1>5 DEF Unwinds
<1>6. CASE Unwinds("returned", FALSE) /\ OnCancel[plugin] = "silent"
  BY <1>6 DEF Unwinds
<1>7. CASE Unwinds("returned", TRUE) /\ OnCancel[plugin] = "told"
  BY <1>7 DEF Unwinds
<1> QED BY <1>1, <1>2, <1>3, <1>4, <1>5, <1>6, <1>7

LEMMA LookupShape == ASSUME AttemptInv, LookupNext PROVE Seen /\ AttemptInv'
<1>1. plugin \in {DNS, Extraction} => OnCancel[plugin] = "raises"
  BY StagesAssumption DEF AttemptInv
<1>2. \/ Finishes \/ Cuts("cancelled") \/ Retries
      \/ (Unwinds("cancelled", FALSE) /\ OnCancel[plugin] = "raises")
  BY <1>1 DEF LookupNext, LookupAnswers, LookupFails, LookupRaises, CancelLookup, UnwindLookup, RetryLookup,
              IsLookup, Goes, Cancelled, NextAttempt, Finishes, Cuts, Retries, Unwinds
<1> QED BY <1>2, Shapes

LEMMA ToolShape == ASSUME AttemptInv, ToolNext PROVE Seen /\ AttemptInv'
<1>1. plugin \in Tools => OnCancel[plugin] = "raises"
  BY StagesAssumption DEF AttemptInv
<1>2. CASE LaunchFails \/ CancelTool \/ UnwindTool \/ RetryTool
  <2>1. \/ Finishes \/ Cuts("cancelled") \/ Retries
        \/ (Unwinds("cancelled", FALSE) /\ OnCancel[plugin] = "raises")
    BY <1>1, <1>2 DEF LaunchFails, CancelTool, UnwindTool, RetryTool,
              IsTool, Goes, Cancelled, NextAttempt, Finishes, Cuts, Retries, Unwinds
  <2> QED BY <2>1, Shapes
<1>3. CASE Read
  <2>1. Same \/ Finishes
    BY <1>3 DEF Read, Goes, attemptVars, Same, Finishes
  <2> QED BY <2>1, Shapes
<1>4. CASE ~(LaunchFails \/ CancelTool \/ UnwindTool \/ RetryTool \/ Read)
  <2>1. Same
    BY <1>4 DEF ToolNext, Launch, ToolExits, OutputLimit, ReaderKills, ReaderGoesOn, ReaderDone,
                Waited, ToolDeadline, StopKills, Stopped, attemptVars, Same
  <2> QED BY <2>1, Shapes
<1> QED BY <1>2, <1>3, <1>4

LEMMA CTShape == ASSUME AttemptInv, CTNext PROVE Seen /\ AttemptInv'
<1>1. plugin = CT => OnCancel[plugin] = "silent"
  BY StagesAssumption DEF AttemptInv
<1>2. \/ Same \/ Finishes \/ Cuts("cancelled") \/ Retries
      \/ (Unwinds("cancelled", FALSE) /\ OnCancel[plugin] = "silent")
      \/ (Unwinds("returned", FALSE) /\ OnCancel[plugin] = "silent")
  <2>1. (\E p \in Providers : \/ \E more \in SUBSET CTNames : NextPage(p, more) \/ Answer(p, more)
                              \/ \E response \in Response : Fail(p, response)
                              \/ CancelProvider(p)) => Same
    BY DEF NextPage, Answer, Fail, CancelProvider, attemptVars, Same
  <2>2. CTGathered \/ CTRaises => Finishes
    BY DEF CTGathered, CTRaises, Conclude, Goes, Finishes
  <2>3. CancelCT => Cuts("cancelled")
    BY DEF CancelCT, Cancelled, Cuts
  <2>4. UnwindCT => (Unwinds("returned", FALSE) \/ Unwinds("cancelled", FALSE)) /\ plugin = CT
    BY DEF UnwindCT, Conclude, Goes, Unwinds, IsCT
  <2>5. RetryCT => Retries
    BY DEF RetryCT, NextAttempt, Retries
  <2> QED BY <1>1, <2>1, <2>2, <2>3, <2>4, <2>5 DEF CTNext
<1> QED BY <1>2, Shapes

LEMMA HostShape == ASSUME AttemptInv, HostNext PROVE Seen /\ AttemptInv'
<1>1. plugin \in {DiscoveredDNS, DiscoveredHTTP} => OnCancel[plugin] = "told"
  BY StagesAssumption DEF AttemptInv
<1>2. \/ Same \/ Finishes \/ Cuts("cancelled")
      \/ (Unwinds("returned", TRUE) /\ OnCancel[plugin] = "told")
  <2>1. (\E n \in names : HostStart(n) \/ LookedUp(n) \/ OriginSettles(n) \/ Probed(n) \/ UnwindHost(n)) => Same
    BY DEF HostStart, LookedUp, OriginSettles, Probed, UnwindHost, attemptVars, Same
  <2>2. HostsDone => Finishes
    BY DEF HostsDone, Goes, Finishes
  <2>3. CancelHosts => Cuts("cancelled")
    BY DEF CancelHosts, Cancelled, Cuts
  <2>4. UnwindHosts => Unwinds("returned", TRUE) /\ OnCancel[plugin] = "told"
    BY <1>1 DEF UnwindHosts, Goes, Unwinds, IsHostSweep
  <2> QED BY <2>1, <2>2, <2>3, <2>4 DEF HostNext
<1> QED BY <1>2, Shapes

LEMMA PathShape == ASSUME AttemptInv, PathNext PROVE Seen /\ AttemptInv'
<1>1. /\ plugin = Directory => OnCancel[plugin] = "told"
      /\ plugin \in {Vhost, Bundles} => OnCancel[plugin] = "silent"
  BY StagesAssumption DEF AttemptInv
<1>2. \/ Same \/ Finishes \/ Cuts("unwinding") \/ Retries
      \/ (Unwinds("cancelled", FALSE) /\ OnCancel[plugin] = "silent")
      \/ (Unwinds("returned", FALSE) /\ OnCancel[plugin] = "silent")
      \/ (Unwinds("returned", TRUE) /\ OnCancel[plugin] = "told")
  <2>1. (\E lines \in Lines : Load(lines)) \/ LoopEnds => Same \/ Finishes
    BY DEF Load, LoopEnds, Works, Moves, Goes, attemptVars, Same, Finishes
  <2>2. (\E kind \in {"observation", "error", "budget_denied", "none"} : Candidated(kind)) => Same
    BY DEF Candidated, Moves, attemptVars, Same
  <2>3. Baseline \/ Decide \/ Paused \/ Slept => Same
    BY DEF Baseline, Decide, Paused, Slept, Skipped, Moves, attemptVars, Same
  <2>4. ProviderRaises \/ PathDone => Finishes
    BY DEF ProviderRaises, PathDone, Works, Goes, Finishes
  <2>5. CancelPath => Cuts("unwinding")
    BY DEF CancelPath, Cancelled, Cuts
  <2>6. UnwindPath => \/ Unwinds("returned", TRUE) /\ plugin = Directory
                      \/ Unwinds("returned", FALSE) /\ plugin = Vhost
                      \/ Unwinds("returned", FALSE) /\ plugin = Bundles
                      \/ Unwinds("cancelled", FALSE) /\ plugin = Bundles
    BY DEF UnwindPath, Goes, Unwinds
  <2>7. RetryPath => Retries
    BY DEF RetryPath, NextAttempt, Retries
  <2> QED BY <1>1, <2>1, <2>2, <2>3, <2>4, <2>5, <2>6, <2>7 DEF PathNext
<1> QED BY <1>2, Shapes

(***************************************************************************)
(* The safety half of AttemptAsScheduled: an attempt of any stage begins,  *)
(* ends, takes cancellations and is repeated as StageScheduler's model of  *)
(* the scan has it, with the truncation records OnCancel promises          *)
(* (scheduler.py 196-303).                                                 *)
(***************************************************************************)
THEOREM StagesAreAttempts == Spec => Scheduled!Init /\ [][Scheduled!Next]_(Scheduled!vars)
<1>1. Init => AttemptInv /\ Scheduled!Init
  BY DEF Init, AttemptInit, AttemptInv, Scheduled!Init
<1>2. AttemptInv /\ [Next]_vars => AttemptInv' /\ Seen
  <2> SUFFICES ASSUME AttemptInv, [Next]_vars PROVE AttemptInv' /\ Seen
    OBVIOUS
  <2>1. UNCHANGED vars => Same
    BY DEF vars, attemptVars, Same
  <2> QED BY <2>1, LookupShape, ToolShape, CTShape, HostShape, PathShape, Shapes DEF Next
<1>3. AttemptInv /\ [Next]_vars => [Scheduled!Next]_(Scheduled!vars)
  BY <1>2 DEF Seen
<1> QED BY <1>1, <1>2, <1>3, PTL DEF Spec

-----------------------------------------------------------------------------
(***************************************************************************)
(* A sweep over hosts: a name has a record exactly if its task returned a  *)
(* list, and the result of a sweep that has returned is its last word.     *)
(***************************************************************************)
Records ==
  /\ IsFiniteSet(names)
  /\ task \in [names -> TaskAt] /\ DOMAIN record = names
  /\ \A n \in names : record[n] # "none" <=> task[n] = "listed"

Result ==
  phase = "returned" =>
    /\ hosts.reported = Listed
    /\ ~told => Listed = names
    /\ told => /\ hosts.attempted = Cardinality(Listed)
               /\ hosts.notAttempted = Cardinality(names) - Cardinality(Listed)

HostInv == IsHostSweep => Records /\ Result

LEMMA AdmittedFinite ==
  ASSUME IsHostSweep, NEW offer \in Offers
  PROVE  IsFiniteSet(Admitted(offer))
<1>1. CASE plugin = DiscoveredDNS
  <2> DEFINE sources == InScope(offer)
  <2>1. /\ DOMAIN sources \subseteq DOMAIN offer /\ IsFiniteSet(DOMAIN offer)
        /\ DOMAIN sources \subseteq Nat
        /\ \A n \in DOMAIN sources : Cardinality(sources[n]) \in Nat \ {0}
    BY HostAssumption DEF InScope
  <2> HIDE DEF sources
  <2>2. IsFiniteSet(DOMAIN sources) /\ MaxNames \in Nat
    BY <2>1, FS_Subset, HostAssumption
  <2>3. IsFiniteSet(SelectNames(sources, MaxNames))
    BY <2>1, <2>2, NamesCount
  <2> QED BY <1>1, <2>3 DEF Admitted, sources
<1>2. CASE plugin # DiscoveredDNS
  <2>1. IsFiniteSet(DOMAIN offer) /\ Admitted(offer) \subseteq DOMAIN offer
    BY <1>2, HostAssumption DEF Admitted, InScope
  <2> QED BY <2>1, FS_Subset
<1> QED BY <1>1, <1>2

LEMMA HostStarts == Init => HostInv
<1> SUFFICES ASSUME Init, IsHostSweep PROVE Records /\ Result
  BY DEF HostInv
<1>1. PICK name : AttemptInit(name)
  BY DEF Init
<1>2. PICK offer \in Offers : names = Admitted(offer)
  BY DEF Init, HostInit
<1>3. task = [n \in names |-> "queued"] /\ record = [n \in names |-> "none"]
  BY DEF Init, HostInit
<1>4. Records
  BY <1>2, <1>3, AdmittedFinite DEF Records, TaskAt
<1> QED BY <1>1, <1>4 DEF AttemptInit, Result

\* What the other stages do is not a step of a sweep over hosts.
LEMMA OthersAreNotHosts ==
  ASSUME IsHostSweep
  PROVE  /\ LookupNext => FALSE
         /\ ToolNext => FALSE
         /\ CTNext => FALSE
         /\ PathNext => FALSE
<1>1. plugin \notin {DNS, Extraction, CT, Directory, Vhost, Bundles} /\ plugin \notin Tools
  BY StagesAssumption DEF IsHostSweep
<1>2. ~IsLookup /\ ~IsTool /\ ~IsCT /\ ~IsPathSweep
  BY <1>1 DEF IsLookup, IsTool, IsCT, IsPathSweep
<1>3. LookupNext => FALSE
  BY <1>1, <1>2 DEF LookupNext, LookupAnswers, LookupFails, LookupRaises, CancelLookup, UnwindLookup, RetryLookup
<1>4. ToolNext => FALSE
  BY <1>2 DEF ToolNext, Launch, LaunchFails, ToolExits, OutputLimit, ReaderKills, ReaderGoesOn, ReaderDone,
              Waited, Stopped, ToolDeadline, StopKills, Read, CancelTool, UnwindTool, RetryTool
<1>5. CTNext => FALSE
  BY <1>2 DEF CTNext, NextPage, Answer, Fail, Asking, CancelProvider, CTGathered, CTRaises, CancelCT,
              UnwindCT, RetryCT
<1>6. PathNext => FALSE
  BY <1>1, <1>2 DEF PathNext, Load, Baseline, ProviderRaises, Decide, Paused, Candidated, Slept, LoopEnds,
                    PathDone, CancelPath, UnwindPath, RetryPath, Works
<1> QED BY <1>3, <1>4, <1>5, <1>6

\* One task goes on; the stage does not.
LEMMA TaskMoves ==
  ASSUME HostInv, IsHostSweep, phase # "returned", NEW n \in names,
         NEW to \in TaskAt, NEW says, says # "none" <=> to = "listed",
         task' = [task EXCEPT ![n] = to],
         \/ record' = [record EXCEPT ![n] = says]
         \/ record' = record /\ to # "listed" /\ task[n] # "listed",
         phase' = phase, plugin' = plugin, names' = names
  PROVE  HostInv'
<1>1. Records
  BY DEF HostInv
<1>2. Records'
  <2>1. IsFiniteSet(names') /\ task' \in [names' -> TaskAt] /\ DOMAIN record' = names'
    BY <1>1 DEF Records
  <2>2. ASSUME NEW m \in names PROVE record'[m] # "none" <=> task'[m] = "listed"
    BY <1>1, <2>2 DEF Records
  <2> QED BY <2>1, <2>2 DEF Records
<1> QED BY <1>2 DEF HostInv, Result

LEMMA HostStep ==
  ASSUME HostInv, IsHostSweep, HostNext
  PROVE  HostInv'
<1>0. Records /\ Result
  BY DEF HostInv
<1>1. ASSUME NEW n \in names, HostStart(n) PROVE HostInv'
  <2>1. /\ phase = "running" /\ task[n] = "queued" /\ task' = [task EXCEPT ![n] = "busy"]
        /\ phase' = phase /\ plugin' = plugin /\ names' = names /\ record' = record
    BY <1>1 DEF HostStart, attemptVars
  <2>2. "busy" \in TaskAt
    BY DEF TaskAt
  <2> QED BY <2>1, <2>2, TaskMoves
<1>2. ASSUME NEW n \in names, LookedUp(n) PROVE HostInv'
  <2>1. PICK how \in Replies : record' = [record EXCEPT ![n] = how]
    BY <1>2 DEF LookedUp
  <2>2. how # "none"
    BY <2>1 DEF Replies, Resolution, Families
  <2>3. /\ phase = "running" /\ task' = [task EXCEPT ![n] = "listed"]
        /\ phase' = phase /\ plugin' = plugin /\ names' = names
    BY <1>2 DEF LookedUp, attemptVars
  <2>4. "listed" \in TaskAt
    BY DEF TaskAt
  <2> QED BY <2>1, <2>2, <2>3, <2>4, TaskMoves
<1>3. ASSUME NEW n \in names, OriginSettles(n) PROVE HostInv'
  <2>1. /\ phase = "running" /\ task[n] = "busy" /\ task' = [task EXCEPT ![n] = "partly"]
        /\ phase' = phase /\ plugin' = plugin /\ names' = names /\ record' = record
    BY <1>3 DEF OriginSettles, attemptVars
  <2>2. "partly" \in TaskAt
    BY DEF TaskAt
  <2> QED BY <2>1, <2>2, TaskMoves
<1>4. ASSUME NEW n \in names, Probed(n) PROVE HostInv'
  <2> DEFINE says == IF task[n] = "partly" THEN "origins" ELSE "host-probe"
  <2>1. /\ phase = "running" /\ task' = [task EXCEPT ![n] = "listed"]
        /\ record' = [record EXCEPT ![n] = says]
        /\ phase' = phase /\ plugin' = plugin /\ names' = names
    BY <1>4 DEF Probed, attemptVars
  <2>2. "listed" \in TaskAt /\ says # "none"
    BY DEF TaskAt
  <2> QED BY <2>1, <2>2, TaskMoves
<1>5. ASSUME NEW n \in names, UnwindHost(n) PROVE HostInv'
  <2>0. /\ phase # "returned" /\ phase' = phase /\ plugin' = plugin /\ names' = names
        /\ {"cancelled", "unwinding", "listed"} \subseteq TaskAt
    BY <1>5 DEF UnwindHost, attemptVars, TaskAt
  <2>1. \/ /\ task[n] # "listed" /\ record' = record
           /\ \E to \in {"cancelled", "unwinding"} : task' = [task EXCEPT ![n] = to]
        \/ /\ task' = [task EXCEPT ![n] = "listed"]
           /\ record' = [record EXCEPT ![n] = "origins"]
    BY <1>5 DEF UnwindHost
  <2> QED BY <2>0, <2>1, TaskMoves
<1>6. CASE HostsDone
  <2>1. /\ Listed = names /\ hosts'.reported = names /\ told' = FALSE /\ plugin' = plugin
        /\ names' = names /\ task' = task /\ record' = record
    BY <1>6 DEF HostsDone, NoHosts, Goes
  <2>2. Listed' = Listed
    BY <2>1 DEF Listed
  <2> QED BY <1>0, <2>1, <2>2 DEF HostInv, Records, Result
<1>7. CASE CancelHosts
  <2>1. /\ phase' \in {"unwinding", "cancelled"} /\ plugin' = plugin
        /\ names' = names /\ task' = task /\ record' = record
    BY <1>7 DEF CancelHosts, Cancelled, hostVars
  <2> QED BY <1>0, <2>1 DEF HostInv, Records, Result
<1>8. CASE UnwindHosts
  <2>1. /\ hosts' = [reported |-> Listed, attempted |-> Cardinality(Listed),
                     notAttempted |-> Cardinality(names) - Cardinality(Listed)]
        /\ told' = TRUE /\ plugin' = plugin
        /\ names' = names /\ task' = task /\ record' = record
    BY <1>8 DEF UnwindHosts, Goes, Attempted
  <2>2. Listed' = Listed
    BY <2>1 DEF Listed
  <2> QED BY <1>0, <2>1, <2>2 DEF HostInv, Records, Result
<1> QED BY <1>1, <1>2, <1>3, <1>4, <1>5, <1>6, <1>7, <1>8 DEF HostNext

LEMMA HostsAreAccounted == HostInv => HostsAccounted
<1> SUFFICES ASSUME HostInv, IsHostSweep, phase = "returned"
             PROVE  LET reported == {n \in names : record[n] # "none"} IN
                    /\ hosts.reported = reported
                    /\ ~told => reported = names
                    /\ told => /\ hosts.attempted = Cardinality(reported)
                               /\ hosts.attempted + hosts.notAttempted = Cardinality(names)
  BY DEF HostsAccounted
<1>1. Records /\ Result
  BY DEF HostInv
<1>2. {n \in names : record[n] # "none"} = Listed
  BY <1>1 DEF Records, Listed
<1>3. Cardinality(names) \in Nat /\ Cardinality(Listed) \in Nat
  BY <1>1, FS_Subset, FS_CardinalityType DEF Records, Listed
<1> QED BY <1>1, <1>2, <1>3 DEF Result
-----------------------------------------------------------------------------
(***************************************************************************)
(* A sweep over a list of candidates, directory-discovery or               *)
(* vhost-discovery: until execute() ends, the candidates with a record are *)
(* those the loop has left behind and the one it sleeps after, and the     *)
(* count is exact at every await.                                          *)
(***************************************************************************)
IsWalk == plugin \in {Directory, Vhost}

Lists ==
  /\ Len(list) \in Nat /\ DOMAIN list = 1 .. Len(list)
  /\ DOMAIN outcome = DOMAIN list
  /\ next \in 0 .. Len(list)
  /\ cuts \in Nat

Position ==
  ~Ended =>
    /\ \A i \in DOMAIN list : outcome[i] # "none" <=> (i <= next \/ (spot = "sleeping" /\ i = next + 1))
    /\ spot \in {"loading", "baseline", "missing"} => next = 0
    /\ spot \in {"pausing", "probing", "sleeping"} => next < Len(list)
    /\ spot = "closing" => next = Len(list)
    /\ spot = "sleeping" => plugin = Directory
    /\ spot = "pausing" => plugin = Vhost
    /\ plugin = Directory /\ spot # "deciding" => swept = next
    /\ phase = "unwinding" => spot # "deciding" /\ cuts > 0
    /\ phase \in {"running", "unwinding"} /\ spot \in Spot \ {"over"}
    /\ counts = NoCounts

Budgeted ==
  plugin = Directory =>
    /\ remaining \in Int /\ sent \in Nat
    /\ remaining >= 0 \/ sent = 2
    /\ spot \in {"loading", "baseline"} => remaining >= 1 /\ sent = 0
    /\ spot = "missing" => remaining >= 0 /\ sent = 1
    /\ spot = "probing" => remaining >= 1

LastWord ==
  phase = "returned" =>
    /\ cuts = 0 => Recorded = DOMAIN list
    /\ counts.kind = "directory_truncated" =>
         /\ 1 .. counts.done \subseteq Recorded
         /\ Cardinality(Recorded) - counts.done \in {0, 1}
         /\ counts.done + counts.open = Len(list)

PathInv == IsWalk => Lists /\ Position /\ Budgeted /\ LastWord

LEMMA PathStarts == Init => PathInv
<1> SUFFICES ASSUME Init, IsWalk PROVE Lists /\ Position /\ Budgeted /\ LastWord
  BY DEF PathInv
<1>1. phase = "running" /\ cuts = 0
  BY DEF Init, AttemptInit
<1>2. /\ list = <<>> /\ next = 0 /\ spot = "loading" /\ swept = 0 /\ outcome = <<>>
      /\ counts = NoCounts /\ sent = 0
      /\ remaining \in IF plugin = Directory THEN RequestBudgets ELSE {0}
  BY DEF Init, PathInit
<1>3. plugin = Directory => remaining \in Nat \ {0}
  BY <1>2, PathAssumption
<1> QED BY <1>1, <1>2, <1>3 DEF Lists, Position, Budgeted, LastWord, Ended, Spot

\* What the other stages do is not a step of a sweep over candidates.
LEMMA OthersAreNotWalks ==
  ASSUME IsWalk
  PROVE  /\ LookupNext => FALSE
         /\ ToolNext => FALSE
         /\ CTNext => FALSE
         /\ HostNext => FALSE
<1>1. plugin \notin {DNS, Extraction, CT, DiscoveredDNS, DiscoveredHTTP} /\ plugin \notin Tools
  BY StagesAssumption DEF IsWalk
<1>2. ~IsLookup /\ ~IsTool /\ ~IsCT /\ ~IsHostSweep
  BY <1>1 DEF IsLookup, IsTool, IsCT, IsHostSweep
<1>3. LookupNext => FALSE
  BY <1>1, <1>2 DEF LookupNext, LookupAnswers, LookupFails, LookupRaises, CancelLookup, UnwindLookup, RetryLookup
<1>4. ToolNext => FALSE
  BY <1>2 DEF ToolNext, Launch, LaunchFails, ToolExits, OutputLimit, ReaderKills, ReaderGoesOn, ReaderDone,
              Waited, Stopped, ToolDeadline, StopKills, Read, CancelTool, UnwindTool, RetryTool
<1>5. CTNext => FALSE
  BY <1>2 DEF CTNext, NextPage, Answer, Fail, Asking, CancelProvider, CTGathered, CTRaises, CancelCT,
              UnwindCT, RetryCT
<1>6. HostNext => FALSE
  BY <1>1, <1>2 DEF HostNext, HostStart, UnwindHost, LookedUp, OriginSettles, Probed, HostsDone,
                    CancelHosts, UnwindHosts
<1> QED BY <1>3, <1>4, <1>5, <1>6

\* The candidates with a record, at an await.
LEMMA RecordedSoFar ==
  ASSUME Lists, Position, ~Ended, NEW k, k = IF spot = "sleeping" THEN next + 1 ELSE next
  PROVE  /\ Recorded = 1 .. k /\ Cardinality(Recorded) = k
         /\ 1 .. next \subseteq Recorded
<1>1. /\ Len(list) \in Nat /\ next \in 0 .. Len(list) /\ DOMAIN list = 1 .. Len(list)
      /\ spot = "sleeping" => next < Len(list)
      /\ \A i \in DOMAIN list : outcome[i] # "none" <=> (i <= next \/ (spot = "sleeping" /\ i = next + 1))
  BY DEF Lists, Position, Ended
<1>2. k \in Nat /\ k <= Len(list) /\ next <= k
  BY <1>1
<1>3. \A i \in 1 .. Len(list) : outcome[i] # "none" <=> i <= k
  BY <1>1
<1>4. Recorded = 1 .. k
  BY <1>1, <1>2, <1>3 DEF Recorded
<1>5. Cardinality(1 .. k) = k
  <2>1. Cardinality(1 .. k) = IF 1 > k THEN 0 ELSE k - 1 + 1
    <3>1. 1 \in Int /\ k \in Int
      BY <1>2
    <3> QED BY <3>1, FS_Interval, Zenon
  <2> QED BY <2>1, <1>2
<1>6. 1 .. next \subseteq 1 .. k
  BY <1>1, <1>2
<1> QED BY <1>4, <1>5, <1>6

\* The steps of the loop's body: what they have in common.
LEMMA LoopGoesOn ==
  ASSUME Lists, Position, Budgeted, LastWord, ~Ended, IsWalk,
         phase' = phase, plugin' = plugin, cuts' = cuts, counts' = counts, list' = list,
         DOMAIN outcome' = DOMAIN outcome, Position', Budgeted', next' \in 0 .. Len(list)
  PROVE  PathInv'
<1>1. Lists'
  BY DEF Lists
<1>2. LastWord'
  BY DEF LastWord, Ended
<1> QED BY <1>1, <1>2 DEF PathInv

LEMMA LoadKeeps ==
  ASSUME PathInv, IsWalk, NEW lines \in Lines, Load(lines)
  PROVE  PathInv'
<1>0. Lists /\ Position /\ Budgeted /\ LastWord
  BY DEF PathInv
<1>1. /\ phase = "running" /\ spot = "loading" /\ next' = next /\ remaining' = remaining
      /\ swept' = swept /\ counts' = counts /\ sent' = sent
  BY DEF Load, Works
<1>2. CASE plugin = Directory /\ WordList(lines).refused
  <2>1. /\ phase' = "raised" /\ spot' = "over" /\ plugin' = plugin /\ cuts' = cuts
        /\ list' = list /\ outcome' = outcome
    BY <1>2 DEF Load, Goes
  <2> QED BY <1>0, <1>1, <2>1 DEF PathInv, IsWalk, Lists, Position, Budgeted, LastWord, Ended
<1>3. CASE ~(plugin = Directory /\ WordList(lines).refused)
  <2>1. /\ list' = IF plugin = Directory THEN WordList(lines).accepted ELSE HostNames(lines)
        /\ outcome' = [i \in DOMAIN list' |-> "none"]
        /\ spot' = "baseline" /\ phase' = phase /\ plugin' = plugin /\ cuts' = cuts
    BY <1>3 DEF Load, Moves, attemptVars
  <2>2. list' \in Seq({lines[i] : i \in DOMAIN lines})
    <3> DEFINE V == Range(lines)
    <3>1. Len(lines) \in Nat /\ lines \in [1 .. Len(lines) -> V] /\ MaxCandidates \in Nat
      BY PathAssumption
    <3> HIDE DEF V
    <3>2. WordList(lines) \in Loads(V)
      BY <3>1, ListLoaded DEF WordList
    <3>3. HostNames(lines) \in Seq(V)
      BY <3>1, CandidatesTakenFrom DEF HostNames
    <3>4. WordList(lines).accepted \in Seq(V)
      BY <3>2 DEF Loads
    <3>5. V = {lines[i] : i \in DOMAIN lines}
      BY DEF V, Range
    <3> QED BY <2>1, <3>3, <3>4, <3>5
  <2>3. Len(list') \in Nat /\ DOMAIN list' = 1 .. Len(list')
    BY <2>2
  <2>4. next = 0 /\ (plugin = Directory => swept = 0) /\ counts = NoCounts /\ cuts \in Nat
    BY <1>0, <1>1 DEF Position, Lists, Ended
  <2>5. Lists'
    BY <1>1, <2>1, <2>3, <2>4 DEF Lists
  <2>6. Position'
    BY <1>1, <2>1, <2>3, <2>4 DEF Position, Ended, Spot
  <2>7. Budgeted' /\ LastWord'
    BY <1>0, <1>1, <2>1 DEF Budgeted, LastWord
  <2> QED BY <2>5, <2>6, <2>7 DEF PathInv
<1> QED BY <1>2, <1>3

LEMMA BaselineKeeps ==
  ASSUME PathInv, IsWalk, Baseline
  PROVE  PathInv'
<1>0. Lists /\ Position /\ Budgeted /\ LastWord
  BY DEF PathInv
<1>1. /\ phase = "running" /\ spot \in {"baseline", "missing"} /\ plugin # Bundles
      /\ phase' = phase /\ plugin' = plugin /\ cuts' = cuts /\ counts' = counts /\ list' = list
      /\ outcome' = outcome /\ next' = next /\ swept' = swept /\ sent' = sent + 1
      /\ spot' = IF plugin = Directory /\ spot = "baseline" THEN "missing" ELSE "deciding"
      /\ remaining' = IF plugin = Directory THEN remaining - 1 ELSE remaining
  BY StagesAssumption DEF Baseline, Works, Moves, attemptVars, IsWalk
<1>2. Position'
  BY <1>0, <1>1 DEF Position, Ended, Spot
<1>3. Budgeted'
  BY <1>0, <1>1 DEF Budgeted
<1>4. ~Ended /\ next' \in 0 .. Len(list)
  BY <1>0, <1>1 DEF Ended, Lists
<1> QED BY <1>0, <1>1, <1>2, <1>3, <1>4, LoopGoesOn

LEMMA DecideKeeps ==
  ASSUME PathInv, IsWalk, Decide
  PROVE  PathInv'
<1>0. Lists /\ Position /\ Budgeted /\ LastWord
  BY DEF PathInv
<1>1. /\ phase = "running" /\ spot = "deciding" /\ next < Len(list)
      /\ phase' = phase /\ plugin' = plugin /\ cuts' = cuts /\ counts' = counts /\ list' = list
      /\ remaining' = remaining /\ sent' = sent
      /\ plugin = Directory => swept' = next
  BY DEF Decide, Works, Skipped, Moves, attemptVars
<1>2. /\ ~Ended /\ next \in Nat /\ Len(list) \in Nat /\ DOMAIN list = 1 .. Len(list)
      /\ DOMAIN outcome = DOMAIN list
      /\ \A i \in DOMAIN list : outcome[i] # "none" <=> i <= next
      /\ counts = NoCounts
  BY <1>0, <1>1 DEF Ended, Lists, Position
<1>3. ASSUME NEW kind, kind # "none", Skipped(kind) PROVE PathInv'
  <2>1. outcome' = [outcome EXCEPT ![next + 1] = kind] /\ next' = next + 1 /\ spot' = "deciding"
    BY <1>3 DEF Skipped, Candidate, Moves
  <2>2. \A i \in DOMAIN list : outcome'[i] # "none" <=> i <= next + 1
    BY <1>1, <1>2, <1>3, <2>1
  <2>3. Position'
    BY <1>1, <1>2, <2>1, <2>2 DEF Position, Ended, Spot
  <2>4. Budgeted'
    BY <1>0, <1>1, <2>1 DEF Budgeted
  <2>5. DOMAIN outcome' = DOMAIN outcome /\ next' \in 0 .. Len(list)
    BY <1>1, <1>2, <2>1
  <2> QED BY <1>0, <1>1, <1>2, <2>3, <2>4, <2>5, LoopGoesOn
<1>4. CASE /\ plugin = Directory => remaining > 0
           /\ Moves(IF plugin = Vhost THEN "pausing" ELSE "probing") /\ UNCHANGED <<outcome, next>>
  <2>1. /\ spot' = IF plugin = Vhost THEN "pausing" ELSE "probing"
        /\ outcome' = outcome /\ next' = next
    BY <1>4 DEF Moves
  <2>2. Position'
    BY <1>0, <1>1, <1>2, <2>1 DEF Position, Ended, Spot
  <2>3. Budgeted'
    BY <1>0, <1>1, <1>4, <2>1 DEF Budgeted
  <2>4. next' \in 0 .. Len(list)
    BY <1>0, <2>1 DEF Lists
  <2> QED BY <1>0, <1>1, <1>2, <2>1, <2>2, <2>3, <2>4, LoopGoesOn
<1>5. plugin = Directory => remaining \in Int
  BY <1>0 DEF Budgeted
<1>6. \/ \E kind \in {"budget_denied", "rejected"} : Skipped(kind)
      \/ /\ ~(plugin = Directory /\ remaining <= 0)
         /\ Moves(IF plugin = Vhost THEN "pausing" ELSE "probing") /\ UNCHANGED <<outcome, next>>
  BY DEF Decide
<1> QED BY <1>3, <1>4, <1>5, <1>6

LEMMA PauseKeeps ==
  ASSUME PathInv, IsWalk, Paused
  PROVE  PathInv'
<1>0. Lists /\ Position /\ Budgeted /\ LastWord
  BY DEF PathInv
<1>1. /\ phase = "running" /\ spot = "pausing" /\ spot' = "probing"
      /\ phase' = phase /\ plugin' = plugin /\ cuts' = cuts /\ counts' = counts /\ list' = list
      /\ outcome' = outcome /\ next' = next /\ swept' = swept /\ sent' = sent /\ remaining' = remaining
  BY DEF Paused, Works, Moves, attemptVars
<1>2. ~Ended /\ next' \in 0 .. Len(list) /\ plugin = Vhost /\ plugin # Directory
  BY <1>0, <1>1, StagesAssumption DEF Ended, Lists, Position
<1>3. Position'
  BY <1>0, <1>1, <1>2 DEF Position, Ended, Spot
<1>4. Budgeted'
  BY <1>0, <1>1, <1>2 DEF Budgeted
<1> QED BY <1>0, <1>1, <1>2, <1>3, <1>4, LoopGoesOn

LEMMA CandidateKeeps ==
  ASSUME PathInv, IsWalk, NEW kind, Candidated(kind)
  PROVE  PathInv'
<1>0. Lists /\ Position /\ Budgeted /\ LastWord
  BY DEF PathInv
<1>1. /\ phase = "running" /\ spot = "probing" /\ kind # "none"
      /\ phase' = phase /\ plugin' = plugin /\ cuts' = cuts /\ counts' = counts /\ list' = list
      /\ outcome' = [outcome EXCEPT ![next + 1] = kind] /\ swept' = swept /\ sent' = sent + 1
      /\ remaining' = IF plugin = Directory THEN remaining - 1 ELSE remaining
  BY StagesAssumption DEF Candidated, Candidate, Works, Moves, attemptVars, IsWalk
<1>2. IF plugin = Directory THEN spot' = "sleeping" /\ next' = next ELSE spot' = "deciding" /\ next' = next + 1
  BY DEF Candidated, Moves
<1>3. /\ ~Ended /\ next \in Nat /\ next < Len(list) /\ Len(list) \in Nat
      /\ DOMAIN list = 1 .. Len(list) /\ DOMAIN outcome = DOMAIN list
      /\ \A i \in DOMAIN list : outcome[i] # "none" <=> i <= next
      /\ counts = NoCounts /\ (plugin = Directory => swept = next)
  BY <1>0, <1>1 DEF Ended, Lists, Position
<1>4. \A i \in DOMAIN list : outcome'[i] # "none" <=> i <= next + 1
  BY <1>1, <1>3
<1>5. \A i \in DOMAIN list : i <= next + 1 <=> (i <= next \/ i = next + 1)
  BY <1>3
<1>6. Position'
  BY <1>1, <1>2, <1>3, <1>4, <1>5 DEF Position, Ended, Spot
<1>7. Budgeted'
  BY <1>0, <1>1, <1>2 DEF Budgeted
<1>8. DOMAIN outcome' = DOMAIN outcome /\ next' \in 0 .. Len(list)
  BY <1>1, <1>2, <1>3
<1> QED BY <1>0, <1>1, <1>3, <1>6, <1>7, <1>8, LoopGoesOn

LEMMA SleepKeeps ==
  ASSUME PathInv, IsWalk, Slept
  PROVE  PathInv'
<1>0. Lists /\ Position /\ Budgeted /\ LastWord
  BY DEF PathInv
<1>1. /\ phase = "running" /\ spot = "sleeping" /\ spot' = "deciding" /\ next' = next + 1
      /\ phase' = phase /\ plugin' = plugin /\ cuts' = cuts /\ counts' = counts /\ list' = list
      /\ outcome' = outcome /\ swept' = swept /\ sent' = sent /\ remaining' = remaining
  BY DEF Slept, Works, Moves, attemptVars
<1>2. /\ ~Ended /\ next \in Nat /\ next < Len(list) /\ Len(list) \in Nat
      /\ DOMAIN list = 1 .. Len(list)
      /\ \A i \in DOMAIN list : outcome[i] # "none" <=> (i <= next \/ i = next + 1)
      /\ counts = NoCounts
  BY <1>0, <1>1 DEF Ended, Lists, Position
<1>3. \A i \in DOMAIN list : i <= next + 1 <=> (i <= next \/ i = next + 1)
  BY <1>2
<1>4. Position'
  BY <1>1, <1>2, <1>3 DEF Position, Ended, Spot
<1>5. Budgeted'
  BY <1>0, <1>1 DEF Budgeted
<1>6. next' \in 0 .. Len(list)
  BY <1>1, <1>2
<1> QED BY <1>0, <1>1, <1>2, <1>4, <1>5, <1>6, LoopGoesOn

LEMMA LoopEndKeeps ==
  ASSUME PathInv, IsWalk, LoopEnds
  PROVE  PathInv'
<1>0. Lists /\ Position /\ Budgeted /\ LastWord
  BY DEF PathInv
<1>1. plugin # Bundles
  BY StagesAssumption DEF IsWalk
<1>2. /\ phase = "running" /\ spot = "deciding" /\ next = Len(list) /\ spot' = "closing"
      /\ phase' = phase /\ plugin' = plugin /\ cuts' = cuts /\ counts' = counts /\ list' = list
      /\ outcome' = outcome /\ next' = next /\ sent' = sent /\ remaining' = remaining
      /\ plugin = Directory => swept' = Len(list)
  BY <1>1 DEF LoopEnds, Works, Moves, attemptVars
<1>3. ~Ended /\ next' \in 0 .. Len(list)
  BY <1>0, <1>2 DEF Ended, Lists
<1>4. Position'
  BY <1>0, <1>2 DEF Position, Ended, Spot
<1>5. Budgeted'
  BY <1>0, <1>2 DEF Budgeted
<1> QED BY <1>0, <1>2, <1>3, <1>4, <1>5, LoopGoesOn

LEMMA DoneKeeps ==
  ASSUME PathInv, IsWalk, PathDone
  PROVE  PathInv'
<1>0. Lists /\ Position /\ Budgeted /\ LastWord
  BY DEF PathInv
<1>1. /\ phase = "running" /\ spot = "closing" /\ spot' = "over" /\ phase' = "returned"
      /\ plugin' = plugin /\ cuts' = cuts /\ counts' = counts /\ list' = list
      /\ outcome' = outcome /\ next' = next /\ sent' = sent /\ remaining' = remaining
  BY DEF PathDone, Works, Goes
<1>2. ~Ended /\ next = Len(list) /\ counts = NoCounts
  BY <1>0, <1>1 DEF Ended, Position
<1>3. Recorded = DOMAIN list
  BY <1>0, <1>1, <1>2, RecordedSoFar DEF Lists
<1>4. Recorded' = Recorded
  BY <1>1 DEF Recorded
<1>5. LastWord'
  BY <1>1, <1>2, <1>3, <1>4 DEF LastWord, NoCounts
<1>6. Lists' /\ Position' /\ Budgeted'
  BY <1>0, <1>1 DEF Lists, Position, Budgeted, Ended
<1> QED BY <1>5, <1>6 DEF PathInv

LEMMA CancelKeeps ==
  ASSUME PathInv, IsWalk, CancelPath
  PROVE  PathInv'
<1>0. Lists /\ Position /\ Budgeted /\ LastWord
  BY DEF PathInv
<1>1. /\ phase' = "unwinding" /\ plugin' = plugin /\ cuts' = cuts + 1 /\ counts' = counts
      /\ list' = list /\ outcome' = outcome /\ next' = next /\ sent' = sent
      /\ remaining' = remaining /\ spot' = spot /\ swept' = swept
      /\ (phase = "running" /\ Awaiting) \/ phase = "unwinding"
  BY DEF CancelPath, Cancelled, pathVars
<1>2. ~Ended /\ spot # "deciding" /\ cuts \in Nat
  BY <1>0, <1>1 DEF Ended, Awaiting, Position, Lists
<1>3. Position'
  BY <1>0, <1>1, <1>2 DEF Position, Ended
<1>4. Lists'
  BY <1>0, <1>1, <1>2 DEF Lists
<1>5. Budgeted'
  BY <1>0, <1>1 DEF Budgeted
<1>6. LastWord'
  BY <1>1 DEF LastWord
<1> QED BY <1>3, <1>4, <1>5, <1>6 DEF PathInv

LEMMA UnwindKeeps ==
  ASSUME PathInv, IsWalk, UnwindPath
  PROVE  PathInv'
<1>0. Lists /\ Position /\ Budgeted /\ LastWord
  BY DEF PathInv
<1>1. plugin # Bundles /\ Directory # Vhost
  BY StagesAssumption DEF IsWalk
<1>2. /\ phase = "unwinding" /\ phase' = "returned" /\ spot' = "over" /\ plugin' = plugin
      /\ cuts' = cuts /\ list' = list /\ outcome' = outcome /\ next' = next /\ sent' = sent
      /\ remaining' = remaining
      /\ plugin = Directory => counts' = [kind |-> "directory_truncated", done |-> swept,
                                          open |-> Len(list) - swept]
      /\ plugin # Directory => counts'.kind = "vhost_partial"
  BY <1>1 DEF UnwindPath, Goes
<1>3. ~Ended /\ cuts > 0 /\ (plugin = Directory => swept = next)
  BY <1>0, <1>2 DEF Ended, Position
<1>4. PICK k : k = IF spot = "sleeping" THEN next + 1 ELSE next
  OBVIOUS
<1>5. 1 .. next \subseteq Recorded /\ Cardinality(Recorded) = k
  BY <1>0, <1>3, <1>4, RecordedSoFar
<1>6. next \in Nat /\ Len(list) \in Nat /\ k - next \in {0, 1} /\ next + (Len(list) - next) = Len(list)
  BY <1>0, <1>4 DEF Lists
<1>7. Recorded' = Recorded
  BY <1>2 DEF Recorded
<1>8. LastWord'
  <2>1. CASE plugin = Directory
    BY <1>2, <1>3, <1>5, <1>6, <1>7, <2>1 DEF LastWord
  <2>2. CASE plugin # Directory
    BY <1>0, <1>2, <1>3, <2>2 DEF LastWord, Lists
  <2> QED BY <2>1, <2>2
<1>9. Lists' /\ Position' /\ Budgeted'
  BY <1>0, <1>2 DEF Lists, Position, Budgeted, Ended
<1> QED BY <1>8, <1>9 DEF PathInv

LEMMA PathStep ==
  ASSUME PathInv, IsWalk, PathNext
  PROVE  PathInv'
<1>1. plugin # Bundles
  BY StagesAssumption DEF IsWalk
<1>2. ~ProviderRaises /\ ~RetryPath
  BY <1>1 DEF ProviderRaises, RetryPath
<1> QED BY <1>2, LoadKeeps, BaselineKeeps, DecideKeeps, PauseKeeps, CandidateKeeps, SleepKeeps,
           LoopEndKeeps, DoneKeeps, CancelKeeps, UnwindKeeps DEF PathNext

LEMMA PathsAreAccounted == PathInv => PathsAccounted
<1> SUFFICES ASSUME PathInv, IsWalk PROVE PathsAccounted
  BY DEF PathsAccounted, IsWalk
<1> QED BY DEF PathInv, LastWord, Budgeted, PathsAccounted, IsWalk
-----------------------------------------------------------------------------
LEMMA SweepNext == ASSUME HostInv, PathInv, [Next]_vars PROVE HostInv' /\ PathInv'
<1>1. CASE UNCHANGED vars
  BY <1>1 DEF vars, attemptVars, hostVars, pathVars, HostInv, Records, Result, IsHostSweep, Listed,
              PathInv, IsWalk, Lists, Position, Budgeted, LastWord, Recorded, Ended
<1>2. CASE Next
  <2>1. plugin' = plugin
    BY PluginStays
  <2>2. HostInv'
    <3>1. CASE IsHostSweep
      BY <1>2, <3>1, OthersAreNotHosts, HostStep DEF Next
    <3>2. CASE ~IsHostSweep
      BY <2>1, <3>2 DEF HostInv, IsHostSweep
    <3> QED BY <3>1, <3>2
  <2>3. PathInv'
    <3>1. CASE IsWalk
      BY <1>2, <3>1, OthersAreNotWalks, PathStep DEF Next
    <3>2. CASE ~IsWalk
      BY <2>1, <3>2 DEF PathInv, IsWalk
    <3> QED BY <3>1, <3>2
  <2> QED BY <2>2, <2>3
<1> QED BY <1>1, <1>2

(***************************************************************************)
(* For any names, lists, budgets and cancellations, no name or candidate   *)
(* of a sweep disappears, the numbers a cut sweep gives are those of its   *)
(* records, and no more requests are sent than the budget has, but for the *)
(* two of the baseline (discovered_dns_plugin.py 220-241,                  *)
(* discovered_http_plugin.py 81-102, directory_discovery.py 96-171).       *)
(***************************************************************************)
THEOREM SweepsAreAccounted == Spec => []SweepsAccounted
<1>1. Init => HostInv /\ PathInv
  BY HostStarts, PathStarts
<1>2. HostInv /\ PathInv => SweepsAccounted
  BY HostsAreAccounted, PathsAreAccounted DEF SweepsAccounted
<1> QED BY <1>1, <1>2, SweepNext, PTL DEF Spec
-----------------------------------------------------------------------------
(* The list of stages.                                                     *)

\* Where a stage stands in the runner's list.
PlaceOf(stage) ==
  CASE stage = "dns" -> 1
    [] stage = "http" -> 2
    [] stage = "ct" -> 3
    [] stage = "subfinder" -> 4
    [] stage = "vhost-discovery" -> 5
    [] stage = "directory-discovery" -> 6
    [] stage = "url-history" -> 7
    [] stage = "katana" -> 8
    [] stage = "discovered-dns" -> 9
    [] stage = "discovered-http" -> 10
    [] stage = "javascript-extraction" -> 11
    [] stage = "javascript-bundles" -> 12
    [] stage = "httpx-fingerprint" -> 13
    [] OTHER -> 0

\* A list of the stages R in this order, none of them behind place k.
Climbs(listed, R, k) ==
  /\ listed \in Seq(R) /\ Range(listed) = R
  /\ \A i, j \in DOMAIN listed : i < j => PlaceOf(listed[i]) < PlaceOf(listed[j])
  /\ \A s \in R : PlaceOf(s) \in 0 .. k

LEMMA OneStageMore ==
  ASSUME NEW listed, NEW R, NEW k \in Nat, Climbs(listed, R, k), NEW on \in BOOLEAN,
         NEW stage, NEW place \in Nat, PlaceOf(stage) = place, k < place
  PROVE  Climbs(listed \o IF on THEN <<stage>> ELSE <<>>, R \cup IF on THEN {stage} ELSE {}, place)
<1>1. /\ listed \in Seq(R) /\ Range(listed) = R
      /\ \A i, j \in DOMAIN listed : i < j => PlaceOf(listed[i]) < PlaceOf(listed[j])
      /\ \A s \in R : PlaceOf(s) \in 0 .. k
  BY DEF Climbs
<1>2. Len(listed) \in Nat /\ DOMAIN listed = 1 .. Len(listed)
  BY <1>1
<1>3. CASE ~on
  <2>1. (listed \o IF on THEN <<stage>> ELSE <<>>) = listed
    BY <1>1, <1>3
  <2>2. (R \cup IF on THEN {stage} ELSE {}) = R
    BY <1>3
  <2>3. \A s \in R : PlaceOf(s) \in 0 .. place
    BY <1>1
  <2> QED BY <1>1, <2>1, <2>2, <2>3 DEF Climbs
<1>4. CASE on
  <2> DEFINE more == Append(listed, stage)
             all  == R \cup {stage}
  <2>1. listed \o <<stage>> = more
    BY <1>1
  <2>2. /\ more \in Seq(all) /\ DOMAIN more = 1 .. Len(listed) + 1
        /\ \A i \in 1 .. Len(listed) : more[i] = listed[i] /\ listed[i] \in R
        /\ more[Len(listed) + 1] = stage
    BY <1>1, <1>2
  <2> HIDE DEF more, all
  <2>3. Range(more) = all
    <3>1. ASSUME NEW i \in DOMAIN more PROVE more[i] \in all
      BY <1>2, <2>2, <3>1 DEF all
    <3>2. ASSUME NEW s \in R PROVE \E i \in DOMAIN more : more[i] = s
      <4>1. PICK i \in DOMAIN listed : listed[i] = s
        BY <1>1 DEF Range
      <4> QED BY <1>2, <2>2, <4>1
    <3>3. \E i \in DOMAIN more : more[i] = stage
      BY <1>2, <2>2
    <3> QED BY <3>1, <3>2, <3>3 DEF Range, all
  <2>4. ASSUME NEW i \in DOMAIN more, NEW j \in DOMAIN more, i < j
        PROVE  PlaceOf(more[i]) < PlaceOf(more[j])
    <3>1. i \in 1 .. Len(listed) /\ more[i] = listed[i] /\ PlaceOf(listed[i]) \in 0 .. k
      BY <1>1, <1>2, <2>2, <2>4
    <3>2. CASE j \in 1 .. Len(listed)
      BY <1>1, <1>2, <2>2, <2>4, <3>1, <3>2
    <3>3. CASE j = Len(listed) + 1
      BY <2>2, <3>1, <3>3
    <3> QED BY <1>2, <2>2, <3>2, <3>3
  <2>5. \A s \in all : PlaceOf(s) \in 0 .. place
    BY <1>1 DEF all
  <2>6. Climbs(more, all, place)
    BY <2>2, <2>3, <2>4, <2>5 DEF Climbs
  <2> QED BY <1>4, <2>1, <2>6 DEF all
<1> QED BY <1>3, <1>4

\* The stages of a scan.
StagesListed(options) ==
  LET On(condition, stages) == IF condition THEN stages ELSE {} IN
  {"dns", "http"}
  \cup On("ct" \in options, {"ct"})
  \cup On("sub" \in options, {"subfinder"})
  \cup On("vhosts" \in options, {"vhost-discovery"})
  \cup On("directories" \in options, {"directory-discovery"})
  \cup On("history" \in options, {"url-history"})
  \cup On("katana" \in options, {"katana"})
  \cup On(Resolves(options), {"discovered-dns"})
  \cup On(Resolves(options), {"discovered-http"})
  \cup On(options \cap {"js", "bundles"} # {}, {"javascript-extraction"})
  \cup On("bundles" \in options, {"javascript-bundles"})
  \cup On("httpx" \in options, {"httpx-fingerprint"})

LEMMA PlacesAre ==
  /\ PlaceOf("dns") = 1 /\ PlaceOf("http") = 2 /\ PlaceOf("ct") = 3 /\ PlaceOf("subfinder") = 4
  /\ PlaceOf("vhost-discovery") = 5 /\ PlaceOf("directory-discovery") = 6
  /\ PlaceOf("url-history") = 7 /\ PlaceOf("katana") = 8 /\ PlaceOf("discovered-dns") = 9
  /\ PlaceOf("discovered-http") = 10 /\ PlaceOf("javascript-extraction") = 11
  /\ PlaceOf("javascript-bundles") = 12 /\ PlaceOf("httpx-fingerprint") = 13
BY DEF PlaceOf

LEMMA StagesClimb ==
  ASSUME NEW options
  PROVE  Climbs(ListedStages(options), StagesListed(options), 13)
<1> DEFINE One(c, s) == IF c THEN <<s>> ELSE <<>>
           Set(c, s) == IF c THEN {s} ELSE {}
           Two(c, s, t) == IF c THEN <<s, t>> ELSE <<>>
           res == Resolves(options)
           js  == options \cap {"js", "bundles"} # {}
           ct == "ct" \in options
           sub == "sub" \in options
           vhosts == "vhosts" \in options
           dirs == "directories" \in options
           history == "history" \in options
           katana == "katana" \in options
           bundles == "bundles" \in options
           httpx == "httpx" \in options
           a1 == <<"dns", "http">>
           a2 == a1 \o One(ct, "ct")
           a3 == a2 \o One(sub, "subfinder")
           a4 == a3 \o One(vhosts, "vhost-discovery")
           a5 == a4 \o One(dirs, "directory-discovery")
           a6 == a5 \o One(history, "url-history")
           a7 == a6 \o One(katana, "katana")
           a8 == a7 \o One(res, "discovered-dns")
           a9 == a8 \o One(res, "discovered-http")
           b9 == a7 \o Two(res, "discovered-dns", "discovered-http")
           a10 == a9 \o One(js, "javascript-extraction")
           a11 == a10 \o One(bundles, "javascript-bundles")
           a12 == a11 \o One(httpx, "httpx-fingerprint")
           r1 == {"dns", "http"}
           r2 == r1 \cup Set(ct, "ct")
           r3 == r2 \cup Set(sub, "subfinder")
           r4 == r3 \cup Set(vhosts, "vhost-discovery")
           r5 == r4 \cup Set(dirs, "directory-discovery")
           r6 == r5 \cup Set(history, "url-history")
           r7 == r6 \cup Set(katana, "katana")
           r8 == r7 \cup Set(res, "discovered-dns")
           r9 == r8 \cup Set(res, "discovered-http")
           r10 == r9 \cup Set(js, "javascript-extraction")
           r11 == r10 \cup Set(bundles, "javascript-bundles")
           r12 == r11 \cup Set(httpx, "httpx-fingerprint")
<1>1. Climbs(a1, r1, 2)
  <2>1. a1 \in Seq(r1) /\ DOMAIN a1 = 1 .. 2 /\ a1[1] = "dns" /\ a1[2] = "http"
    OBVIOUS
  <2>2. Range(a1) = r1
    BY DEF Range
  <2> HIDE DEF a1
  <2> QED BY <2>1, <2>2, PlacesAre DEF Climbs
<1>2. \A listed, R, s : \A k, p \in Nat : \A c \in BOOLEAN :
        Climbs(listed, R, k) /\ PlaceOf(s) = p /\ k < p => Climbs(listed \o One(c, s), R \cup Set(c, s), p)
  BY OneStageMore
<1>3. /\ res \in BOOLEAN /\ js \in BOOLEAN /\ ct \in BOOLEAN /\ sub \in BOOLEAN
      /\ vhosts \in BOOLEAN /\ dirs \in BOOLEAN /\ history \in BOOLEAN /\ katana \in BOOLEAN
      /\ bundles \in BOOLEAN /\ httpx \in BOOLEAN
  BY DEF Resolves
<1>4. ListedStages(options) = b9 \o One(js, "javascript-extraction")
                                 \o One(bundles, "javascript-bundles")
                                 \o One(httpx, "httpx-fingerprint")
  BY DEF ListedStages
<1>5. StagesListed(options) = r12
  BY DEF StagesListed
<1> HIDE DEF One, Set, Two, res, js, ct, sub, vhosts, dirs, history, katana, bundles, httpx, a1, r1
<1>12. Climbs(a2, r2, 3)
  BY <1>1, <1>2, <1>3, PlacesAre
<1> HIDE DEF a2, r2
<1>13. Climbs(a3, r3, 4)
  BY <1>12, <1>2, <1>3, PlacesAre
<1> HIDE DEF a3, r3
<1>14. Climbs(a4, r4, 5)
  BY <1>13, <1>2, <1>3, PlacesAre
<1> HIDE DEF a4, r4
<1>15. Climbs(a5, r5, 6)
  BY <1>14, <1>2, <1>3, PlacesAre
<1> HIDE DEF a5, r5
<1>16. Climbs(a6, r6, 7)
  BY <1>15, <1>2, <1>3, PlacesAre
<1> HIDE DEF a6, r6
<1>17. Climbs(a7, r7, 8)
  BY <1>16, <1>2, <1>3, PlacesAre
<1> HIDE DEF a7, r7
<1>18. Climbs(a8, r8, 9)
  BY <1>17, <1>2, <1>3, PlacesAre
<1>19. Climbs(a9, r9, 10)
  <2> HIDE DEF a8, r8
  <2> QED BY <1>18, <1>2, <1>3, PlacesAre
<1>20. a9 = b9
  <2>1. a7 \in Seq(r7)
    BY <1>17 DEF Climbs
  <2> QED BY <2>1 DEF One, Two
<1> HIDE DEF a8, r8, a9, r9, b9
<1>21. Climbs(a10, r10, 11)
  BY <1>19, <1>2, <1>3, PlacesAre
<1> HIDE DEF a10, r10
<1>22. Climbs(a11, r11, 12)
  BY <1>21, <1>2, <1>3, PlacesAre
<1> HIDE DEF a11, r11
<1>23. Climbs(a12, r12, 13)
  BY <1>22, <1>2, <1>3, PlacesAre
<1>24. ListedStages(options) = a12
  BY <1>4, <1>20 DEF a10, a11
<1> QED BY <1>5, <1>23, <1>24

LEMMA DependedOn ==
  ASSUME NEW options, NEW s \in StagesListed(options), NEW d \in Dependencies(options, s)
  PROVE  d \in StagesListed(options) /\ PlaceOf(d) < PlaceOf(s)
<1>1. "dns" \in StagesListed(options) /\ "http" \in StagesListed(options)
  BY DEF StagesListed
<1>2. CASE s = "http"
  BY <1>1, <1>2, PlacesAre DEF Dependencies
<1>3. CASE s \in {"vhost-discovery", "directory-discovery"}
  BY <1>1, <1>3, PlacesAre DEF Dependencies
<1>4. CASE s = "discovered-http"
  <2>1. Resolves(options) /\ d = "discovered-dns"
    BY <1>4 DEF StagesListed, Dependencies
  <2>2. d \in StagesListed(options)
    BY <2>1 DEF StagesListed
  <2> QED BY <1>4, <2>1, <2>2, PlacesAre
<1>5. CASE s = "javascript-extraction"
  <2>1. d = "http" \/ (Resolves(options) /\ d = "discovered-http")
    BY <1>5 DEF Dependencies
  <2>2. d \in StagesListed(options)
    BY <2>1 DEF StagesListed
  <2> QED BY <1>5, <2>1, <2>2, PlacesAre
<1>6. CASE s = "javascript-bundles"
  <2>1. "bundles" \in options /\ d = "javascript-extraction"
    BY <1>6 DEF StagesListed, Dependencies
  <2>2. d \in StagesListed(options)
    BY <2>1 DEF StagesListed
  <2> QED BY <1>6, <2>1, <2>2, PlacesAre
<1>7. CASE s \notin {"http", "vhost-discovery", "directory-discovery", "discovered-http",
                     "javascript-extraction", "javascript-bundles"}
  BY <1>7 DEF Dependencies
<1> QED BY <1>2, <1>3, <1>4, <1>5, <1>6, <1>7

LEMMA SourcesTaken ==
  ASSUME NEW s, NEW d \in Sources(s)
  PROVE  PlaceOf(d) < PlaceOf(s)
<1>1. CASE s \in {"discovered-dns", "vhost-discovery"}
  BY <1>1, PlacesAre DEF Sources
<1>2. CASE s = "discovered-http"
  BY <1>2, PlacesAre DEF Sources
<1>3. CASE s \in {"httpx-fingerprint", "javascript-extraction", "javascript-bundles"}
  BY <1>3, PlacesAre DEF Sources
<1>4. CASE s \notin {"discovered-dns", "vhost-discovery", "discovered-http", "httpx-fingerprint",
                     "javascript-extraction", "javascript-bundles"}
  BY <1>4 DEF Sources
<1> QED BY <1>1, <1>2, <1>3, <1>4

\* The runner's list is in order as it is.
LEMMA ListInOrder ==
  ASSUME NEW options
  PROVE  LET listed == ListedStages(options)
             deps == [s \in Range(listed) |-> Dependencies(options, s)]
         IN  /\ IsList(listed, StagesListed(options)) /\ InOrder(listed, deps)
             /\ \A i, j \in DOMAIN listed : listed[i] \in Sources(listed[j]) => i < j
<1> DEFINE listed == ListedStages(options)
           R == StagesListed(options)
           deps == [s \in Range(listed) |-> Dependencies(options, s)]
<1>1. /\ listed \in Seq(R) /\ Range(listed) = R
      /\ \A i, j \in DOMAIN listed : i < j => PlaceOf(listed[i]) < PlaceOf(listed[j])
      /\ \A s \in R : PlaceOf(s) \in 0 .. 13
  BY StagesClimb DEF Climbs
<1>2. \A s \in R : \A d \in deps[s] : d \in R /\ PlaceOf(d) < PlaceOf(s)
  BY <1>1, DependedOn
<1> HIDE DEF listed, R, deps
<1>3. DOMAIN listed = 1 .. Len(listed) /\ Len(listed) \in Nat /\ \A i \in DOMAIN listed : listed[i] \in R
  BY <1>1
<1>4. ASSUME NEW i \in DOMAIN listed, NEW j \in DOMAIN listed, PlaceOf(listed[i]) < PlaceOf(listed[j])
      PROVE  i < j
  <2>1. i = j \/ i < j \/ j < i
    BY <1>3
  <2>2. PlaceOf(listed[i]) \in 0 .. 13 /\ PlaceOf(listed[j]) \in 0 .. 13
    BY <1>1, <1>3
  <2>3. ~(j < i)
    BY <1>1, <1>4, <2>2, SMTT(30)
  <2> QED BY <1>4, <2>1, <2>2, <2>3
<1>5. ASSUME NEW i \in DOMAIN listed, NEW j \in DOMAIN listed, listed[i] = listed[j] PROVE i = j
  <2>1. i = j \/ i < j \/ j < i
    BY <1>3
  <2>2. PlaceOf(listed[i]) \in 0 .. 13 /\ PlaceOf(listed[j]) = PlaceOf(listed[i])
    BY <1>1, <1>3, <1>5
  <2> QED BY <1>1, <2>1, <2>2
<1>6. ASSUME NEW i \in DOMAIN listed, NEW d \in deps[listed[i]] PROVE d \in {listed[j] : j \in 1 .. i - 1}
  <2>1. d \in R /\ PlaceOf(d) < PlaceOf(listed[i])
    BY <1>2, <1>3
  <2>2. PICK j \in DOMAIN listed : listed[j] = d
    BY <1>1, <2>1 DEF Range
  <2>3. j < i
    BY <1>4, <2>1, <2>2
  <2> QED BY <1>3, <2>2, <2>3
<1>7. IsList(listed, R) /\ InOrder(listed, deps)
  BY <1>1, <1>5, <1>6 DEF IsList, InOrder
<1>8. ASSUME NEW i \in DOMAIN listed, NEW j \in DOMAIN listed, listed[i] \in Sources(listed[j]) PROVE i < j
  BY <1>4, <1>8, SourcesTaken
<1> QED BY <1>7, <1>8 DEF listed, R, deps

LEMMA ProducersAreFirst == ProducersFirst
<1> SUFFICES ASSUME NEW options \in SUBSET Option
             PROVE  LET listed  == ListedStages(options)
                        deps  == [s \in Range(listed) |-> Dependencies(options, s)]
                        order == Ordered(listed, deps)
                    IN  /\ ~Unorderable(listed, deps)
                        /\ \A i, j \in DOMAIN order : order[i] \in Sources(order[j]) => i < j
  BY DEF ProducersFirst
<1> DEFINE listed == ListedStages(options)
           deps == [s \in Range(listed) |-> Dependencies(options, s)]
<1>1. /\ IsList(listed, StagesListed(options)) /\ InOrder(listed, deps)
      /\ \A i, j \in DOMAIN listed : listed[i] \in Sources(listed[j]) => i < j
  BY ListInOrder
<1> HIDE DEF listed, deps
<1>2. Ordered(listed, deps) = listed /\ ~Unorderable(listed, deps)
  BY <1>1, ListedOrderStays
<1>3. /\ ~Unorderable(listed, deps)
      /\ \A i, j \in DOMAIN Ordered(listed, deps) :
           Ordered(listed, deps)[i] \in Sources(Ordered(listed, deps)[j]) => i < j
  BY <1>1, <1>2
<1> QED BY <1>3 DEF listed, deps

(***************************************************************************)
(* Whatever is switched on, the runner's list is in order as it stands: it *)
(* can be run, and every stage comes after those whose discoveries it      *)
(* takes (scan_runner.py 344-535, scheduler.py 71-100).                    *)
(***************************************************************************)
THEOREM ProducersRunFirst == Spec => []ConsumersAfterProducers
<1>1. ConsumersAfterProducers
  BY ProducersAreFirst DEF ConsumersAfterProducers
<1> QED BY <1>1, PTL

-----------------------------------------------------------------------------
(* What is declared, recorded and run.                                     *)

Resolving == {"discovered-dns", "discovered-http"}

\* The three lists, stage by stage.
IsRun(command, s) ==
  \/ s \in {"dns", "http"}
  \/ s = "ct" /\ command.sources # {}
  \/ s = "subfinder" /\ "sub" \in Asked(command)
  \/ s = "vhost-discovery" /\ "vhosts" \in Asked(command)
  \/ s = "directory-discovery" /\ "directories" \in Asked(command)
  \/ s = "url-history" /\ "history" \in Asked(command)
  \/ s = "katana" /\ "katana" \in Asked(command)
  \/ s \in Resolving /\ \/ Asked(command) \cap {"sub", "resolve"} # {}
                        \/ "hosts" \in Asked(command) /\ command.named
  \/ s = "javascript-extraction" /\ Asked(command) \cap {"js", "bundles"} # {}
  \/ s = "javascript-bundles" /\ "bundles" \in Asked(command)
  \/ s = "httpx-fingerprint" /\ "httpx" \in Asked(command)

IsPlanned(command, s) ==
  \/ s \in {"dns", "http", "ct"}
  \/ s = "subfinder" /\ "sub" \in Asked(command)
  \/ s = "vhost-discovery" /\ "vhosts" \in Asked(command)
  \/ s = "directory-discovery" /\ "directories" \in Asked(command)
  \/ s = "url-history" /\ "history" \in Asked(command)
  \/ s = "katana" /\ "katana" \in Asked(command)
  \/ s \in Resolving /\ Asked(command) \cap {"sub", "resolve"} # {}
  \/ s = "javascript-extraction" /\ "js" \in Asked(command)
  \/ s = "javascript-bundles" /\ "bundles" \in Asked(command)
  \/ s = "httpx-fingerprint" /\ "httpx" \in Asked(command)

IsRecorded(command, s) ==
  \/ s \in {"dns", "http", "ct"}
  \/ s = "subfinder" /\ "sub" \in Asked(command)
  \/ s = "vhost-discovery" /\ "vhosts" \in Asked(command)
  \/ s = "directory-discovery" /\ "directories" \in Asked(command)
  \/ s = "url-history" /\ "history" \in Asked(command)
  \/ s = "katana" /\ "katana" \in Asked(command)
  \/ s \in Resolving /\ Asked(command) \cap {"sub", "resolve", "hosts"} # {}
  \/ s = "javascript-extraction" /\ Asked(command) \cap {"js", "bundles"} # {}
  \/ s = "javascript-bundles" /\ "bundles" \in Asked(command)
  \/ s = "httpx-fingerprint" /\ "httpx" \in Asked(command)

LEMMA OptionsAre ==
  ASSUME NEW command \in Command
  PROVE  /\ "ct" \notin Asked(command)
         /\ \A f : f \in Options(command) <=>
              \/ f \in Asked(command) /\ (f # "hosts" \/ command.named)
              \/ f = "ct" /\ command.sources # {}
<1>1. "ct" \notin Asked(command)
  BY DEF Asked, Command
<1> HIDE DEF Asked
<1>2. ASSUME NEW f
      PROVE  f \in Options(command) <=> \/ f \in Asked(command) /\ (f # "hosts" \/ command.named)
                                        \/ f = "ct" /\ command.sources # {}
  BY DEF Options
<1> QED BY <1>1, <1>2

LEMMA RunsAre ==
  ASSUME NEW command \in Command
  PROVE  \A s : s \in Runs(command) <=> IsRun(command, s)
<1>1. Runs(command) = StagesListed(Options(command))
  BY StagesClimb DEF Climbs, Runs
<1>2. /\ "ct" \notin Asked(command)
      /\ \A f : f \in Options(command) <=>
              \/ f \in Asked(command) /\ (f # "hosts" \/ command.named)
              \/ f = "ct" /\ command.sources # {}
  BY OptionsAre
<1> DEFINE o == Options(command)
           a == Asked(command)
<1>3. /\ "ct" \in o <=> command.sources # {}
      /\ \A f \in {"sub", "vhosts", "directories", "history", "katana", "resolve", "js", "bundles", "httpx"} :
           f \in o <=> f \in a
      /\ "hosts" \in o <=> "hosts" \in a /\ command.named
  BY <1>2
<1> HIDE DEF o, a
<1>4. Resolves(o) <=> \/ a \cap {"sub", "resolve"} # {}
                      \/ "hosts" \in a /\ command.named
  BY <1>3 DEF Resolves
<1>5. o \cap {"js", "bundles"} # {} <=> a \cap {"js", "bundles"} # {}
  BY <1>3
<1>6. ASSUME NEW s PROVE s \in StagesListed(o) <=> IsRun(command, s)
  BY <1>3, <1>4, <1>5 DEF StagesListed, IsRun, Resolving, a
<1> QED BY <1>1, <1>6 DEF o

LEMMA PlanFlagsAre ==
  ASSUME NEW command \in Command
  PROVE  /\ PlanFlags(command) = Asked(command) \cap DOMAIN Expansion
         /\ DOMAIN Expansion = {"sub", "resolve", "httpx", "history", "js", "bundles", "katana",
                                "vhosts", "directories"}
  BY DEF PlanFlags, ResolvedFlags, Expansion

LEMMA PlannedAre ==
  ASSUME NEW command \in Command
  PROVE  \A s : s \in Planned(command) <=> IsPlanned(command, s)
<1> DEFINE a == Asked(command)
<1>1. SUFFICES ASSUME NEW s PROVE s \in Planned(command) <=> IsPlanned(command, s)
  OBVIOUS
<1>2. s \in Planned(command) <=>
        s \in {"dns", "http", "ct"} \/ \E f \in a \cap DOMAIN Expansion : s \in Expansion[f]
  BY PlanFlagsAre DEF Planned
<1>3. /\ Expansion["sub"] = {"subfinder"} \cup Resolving /\ Expansion["resolve"] = Resolving
      /\ Expansion["httpx"] = {"httpx-fingerprint"} /\ Expansion["history"] = {"url-history"}
      /\ Expansion["js"] = {"javascript-extraction"} /\ Expansion["bundles"] = {"javascript-bundles"}
      /\ Expansion["katana"] = {"katana"} /\ Expansion["vhosts"] = {"vhost-discovery"}
      /\ Expansion["directories"] = {"directory-discovery"}
  BY DEF Expansion, Resolving
<1>4. DOMAIN Expansion = {"sub", "resolve", "httpx", "history", "js", "bundles", "katana",
                          "vhosts", "directories"}
  BY PlanFlagsAre
<1> HIDE DEF a
<1>5. (\E f \in a \cap DOMAIN Expansion : s \in Expansion[f]) <=>
        \/ "sub" \in a /\ s \in {"subfinder"} \cup Resolving
        \/ "resolve" \in a /\ s \in Resolving
        \/ "httpx" \in a /\ s = "httpx-fingerprint"
        \/ "history" \in a /\ s = "url-history"
        \/ "js" \in a /\ s = "javascript-extraction"
        \/ "bundles" \in a /\ s = "javascript-bundles"
        \/ "katana" \in a /\ s = "katana"
        \/ "vhosts" \in a /\ s = "vhost-discovery"
        \/ "directories" \in a /\ s = "directory-discovery"
  BY <1>3, <1>4
<1> QED BY <1>2, <1>5 DEF IsPlanned, a

LEMMA RecordedAre ==
  ASSUME NEW command \in Command
  PROVE  \A s : s \in RecordedStages(command) <=> IsRecorded(command, s)
<1> DEFINE a == Asked(command)
<1> SUFFICES ASSUME NEW s PROVE s \in RecordedStages(command) <=> IsRecorded(command, s)
  OBVIOUS
<1> HIDE DEF a
<1> QED BY DEF RecordedStages, IsRecorded, Resolving, a

\* The tools: their names are the adapters', but for two.
LEMMA ToolsAre ==
  ASSUME NEW command \in Command
  PROVE  /\ {RequiredTool(s) : s \in Runs(command)} \ {"none"} = NeededTools(command)
         /\ NeededTools(command) = PlannedTools(command)
<1> DEFINE a == Asked(command)
           Tool(t) == \/ t = "subfinder" /\ "sub" \in a
                      \/ t = "katana" /\ "katana" \in a
                      \/ t = "httpx" /\ "httpx" \in a
                      \/ t = "waybackurls" /\ "history" \in a
           ToolOf(f) == CASE f = "sub" -> "subfinder" [] f = "history" -> "waybackurls" [] OTHER -> f
<1>1. /\ RequiredTool("subfinder") = "subfinder" /\ RequiredTool("katana") = "katana"
      /\ RequiredTool("httpx-fingerprint") = "httpx" /\ RequiredTool("url-history") = "waybackurls"
      /\ \A s : s \notin {"subfinder", "katana", "httpx-fingerprint", "url-history"} => RequiredTool(s) = "none"
  BY DEF RequiredTool
<1>2. ASSUME NEW t PROVE t \in {RequiredTool(s) : s \in Runs(command)} \ {"none"} <=> Tool(t)
  <2>1. \A s : s \in Runs(command) <=> IsRun(command, s)
    BY RunsAre
  <2>2. ASSUME t # "none", NEW s, IsRun(command, s), t = RequiredTool(s) PROVE Tool(t)
    <3>1. s \in {"subfinder", "katana", "httpx-fingerprint", "url-history"}
      BY <1>1, <2>2
    <3> QED BY <1>1, <2>2, <3>1 DEF IsRun, Resolving
  <2>3. ASSUME Tool(t) PROVE t # "none" /\ \E s : IsRun(command, s) /\ t = RequiredTool(s)
    <3>1. CASE t = "subfinder"
      BY <1>1, <2>3, <3>1 DEF IsRun
    <3>2. CASE t = "katana"
      BY <1>1, <2>3, <3>2 DEF IsRun
    <3>3. CASE t = "httpx"
      BY <1>1, <2>3, <3>3 DEF IsRun
    <3>4. CASE t = "waybackurls"
      BY <1>1, <2>3, <3>4 DEF IsRun
    <3> QED BY <2>3, <3>1, <3>2, <3>3, <3>4
  <2> HIDE DEF Tool
  <2> QED BY <2>1, <2>2, <2>3
<1>3. ASSUME NEW t PROVE t \in PlannedTools(command) <=> Tool(t)
  <2>1. \A s : s \in Planned(command) <=> IsPlanned(command, s)
    BY PlannedAre
  <2>2. ASSUME t # "none", NEW s, IsPlanned(command, s), t = RequiredTool(s) PROVE Tool(t)
    <3>1. s \in {"subfinder", "katana", "httpx-fingerprint", "url-history"}
      BY <1>1, <2>2
    <3> QED BY <1>1, <2>2, <3>1 DEF IsPlanned, Resolving
  <2>3. ASSUME Tool(t) PROVE t # "none" /\ \E s : IsPlanned(command, s) /\ t = RequiredTool(s)
    <3>1. CASE t = "subfinder"
      BY <1>1, <2>3, <3>1 DEF IsPlanned
    <3>2. CASE t = "katana"
      BY <1>1, <2>3, <3>2 DEF IsPlanned
    <3>3. CASE t = "httpx"
      BY <1>1, <2>3, <3>3 DEF IsPlanned
    <3>4. CASE t = "waybackurls"
      BY <1>1, <2>3, <3>4 DEF IsPlanned
    <3> QED BY <2>3, <3>1, <3>2, <3>3, <3>4
  <2> HIDE DEF Tool
  <2> QED BY <2>1, <2>2, <2>3 DEF PlannedTools
<1>4. ASSUME NEW t PROVE t \in NeededTools(command) <=> Tool(t)
  <2>1. \A f \in {"sub", "httpx", "history", "katana"} : f \in Options(command) <=> f \in a
    BY OptionsAre
  <2>2. /\ ToolOf("sub") = "subfinder" /\ ToolOf("history") = "waybackurls"
        /\ ToolOf("httpx") = "httpx" /\ ToolOf("katana") = "katana"
    OBVIOUS
  <2>3. NeededTools(command) = {ToolOf(f) : f \in Options(command) \cap {"sub", "httpx", "history", "katana"}}
    BY DEF NeededTools
  <2> HIDE DEF a, ToolOf
  <2> QED BY <2>1, <2>2, <2>3
<1> HIDE DEF Tool
<1> QED BY <1>2, <1>3, <1>4

\* The third parties, one by one.
IsTold(command, x) ==
  \/ x \in command.sources
  \/ x = Resolver
  \/ x = "subfinder passive sources" /\ "sub" \in Asked(command)
  \/ x = "web.archive.org" /\ "history" \in Asked(command)

LEMMA ManifestIs ==
  /\ Manifest("subfinder") = {"subfinder passive sources"}
  /\ Manifest("url-history") = {"web.archive.org"}
  /\ \A s : s \notin {"subfinder", "url-history"} => Manifest(s) = {}
BY DEF Manifest

LEMMA ToldAre ==
  ASSUME NEW command \in Command
  PROVE  \A x : x \in ToldServices(command) <=> IsTold(command, x)
<1>1. /\ "subfinder" \in Runs(command) <=> "sub" \in Asked(command)
      /\ "url-history" \in Runs(command) <=> "history" \in Asked(command)
  BY RunsAre DEF IsRun, Resolving
<1>2. \A x : (\E s \in Runs(command) : x \in Manifest(s)) <=>
            \/ x = "subfinder passive sources" /\ "sub" \in Asked(command)
            \/ x = "web.archive.org" /\ "history" \in Asked(command)
  BY <1>1, ManifestIs
<1> QED BY <1>2 DEF ToldServices, IsTold

LEMMA DisclosedAre ==
  ASSUME NEW command \in Command
  PROVE  \A x : x \in DisclosedServices(command) <=> IsTold(command, x)
<1> DEFINE Adapter(f) == CASE f = "sub" -> "subfinder" [] f = "history" -> "url-history"
                           [] f = "httpx" -> "httpx-fingerprint" [] OTHER -> f
           used == Adapters(command)
<1>1. /\ Adapter("sub") = "subfinder" /\ Adapter("history") = "url-history"
      /\ Adapter("httpx") = "httpx-fingerprint" /\ Adapter("katana") = "katana"
  OBVIOUS
<1>2. /\ used \subseteq {"sub", "history", "katana", "httpx"}
      /\ "sub" \in used <=> "sub" \in Asked(command)
      /\ "history" \in used <=> "history" \in Asked(command)
  BY DEF Adapters
<1>3. DisclosedServices(command) =
        command.sources \cup {Resolver} \cup (UNION {Manifest(Adapter(f)) : f \in used})
  BY DEF DisclosedServices
<1> HIDE DEF Adapter, used
<1>4. \A x : (\E f \in used : x \in Manifest(Adapter(f))) <=>
            \/ x = "subfinder passive sources" /\ "sub" \in Asked(command)
            \/ x = "web.archive.org" /\ "history" \in Asked(command)
  BY <1>1, <1>2, ManifestIs
<1>5. ASSUME NEW x PROVE x \in DisclosedServices(command) <=> IsTold(command, x)
  <2>1. x \in DisclosedServices(command) <=>
          x \in command.sources \/ x = Resolver \/ \E f \in used : x \in Manifest(Adapter(f))
    BY <1>3
  <2> QED BY <1>4, <2>1 DEF IsTold
<1> QED BY <1>5

LEMMA AllDeclared == Declared
<1> SUFFICES ASSUME NEW command \in Command
             PROVE  /\ DisclosedServices(command) = ToldServices(command)
                    /\ {RequiredTool(s) : s \in Runs(command)} \ {"none"} = NeededTools(command)
                    /\ PlannedTools(command) = NeededTools(command)
                    /\ Runs(command) \subseteq RecordedStages(command)
  BY DEF Declared
<1>1. DisclosedServices(command) = ToldServices(command)
  BY ToldAre, DisclosedAre
<1>2. Runs(command) \subseteq RecordedStages(command)
  <2>1. ASSUME NEW s, IsRun(command, s) PROVE IsRecorded(command, s)
    BY <2>1 DEF IsRun, IsRecorded
  <2> QED BY <2>1, RunsAre, RecordedAre
<1> QED BY <1>1, <1>2, ToolsAre

(***************************************************************************)
(* For every command, a scan names before its first stage the third        *)
(* parties that its ledger names once all its stages have run, looks for   *)
(* the tools that these and the planned stages need, and records every     *)
(* stage it runs (scan_runner.py 214-268, 344-535 and 553-579,             *)
(* stat_report.py 351-422, disclosure.py 100-217).                         *)
(***************************************************************************)
THEOREM ScansAreDeclared == Spec => []ScanDeclared
<1>1. ScanDeclared
  BY AllDeclared DEF ScanDeclared
<1> QED BY <1>1, PTL

-----------------------------------------------------------------------------
(***************************************************************************)
(* Whatever the sizes of the inputs and the limits, exactly as much is     *)
(* kept as a bound allows, and what is preferred is                        *)
(* (discovered_dns_plugin.py 155-187, url_history.py 11-63,                *)
(* directory_discovery.py 34-70 and 187-218, http.py 204-226).  MaxLength  *)
(* and MaxLimit are any numbers, so the bounds of the run are none here.   *)
(***************************************************************************)
THEOREM BoundsAreKept == Spec => []BoundsKept
<1>1. WithinBounds
  BY BoundsAssumption, AllWithinBounds
<1>2. BoundsKept
  BY <1>1 DEF BoundsKept
<1> QED BY <1>2, PTL
=============================================================================
