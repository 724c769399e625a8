----------------------------- MODULE DeployProofs -----------------------------
(***************************************************************************)
(* Proofs about Deploy, for any number of droplets, records, services,     *)
(* retries and faults, and whatever the zone holds at first.               *)
(*                                                                         *)
(* NamesPointHere is the end of an argument by phases (Pointing): before   *)
(* the updates a run holds the list of the records that concern it;        *)
(* between them the records it is done with name its droplet; while        *)
(* records are created, those of the list are all done, and every key      *)
(* before the next one has a record. A call repeated after it had taken    *)
(* effect only adds records of the same data. SecondAskedFor needs that    *)
(* droplets are born in order and that a run which makes one unasked has   *)
(* seen none (Births). ExitMeansServed needs what a run has uploaded and   *)
(* started to stay as it was until the run ends (Served).                  *)
(* NoNeedlessRecords: a key that was not in the list has no record until   *)
(* its turn comes, and then one for each failed try at most (Wasted).      *)
(****************************************************************************)
EXTENDS Deploy, FiniteSetTheorems, SequenceTheorems, TLAPS, WellFoundedInduction

\* Droplets are born in order; a run that makes one unasked has seen none.
Births ==
  /\ \E n \in 1 .. MaxDroplets + 1 : Unborn = n .. MaxDroplets
  /\ pc = "create" /\ run.kind # "create" => Live = {}
  /\ SecondAskedFor

\* What the script's variables refer to exists: its droplet, which the file names
\* from the DNS phase on, and the records of its list.
Located ==
  /\ pc \in {"address", "boot", "list", "ipv6", "update", "fill"} \cup AfterDns =>
       run.drop \in Droplets
  /\ pc \in {"list", "ipv6", "update", "fill"} \cup AfterDns => file = run.drop
  /\ pc \in {"locate", "create"} => run.kind \in Kinds
  /\ pc \in {"ipv6", "update"} => run.left \subseteq Used

\* Records of the zone; those that a run has to point at its droplet.
Entries == [type : {"A", "AAAA"}, name : Names, data : Droplets \cup {0}]

Concerns(i) == i \in Used /\ Tracked(zone[i]) /\ (zone[i].type = "AAAA" => run.six)

Has(k) == \E i \in Used : Key(zone[i]) = k

\* How far the DNS phase has come.
Pointing ==
  /\ pc \in {"ipv6", "update", "fill"} => \A k \in run.have : Has(k)
  /\ pc = "ipv6" => \A i \in Used : Tracked(zone[i]) => i \in run.left
  /\ pc = "update" /\ ~run.dry =>
       \A i \in Records : Concerns(i) => i \in run.left \/ zone[i].data = run.drop
  /\ pc \in {"fill"} \cup AfterDns /\ ~run.dry =>
       \A i \in Records : Concerns(i) => zone[i].data = run.drop
  /\ pc = "fill" /\ ~run.dry =>
       \A n \in DOMAIN Wanted : n < run.next /\ (Wanted[n][1] = "AAAA" => run.six)
         => Has(Wanted[n])
  /\ pc \in AfterDns /\ ~run.dry =>
       \A n \in DOMAIN Wanted : (Wanted[n][1] = "AAAA" => run.six) => Has(Wanted[n])
  /\ pc \in {"update", "fill"} \cup AfterDns => (WaitIpv6 => run.six)

\* No record is due before the records of the list are done.
Counted == pc \notin {"fill"} \cup AfterDns => run.next = 1

\* Once uploaded, and once started, until the run ends.
Served ==
  /\ pc \in {"reboot", "start", "test", "verify", "local", "done"} =>
       host[run.drop].env = "new"
  /\ pc \in {"test", "verify", "local", "done"} =>
       /\ host[run.drop].up = [code |-> host[run.drop].code, env |-> "new"]
       /\ host[run.drop].code # "none"

Inv == TypeOK /\ Births /\ Located /\ Counted /\ Pointing /\ Served

-----------------------------------------------------------------------------
\* Least and Greatest choose a member.
LEMMA LeastIn ==
  ASSUME NEW S, S \subseteq Nat, S # {}
  PROVE  Least(S) \in S /\ \A y \in S : Least(S) <= y
<1> DEFINE R == {ss \in Nat \X Nat : ss[1] < ss[2]}
<1>1. IsWellFoundedOn(R, Nat)
  BY NatLessThanWellFounded DEF OpToRel
<1>2. \E x \in S : \A y \in S : x <= y
  <2>1. \E x \in S : \A y \in S : ~(<<y, x>> \in R)
    <3> HIDE DEF R
    <3> QED
      BY <1>1, WFMin
  <2>2. PICK x \in S : \A y \in S : ~(<<y, x>> \in R)
    BY <2>1
  <2>3. ASSUME NEW y \in S PROVE x <= y
    <3>1. <<y, x>> \in Nat \X Nat /\ <<y, x>> \notin R
      BY <2>2
    <3>2. ~(y < x)
      BY <3>1
    <3> QED
      BY <3>2
  <2> QED
    BY <2>3
<1> QED
  BY <1>2 DEF Least

LEMMA GreatestIn ==
  ASSUME NEW n \in Nat, NEW S, S \subseteq 1 .. n, S # {}
  PROVE  Greatest(S) \in S
<1> DEFINE T == {x \in 0 .. n : n - x \in S}
<1>1. T \subseteq Nat /\ T # {}
  <2>1. PICK y \in S : TRUE
    OBVIOUS
  <2>2. n - y \in 0 .. n /\ n - (n - y) = y
    BY <2>1
  <2>3. n - y \in T
    BY <2>1, <2>2
  <2>4. T # {}
    <3> HIDE DEF T
    <3> QED
      BY <2>3
  <2> QED
    BY <2>4
<1>2. \E x \in T : \A y \in T : x <= y
  <2> HIDE DEF T
  <2> QED
    BY <1>1, LeastIn
<1>3. PICK x \in T : \A y \in T : x <= y
  BY <1>2
<1>4. \A z \in S : n - x >= z
  <2> SUFFICES ASSUME NEW z \in S PROVE n - x >= z
    OBVIOUS
  <2>1. n - z \in T
    OBVIOUS
  <2> QED
    BY <1>3, <2>1
<1> QED
  BY <1>3, <1>4 DEF Greatest

\* The number of tries is bounded by that of either kind of call.
LEMMA MostTries ==
  /\ Greatest({Retries, 2}) \in Nat
  /\ Retries <= Greatest({Retries, 2})
  /\ 2 <= Greatest({Retries, 2})
<1> USE BoundAssumption
<1>1. \E x \in {Retries, 2} : \A y \in {Retries, 2} : x >= y
  <2>1. CASE Retries >= 2
    BY <2>1
  <2>2. CASE ~(Retries >= 2)
    BY <2>2
  <2> QED
    BY <2>1, <2>2
<1> QED
  BY <1>1 DEF Greatest

\* The records that a run may create are of its names.
LEMMA WantedKeys == Wanted \in Seq(Keys)
<1> DEFINE f == [n \in 1 .. 2 * Len(Services) |->
                   <<IF n % 2 = 1 THEN "A" ELSE "AAAA", Services[(n + 1) \div 2]>>]
<1>1. Len(Services) \in Nat /\ \A i \in 1 .. Len(Services) : Services[i] \in Names
  BY NamesAssumption
<1>2. ASSUME NEW n \in 1 .. 2 * Len(Services) PROVE f[n] \in Keys
  <2>1. (n + 1) \div 2 \in 1 .. Len(Services)
    BY <1>1
  <2> QED
    BY <1>1, <2>1 DEF Keys
<1>3. f \in Seq(Keys)
  <2>1. f \in [1 .. 2 * Len(Services) -> Keys]
    BY <1>2
  <2>2. 2 * Len(Services) \in Nat
    BY <1>1
  <2> QED
    BY <2>1, <2>2, SeqDef
<1>4. <<"A", Root>> \in Keys /\ <<"A", Www>> \in Keys /\ <<"AAAA", Root>> \in Keys
  <2>1. Root \in Names
    BY NamesAssumption DEF Root
  <2>2. Www \in Names
    BY NamesAssumption DEF Www
  <2>3. ASSUME NEW a \in {"A", "AAAA"}, NEW b \in Names PROVE <<a, b>> \in Keys
    BY DEF Keys
  <2> HIDE DEF Keys
  <2> QED
    BY <2>1, <2>2, <2>3
<1>5. <<<<"A", Root>>, <<"A", Www>>, <<"AAAA", Root>>>> \in Seq(Keys)
  <2> HIDE DEF Keys
  <2> QED
    BY <1>4
<1>6. Wanted = <<<<"A", Root>>, <<"A", Www>>, <<"AAAA", Root>>>> \o f
  BY DEF Wanted
<1> HIDE DEF f, Keys
<1> QED
  BY <1>3, <1>5, <1>6

\* What the script does to its variables keeps their types.
LEMMA RunUpdated ==
  ASSUME NEW r \in Runs
  PROVE  /\ r.drop \in Droplets \cup {None} /\ r.kind \in Kinds \cup {None}
         /\ r.dry \in BOOLEAN /\ r.fresh \in BOOLEAN /\ r.six \in BOOLEAN
         /\ r.left \in SUBSET Records /\ r.have \in SUBSET Keys
         /\ r.next \in 1 .. Len(Wanted) + 1
         /\ [r EXCEPT !.tries = 0] \in Runs
         /\ \A max \in {Retries, 2} :
              r.tries + 1 < max => [r EXCEPT !.tries = @ + 1] \in Runs
         /\ \A d \in Droplets : [r EXCEPT !.drop = d, !.kind = None] \in Runs
         /\ [r EXCEPT !.fresh = TRUE] \in Runs
         /\ \A S \in SUBSET Records :
              /\ [r EXCEPT !.left = S] \in Runs
              /\ [r EXCEPT !.left = S, !.tries = 0] \in Runs
              /\ \A K \in SUBSET Keys : [r EXCEPT !.left = S, !.have = K, !.tries = 0] \in Runs
              /\ \A b \in BOOLEAN : [r EXCEPT !.six = b, !.tries = 0, !.left = S] \in Runs
         /\ r.next <= Len(Wanted) =>
              /\ [r EXCEPT !.next = @ + 1] \in Runs
              /\ [r EXCEPT !.next = @ + 1, !.tries = 0] \in Runs
<1> DEFINE L == Len(Wanted)
           G == Greatest({Retries, 2})
<1>1. L \in Nat
  BY WantedKeys
<1>2. G \in Nat /\ Retries <= G /\ 2 <= G /\ Retries \in Nat
  BY MostTries, BoundAssumption
<1>3. Runs = [kind : Kinds \cup {None}, dry : BOOLEAN, fresh : BOOLEAN,
              drop : Droplets \cup {None}, six : BOOLEAN, left : SUBSET Records,
              have : SUBSET Keys, next : 1 .. L + 1, tries : 0 .. G - 1]
  BY DEF Runs
<1> HIDE DEF L, G
<1>4. r.tries \in 0 .. G - 1 /\ r.next \in 1 .. L + 1
  BY <1>3
<1>5. \A max \in {Retries, 2} : r.tries + 1 < max => r.tries + 1 \in 0 .. G - 1
  BY <1>2, <1>4
<1>6. 0 \in 0 .. G - 1
  BY <1>2
<1>7. r.next <= L => r.next + 1 \in 1 .. L + 1
  BY <1>1, <1>4
<1>8. /\ r.drop \in Droplets \cup {None} /\ r.kind \in Kinds \cup {None}
      /\ r.dry \in BOOLEAN /\ r.fresh \in BOOLEAN /\ r.six \in BOOLEAN
      /\ r.left \in SUBSET Records /\ r.have \in SUBSET Keys
      /\ r.next \in 1 .. Len(Wanted) + 1
  BY <1>3, <1>4 DEF L
<1>9. \A max \in {Retries, 2} :
        r.tries + 1 < max => [r EXCEPT !.tries = @ + 1] \in Runs
  BY <1>3, <1>5
<1>10. /\ [r EXCEPT !.tries = 0] \in Runs
       /\ \A d \in Droplets : [r EXCEPT !.drop = d, !.kind = None] \in Runs
       /\ [r EXCEPT !.fresh = TRUE] \in Runs
  BY <1>3, <1>6
<1>11. ASSUME NEW S \in SUBSET Records
       PROVE  /\ [r EXCEPT !.left = S] \in Runs
              /\ [r EXCEPT !.left = S, !.tries = 0] \in Runs
              /\ \A K \in SUBSET Keys : [r EXCEPT !.left = S, !.have = K, !.tries = 0] \in Runs
              /\ \A b \in BOOLEAN : [r EXCEPT !.six = b, !.tries = 0, !.left = S] \in Runs
  BY <1>3, <1>6
<1>12. r.next <= L => /\ [r EXCEPT !.next = @ + 1] \in Runs
                      /\ [r EXCEPT !.next = @ + 1, !.tries = 0] \in Runs
  BY <1>3, <1>6, <1>7
<1> QED
  BY <1>8, <1>9, <1>10, <1>11, <1>12 DEF L

\* Those that it starts with are of these types as well.
LEMMA Started ==
  /\ NoRun \in Runs
  /\ \A kind \in Kinds, dry \in BOOLEAN, b \in BOOLEAN :
       [NoRun EXCEPT !.kind = kind, !.dry = dry, !.fresh = b] \in Runs
<1> DEFINE L == Len(Wanted)
           G == Greatest({Retries, 2})
<1>1. 1 \in 1 .. L + 1 /\ 0 \in 0 .. G - 1
  BY WantedKeys, MostTries
<1> HIDE DEF L, G
<1>2. Runs = [kind : Kinds \cup {None}, dry : BOOLEAN, fresh : BOOLEAN,
              drop : Droplets \cup {None}, six : BOOLEAN, left : SUBSET Records,
              have : SUBSET Keys, next : 1 .. L + 1, tries : 0 .. G - 1]
  BY DEF Runs, L, G
<1> QED
  BY <1>1, <1>2 DEF NoRun

-----------------------------------------------------------------------------
\* The few actions that change each variable.
LEMMA Touched ==
  ASSUME [Next]_vars
  PROVE  /\ \/ UNCHANGED droplet
            \/ Create \/ Destroy
            \/ \E d \in Droplets : Activate(d) \/ \E a \in {"v4", "v6"} : Assign(d, a)
         /\ UNCHANGED zone \/ UpdateRecord \/ CreateRecord \/ Clean
         /\ \/ UNCHANGED host
            \/ Sync \/ Upload \/ StartServices \/ Destroy \/ Change
            \/ \E d \in Droplets : CloudClone(d)
         /\ UNCHANGED file \/ RecordAddress
         /\ UNCHANGED faults \/ Fault
         /\ \/ UNCHANGED <<pc, run>>
            \/ \E kind \in Kinds, dry \in Dry : Start(kind, dry)
            \/ RunStep \/ Abort
            \/ \E d \in Droplets : CloudFinish(d)
<1> USE DEF cloud
<1>1. ASSUME RunStep
      PROVE  /\ UNCHANGED droplet \/ Create \/ Destroy
             /\ UNCHANGED zone \/ UpdateRecord \/ CreateRecord \/ Clean
             /\ UNCHANGED host \/ Sync \/ Upload \/ StartServices \/ Destroy
             /\ UNCHANGED file \/ RecordAddress
             /\ UNCHANGED faults \/ Fault
  BY <1>1 DEF RunStep, Locate, Create, RecordAddress, ListRecords, ReadIpv6, UpdateRecord,
     UpdatesDone, CreateRecord, SkipRecord, RecordsDone, Marker, Connect, Sync, Upload,
     PostReboot, StartServices, RemoteTests, Verify, LocalTests, Exit, Destroy, Clean,
     ApiCall, Remote, Attempt, Again
<1>2. ASSUME NEW d \in Droplets, CloudStep(d) \/ CloudFails(d)
      PROVE  /\ UNCHANGED <<zone, file>>
             /\ UNCHANGED faults \/ Fault
             /\ UNCHANGED <<pc, run>> \/ CloudFinish(d)
             /\ UNCHANGED droplet \/ Activate(d) \/ \E a \in {"v4", "v6"} : Assign(d, a)
             /\ UNCHANGED host \/ CloudClone(d)
  BY <1>2 DEF CloudStep, Activate, Assign, CloudClone, CloudDocker, CloudFinish, CloudFails
<1>3. ASSUME NEW kind \in Kinds, NEW dry \in Dry, Start(kind, dry)
      PROVE  UNCHANGED <<droplet, zone, host, file, faults>>
  BY <1>3 DEF Start
<1>4. Abort => UNCHANGED <<droplet, zone, host, file>> /\ Fault
  BY DEF Abort
<1>5. Change => UNCHANGED <<droplet, zone, file, pc, run, faults>>
  BY DEF Change
<1>6. CASE UNCHANGED vars
  BY <1>6 DEF vars
<1> QED
  BY <1>1, <1>2, <1>3, <1>4, <1>5, <1>6 DEF Next

\* The reboot of a droplet makes a run try its command again, ends it, or is not
\* noticed.
LEMMA Rebooted ==
  ASSUME NEW d \in Droplets, CloudFinish(d)
  PROVE  /\ UNCHANGED <<droplet, zone, host, file, faults>>
         /\ \/ UNCHANGED <<pc, run>>
            \/ Stop
            \/ /\ pc \in {"reboot", "start", "test"} /\ UNCHANGED pc
               /\ run.tries + 1 < 2 /\ run' = [run EXCEPT !.tries = @ + 1]
<1>1. \/ UNCHANGED <<pc, run>> \/ Stop
      \/ pc \in {"reboot", "start", "test"} /\ Again(2)
  <2>1. CASE run.drop = d /\ pc \in {"reboot", "start", "test"}
    BY <2>1, Zenon DEF CloudFinish
  <2>2. CASE ~(run.drop = d /\ pc \in {"reboot", "start", "test"})
    BY <2>2, Zenon DEF CloudFinish
  <2> QED
    BY <2>1, <2>2
<1> QED
  BY <1>1 DEF CloudFinish, Again

\* Every step keeps the types of the script's variables.
LEMMA RunsInv ==
  ASSUME TypeOK, [Next]_vars
  PROVE  run' \in Runs
<1> USE KindAssumption
<1>0. run \in Runs /\ \A max \in {2, Retries} : max \in Nat
  BY BoundAssumption DEF TypeOK
<1>1. CASE UNCHANGED run
  BY <1>0, <1>1
<1>2. CASE Stop
  BY <1>2, Started DEF Stop
<1>3. ASSUME NEW step, Go(step) PROVE run' \in Runs
  BY <1>0, <1>3, RunUpdated DEF Go
<1>4. ASSUME NEW max \in {Retries, 2}, run.tries + 1 < max, run' = [run EXCEPT !.tries = @ + 1]
      PROVE  run' \in Runs
  BY <1>0, <1>4, RunUpdated
<1>5. ASSUME Locate PROVE run' \in Runs
  <2>1. Live # {} => Greatest(Live) \in Droplets
    BY BoundAssumption, GreatestIn DEF Live, Droplets
  <2> QED
    BY <1>0, <1>2, <1>5, <2>1, RunUpdated DEF Locate, Using
<1>6. ASSUME Create PROVE run' \in Runs
  <2>1. Least(Unborn) \in Droplets
    <3>1. Unborn \subseteq Nat /\ Unborn # {} /\ Unborn \subseteq Droplets
      BY <1>6 DEF Create, Unborn, Droplets
    <3> QED
      BY <3>1, LeastIn
  <2> QED
    BY <1>0, <1>2, <1>6, <2>1, RunUpdated DEF Create, Using
<1>7. ASSUME ListRecords PROVE run' \in Runs
  <2>1. {i \in Used : Tracked(zone[i])} \in SUBSET Records
    BY DEF Used
  <2>2. {Key(zone[i]) : i \in Used} \in SUBSET Keys
    BY NoneAssumption DEF Used, TypeOK, Key, Keys
  <2>3. \A S \in SUBSET Records, K \in SUBSET Keys :
          [run EXCEPT !.left = S, !.have = K, !.tries = 0] \in Runs
    BY <1>0, RunUpdated
  <2> QED
    BY <1>2, <1>4, <1>7, <2>1, <2>2, <2>3 DEF ListRecords, ApiCall, Attempt, Again
<1>8. ASSUME ReadIpv6 PROVE run' \in Runs
  <2>1. {i \in run.left : ~run.dry /\ (zone[i].type = "AAAA" => public_ipv6)} \in SUBSET Records
    BY <1>0, RunUpdated
  <2>2. public_ipv6 \in BOOLEAN
    BY DEF public_ipv6
  <2>3. \A S \in SUBSET Records, b \in BOOLEAN :
          [run EXCEPT !.six = b, !.tries = 0, !.left = S] \in Runs
    BY <1>0, RunUpdated
  <2> QED
    BY <1>2, <1>4, <1>8, <2>1, <2>2, <2>3 DEF ReadIpv6, ApiCall, Attempt, Again
<1>9. ASSUME UpdateRecord PROVE run' \in Runs
  <2>1. run.left \ {Least(run.left)} \in SUBSET Records
    BY <1>0, RunUpdated
  <2>2. \A S \in SUBSET Records : [run EXCEPT !.left = S, !.tries = 0] \in Runs
    BY <1>0, RunUpdated
  <2> QED
    BY <1>2, <1>4, <1>9, <2>1, <2>2 DEF UpdateRecord, ApiCall, Attempt, Again
<1>10. ASSUME CreateRecord PROVE run' \in Runs
  BY <1>0, <1>2, <1>4, <1>10, RunUpdated DEF CreateRecord, ApiCall, Attempt, Again
<1>11. ASSUME SkipRecord PROVE run' \in Runs
  BY <1>0, <1>11, RunUpdated DEF SkipRecord
<1>12. ASSUME PostReboot \/ StartServices \/ RemoteTests PROVE run' \in Runs
  BY <1>2, <1>3, <1>4, <1>12 DEF PostReboot, StartServices, RemoteTests, Remote, Attempt, Again
<1>13. ASSUME Destroy PROVE run' \in Runs
  <2>1. {i \in Used : zone[i].name \in Torn} \in SUBSET Records
    BY DEF Used
  <2> QED
    BY <1>0, <1>2, <1>13, <2>1, RunUpdated DEF Destroy
<1>14. ASSUME Clean PROVE run' \in Runs
  <2>1. \A i : run.left \ {i} \in SUBSET Records
    BY <1>0, RunUpdated
  <2>2. \A S \in SUBSET Records : [run EXCEPT !.left = S] \in Runs
    BY <1>0, RunUpdated
  <2> QED
    BY <1>2, <1>14, <2>1, <2>2 DEF Clean
<1>15. ASSUME NEW kind \in Kinds, NEW dry \in Dry, Start(kind, dry) PROVE run' \in Runs
  BY <1>15, Started DEF Start
<1>16. ASSUME Abort \/ Exit PROVE run' \in Runs
  BY <1>2, <1>16 DEF Abort, Exit
<1>17. ASSUME \/ RecordAddress \/ UpdatesDone \/ RecordsDone \/ Marker \/ Connect \/ Sync
              \/ Upload \/ Verify \/ LocalTests
       PROVE  run' \in Runs
  BY <1>2, <1>3, <1>17 DEF RecordAddress, UpdatesDone, RecordsDone, Marker, Connect, Sync, Upload,
     Verify, LocalTests
<1>18. ASSUME NEW d \in Droplets, CloudFinish(d) PROVE run' \in Runs
  BY <1>1, <1>2, <1>4, <1>18, Rebooted
<1> QED
  BY <1>1, <1>5, <1>6, <1>7, <1>8, <1>9, <1>10, <1>11, <1>12, <1>13, <1>14, <1>15, <1>16,
     <1>17, <1>18, Touched DEF RunStep

\* The record that an update or a creation of a record is about.
LEMMA RecordAt ==
  ASSUME TypeOK
  PROVE  /\ run.left # {} => /\ Least(run.left) \in run.left
                             /\ Least(run.left) \in Records
         /\ Records # Used => /\ Least(Records \ Used) \in Records
                              /\ Least(Records \ Used) \notin Used
<1>1. run.left \subseteq Records /\ Records \subseteq Nat /\ Used \subseteq Records
  <2>1. run.left \in SUBSET Records
    BY RunUpdated DEF TypeOK
  <2> QED
    BY <2>1, BoundAssumption DEF Records, Used
<1>2. run.left # {} => Least(run.left) \in run.left
  BY <1>1, LeastIn
<1>3. Records # Used => Least(Records \ Used) \in Records \ Used
  <2> DEFINE S == Records \ Used
  <2>1. S \subseteq Nat /\ (Records # Used => S # {})
    BY <1>1
  <2> HIDE DEF S
  <2>2. Records # Used => Least(S) \in S
    BY <2>1, LeastIn
  <2> QED
    BY <2>2 DEF S
<1> QED
  BY <1>1, <1>2, <1>3

\* And the droplet that a run makes.
LEMMA NextDroplet == Unborn # {} => Least(Unborn) \in Unborn /\ Least(Unborn) \in Droplets
<1>1. Unborn \subseteq Nat /\ Unborn \subseteq Droplets
  BY BoundAssumption DEF Unborn, Droplets
<1> QED
  BY <1>1, LeastIn

\* An update makes one record of the list name the droplet, or changes nothing.
LEMMA RecordUpdated ==
  ASSUME TypeOK, Located, UpdateRecord
  PROVE  /\ Used' = Used
         /\ \/ zone' = zone
            \/ \E i \in run.left, r \in Entries :
                 /\ i = Least(run.left) /\ i \in Used
                 /\ r.type = zone[i].type /\ r.name = zone[i].name /\ r.data = run.drop
                 /\ zone' = [zone EXCEPT ![i] = r]
<1> DEFINE i == Least(run.left)
           r == [type |-> zone[i].type, name |-> zone[i].name, data |-> run.drop]
<1>1. i \in Used /\ i \in run.left /\ run.drop \in Droplets
  BY RecordAt DEF UpdateRecord, Located
<1>2. zone \in [Records -> Entries \cup {None}]
  BY DEF TypeOK, Entries
<1>3. i \in Records /\ zone[i] \in Entries
  BY <1>1, <1>2 DEF Used
<1>4. r \in Entries /\ [zone EXCEPT ![i].data = run.drop] = [zone EXCEPT ![i] = r]
  <2>1. r \in Entries /\ [zone[i] EXCEPT !.data = run.drop] = r
    BY <1>1, <1>3 DEF Entries
  <2> HIDE DEF r, i
  <2> QED
    BY <1>2, <1>3, <2>1
<1>5. zone' = zone \/ zone' = [zone EXCEPT ![i] = r]
  BY <1>4 DEF UpdateRecord, ApiCall, Attempt, Again
<1>6. r # None
  BY <1>4, NoneAssumption, BoundAssumption DEF Entries, Droplets
<1>7. Used' = Used
  <2> HIDE DEF r, i
  <2> QED
    BY <1>1, <1>2, <1>3, <1>5, <1>6 DEF Used
<1> QED
  BY <1>1, <1>4, <1>5, <1>7

\* A creation adds the record that is due, or changes nothing.
LEMMA RecordCreated ==
  ASSUME TypeOK, Located, CreateRecord
  PROVE  \/ /\ zone' = zone
            /\ Stop \/ (UNCHANGED pc /\ run' = [run EXCEPT !.tries = @ + 1])
         \/ \E i \in Records \ Used, r \in Entries :
              /\ Key(r) = Wanted[run.next] /\ r.data = run.drop
              /\ zone' = [zone EXCEPT ![i] = r]
              /\ Used' = Used \cup {i}
<1> DEFINE i == Least(Records \ Used)
           k == Wanted[run.next]
           r == [type |-> k[1], name |-> k[2], data |-> run.drop]
<1>1. i \in Records /\ i \notin Used /\ run.drop \in Droplets
  BY RecordAt DEF CreateRecord, Located
<1>2. zone \in [Records -> Entries \cup {None}]
  BY DEF TypeOK, Entries
<1>3. k \in Keys
  <2>1. Len(Wanted) \in Nat
    BY WantedKeys
  <2>2. run.next \in 1 .. Len(Wanted) + 1
    BY RunUpdated DEF TypeOK
  <2>3. run.next \in 1 .. Len(Wanted)
    BY <2>1, <2>2 DEF CreateRecord
  <2> HIDE DEF Keys
  <2> QED
    BY <2>3, WantedKeys
<1>4. r \in Entries /\ Key(r) = k /\ r.data = run.drop
  BY <1>1, <1>3 DEF Keys, Key, Entries
<1>5. \/ zone' = [zone EXCEPT ![i] = r]
      \/ /\ zone' = zone
         /\ Stop \/ (UNCHANGED pc /\ run' = [run EXCEPT !.tries = @ + 1])
  <2>1. Attempt(Retries, zone' = [zone EXCEPT ![i] = r], UNCHANGED zone,
                run' = [run EXCEPT !.next = @ + 1, !.tries = 0] /\ UNCHANGED pc)
    BY DEF CreateRecord, ApiCall
  <2> HIDE DEF i, r
  <2> QED
    BY <2>1 DEF Attempt, Again
<1>6. r # None
  BY <1>4, NoneAssumption, BoundAssumption DEF Entries, Droplets
<1>7. zone' = [zone EXCEPT ![i] = r] => Used' = Used \cup {i}
  <2> HIDE DEF r, i
  <2> QED
    BY <1>1, <1>2, <1>6 DEF Used
<1> QED
  BY <1>1, <1>4, <1>5, <1>7

\* Every step keeps the types.
LEMMA TypeInv ==
  ASSUME TypeOK, Located, [Next]_vars
  PROVE  TypeOK'
<1> USE BoundAssumption
<1> DEFINE E == [status : {"none", "new", "active", "gone"},
                 net : SUBSET {"v4", "v6"}, by : Kinds \cup {None}]
           D == [Droplets -> E]
           F == [code : Ages, env : Ages, up : [code : Ages, env : Ages]]
           H == [Droplets -> F]
           Steps == {"idle", "locate", "create", "address", "boot", "list", "ipv6", "update",
                     "fill", "marker", "connect", "sync", "upload", "reboot", "start", "test",
                     "verify", "local", "done", "destroy", "clean"}
<1>0. /\ droplet \in D /\ zone \in [Records -> Entries \cup {None}] /\ host \in H
      /\ file \in Droplets \cup {None} /\ faults \in 0 .. MaxFaults /\ run \in Runs
  BY DEF TypeOK, Entries
<1>1. droplet' \in D
  <2>1. ASSUME Create PROVE droplet' \in D
    <3>1. Unborn # {} /\ run.kind \in Kinds \cup {None}
      BY <1>0, <2>1, RunUpdated DEF Create
    <3> QED
      BY <1>0, <2>1, <3>1 DEF Create
  <2>2. ASSUME Destroy PROVE droplet' \in D
    <3> SUFFICES ASSUME ~UNCHANGED droplet PROVE droplet' \in D
      BY <1>0
    <3>1. PICK d \in Droplets :
            droplet' = [droplet EXCEPT ![d] = [@ EXCEPT !.status = "gone", !.net = {}]]
      BY <2>2 DEF Destroy, Live
    <3>2. droplet[d] \in E
      BY <1>0
    <3>3. [droplet[d] EXCEPT !.status = "gone", !.net = {}] \in E
      BY <3>2
    <3> QED
      BY <1>0, <3>1, <3>3
  <2>3. ASSUME NEW d \in Droplets, Activate(d) PROVE droplet' \in D
    BY <1>0, <2>3 DEF Activate
  <2>4. ASSUME NEW d \in Droplets, NEW a \in {"v4", "v6"}, Assign(d, a) PROVE droplet' \in D
    <3>1. droplet[d] \in E /\ droplet[d].net \cup {a} \in SUBSET {"v4", "v6"}
      BY <1>0, <2>4
    <3>2. [droplet[d] EXCEPT !.net = @ \cup {a}] \in E
      BY <3>1
    <3> QED
      BY <1>0, <2>4, <3>2 DEF Assign
  <2> QED
    BY <1>0, <2>1, <2>2, <2>3, <2>4, Touched
<1>2. zone' \in [Records -> Entries \cup {None}]
  <2>1. ASSUME UpdateRecord PROVE zone' \in [Records -> Entries \cup {None}]
    BY <1>0, <2>1, RecordUpdated
  <2>2. ASSUME CreateRecord PROVE zone' \in [Records -> Entries \cup {None}]
    BY <1>0, <2>2, RecordCreated
  <2>3. ASSUME Clean PROVE zone' \in [Records -> Entries \cup {None}]
    BY <1>0, <2>3 DEF Clean
  <2> QED
    BY <1>0, <2>1, <2>2, <2>3, Touched
<1>3. host' \in H
  <2> USE DEF Ages
  <2>1. ASSUME Sync \/ Upload \/ StartServices PROVE host' \in H
    <3>1. run.drop \in Droplets
      BY <2>1 DEF Sync, Upload, StartServices, Located, AfterDns
    <3>2. /\ [host[run.drop] EXCEPT !.code = "new"] \in F
          /\ [host[run.drop] EXCEPT !.env = "new"] \in F
          /\ [host[run.drop] EXCEPT !.up = [code |-> host[run.drop].code,
                                           env |-> host[run.drop].env]] \in F
      BY <1>0, <3>1
    <3>3. \/ UNCHANGED host
          \/ \E h \in F : host' = [host EXCEPT ![run.drop] = h]
      <4> HIDE DEF F, H
      <4>1. CASE Sync
        BY <3>2, <4>1 DEF Sync
      <4>2. CASE Upload
        BY <3>2, <4>2 DEF Upload
      <4>3. CASE StartServices
        BY <3>2, <4>3 DEF StartServices, Remote, Attempt, Again
      <4> QED
        BY <2>1, <4>1, <4>2, <4>3
    <3> QED
      BY <1>0, <3>1, <3>3
  <2>2. ASSUME Change PROVE host' \in H
    BY <1>0, <2>2 DEF Change, Aged
  <2>3. ASSUME NEW d \in Droplets, CloudClone(d) PROVE host' \in H
    BY <1>0, <2>3 DEF CloudClone
  <2>4. ASSUME Destroy PROVE host' \in H
    <3>1. Empty \in F
      BY DEF Empty
    <3> QED
      BY <1>0, <2>4, <3>1 DEF Destroy, Live
  <2> QED
    BY <1>0, <2>1, <2>2, <2>3, <2>4, Touched
<1>4. file' \in Droplets \cup {None}
  BY <1>0, Touched DEF RecordAddress, write_do_userdata, Located
<1>5. faults' \in 0 .. MaxFaults
  BY <1>0, Touched DEF Fault
<1>6. pc' \in Steps
  <2> USE DEF TypeOK
  <2>1. ASSUME RunStep PROVE pc' \in Steps
    BY <2>1 DEF RunStep, Locate, Create, RecordAddress, ListRecords, ReadIpv6, UpdateRecord,
     UpdatesDone, CreateRecord, SkipRecord, RecordsDone, Marker, Connect, Sync, Upload,
     PostReboot, StartServices, RemoteTests, Verify, LocalTests, Exit, Destroy, Clean,
     ApiCall, Remote, Attempt, Again, Go, Stop
  <2>2. CASE UNCHANGED pc
    BY <2>2
  <2>3. CASE Abort
    BY <2>3 DEF Abort, Stop
  <2>4. ASSUME NEW kind \in Kinds, NEW dry \in Dry, Start(kind, dry)
        PROVE  pc' \in {"create", "destroy", "locate"}
    <3>1. CASE kind = "create"
      BY <2>4, <3>1, Zenon DEF Start
    <3>2. CASE kind = "teardown"
      BY <2>4, <3>2 DEF Start
    <3>3. CASE kind \notin {"create", "teardown"}
      BY <2>4, <3>3 DEF Start
    <3> QED
      BY <3>1, <3>2, <3>3
  <2>5. ASSUME NEW d \in Droplets, CloudFinish(d) PROVE pc' \in Steps
    BY <2>2, <2>5, Rebooted DEF Stop
  <2> QED
    BY <2>1, <2>2, <2>3, <2>4, <2>5, Touched
<1>7. setup' \in [Droplets -> Stages]
  <2> USE DEF Stages
  <2>0. setup \in [Droplets -> Stages]
    BY DEF TypeOK
  <2>1. ASSUME Sync \/ PostReboot PROVE setup' \in [Droplets -> Stages]
    BY <2>0, <2>1 DEF Sync, PostReboot, Collides
  <2>2. ASSUME Destroy PROVE setup' \in [Droplets -> Stages]
    BY <2>0, <2>2 DEF Destroy
  <2>3. ASSUME NEW d \in Droplets, CloudStep(d) \/ CloudFails(d)
        PROVE  setup' \in [Droplets -> Stages]
    <3>1. CASE CloudStep(d)
      BY <2>0, <3>1 DEF CloudStep, Activate, Assign, CloudClone, CloudDocker, CloudFinish
    <3>2. CASE CloudFails(d)
      BY <2>0, <3>2 DEF CloudFails
    <3> QED
      BY <2>3, <3>1, <3>2
  <2>4. ASSUME RunStep PROVE UNCHANGED setup \/ Sync \/ PostReboot \/ Destroy
    BY <2>4 DEF RunStep, cloud, Locate, Create, RecordAddress, ListRecords, ReadIpv6,
       UpdateRecord, UpdatesDone, CreateRecord, SkipRecord, RecordsDone, Marker, Connect,
       Upload, StartServices, RemoteTests, Verify, LocalTests, Exit, Clean
  <2>5. CASE UNCHANGED setup
    BY <2>0, <2>5
  <2> QED
    BY <2>1, <2>2, <2>3, <2>4, <2>5 DEF Next, Start, Abort, Change, vars, cloud
<1> QED
  BY <1>1, <1>2, <1>3, <1>4, <1>5, <1>6, <1>7, RunsInv DEF TypeOK, Entries

\* Droplets are born in order, and a run that makes one unasked has seen none.
LEMMA BirthsInv ==
  ASSUME TypeOK, Births, Located, [Next]_vars
  PROVE  Births'
<1> USE BoundAssumption, KindAssumption
<1>0. PICK n \in 1 .. MaxDroplets + 1 : Unborn = n .. MaxDroplets
  BY DEF Births
<1>1. ASSUME UNCHANGED droplet PROVE Births'
  <2>1. Live' = Live /\ Unborn' = Unborn /\ (SecondAskedFor <=> SecondAskedFor')
    BY <1>1 DEF Live, Unborn, SecondAskedFor
  <2>2. RunStep /\ pc' = "create" => Live = {}
    BY DEF RunStep, Locate, Create, RecordAddress, ListRecords, ReadIpv6, UpdateRecord,
       UpdatesDone, CreateRecord, SkipRecord, RecordsDone, Marker, Connect, Sync, Upload,
       PostReboot, StartServices, RemoteTests, Verify, LocalTests, Exit, Destroy, Clean,
       ApiCall, Remote, Attempt, Again, Go, Stop
  <2>3. ASSUME NEW kind \in Kinds, NEW dry \in Dry, Start(kind, dry), pc' = "create"
        PROVE  run'.kind = "create"
    BY <2>3 DEF Start, NoRun
  <2>4. pc' = "create" /\ run'.kind # "create" => Live = {}
    <3>1. ASSUME NEW d \in Droplets, CloudFinish(d) PROVE UNCHANGED <<pc, run>> \/ pc' # "create"
      BY <3>1, Rebooted DEF Stop
    <3> QED
      BY <2>2, <2>3, <3>1, Touched DEF Births, Abort, Stop
  <2> QED
    BY <2>1, <2>4 DEF Births
<1>2. ASSUME Create PROVE Births'
  <2>1. Least(Unborn) \in Unborn /\ \A d \in Unborn : Least(Unborn) <= d
    <3>1. Unborn \subseteq Nat /\ Unborn # {}
      BY <1>2 DEF Create, Unborn, Droplets
    <3> QED
      BY <3>1, LeastIn
  <2>2. Least(Unborn) = n /\ n \in Droplets
    BY <1>0, <2>1 DEF Droplets
  <2>3. droplet' = [droplet EXCEPT ![n] = [status |-> "new", net |-> {}, by |-> run.kind]]
    BY <1>2, <2>2 DEF Create
  <2>4. Unborn' = n + 1 .. MaxDroplets
    BY <1>0, <2>2, <2>3 DEF Unborn, Droplets, TypeOK
  <2>5. Live' = Live \cup {n}
    BY <2>2, <2>3 DEF Live, TypeOK
  <2>6. \A d \in Live : d < n
    <3> SUFFICES ASSUME NEW d \in Live PROVE d < n
      OBVIOUS
    <3>1. d \in Droplets /\ d \notin Unborn
      BY DEF Live, Unborn
    <3> QED
      BY <1>0, <2>2, <3>1 DEF Droplets
  <2>7. droplet'[n].by = run.kind /\ \A d \in Live : d # n => droplet'[d].by = droplet[d].by
    BY <2>2, <2>3 DEF TypeOK, Live
  <2>8. SecondAskedFor'
    <3> SUFFICES ASSUME NEW d \in Live', NEW e \in Live', d < e
                 PROVE  droplet'[e].by = "create"
      BY DEF SecondAskedFor
    <3>1. d \in Droplets /\ e \in Droplets
      BY <2>2, <2>5 DEF Live
    <3>2. CASE e = n
      <4>1. d \in Live
        BY <2>5, <3>1, <3>2 DEF Droplets
      <4> QED
        BY <1>2, <2>7, <3>2, <4>1 DEF Births, Create
    <3>3. CASE e # n
      <4>1. e \in Live /\ d \in Live
        BY <2>2, <2>5, <2>6, <3>1, <3>3 DEF Droplets
      <4> QED
        BY <2>7, <3>3, <4>1 DEF Births, SecondAskedFor
    <3> QED
      BY <3>2, <3>3
  <2>9. pc' # "create"
    BY <1>2 DEF Create, Stop
  <2> QED
    BY <2>2, <2>4, <2>8, <2>9 DEF Births, Droplets
<1>3. ASSUME NEW d \in Droplets, UNCHANGED <<pc, run>> \/ pc' # "create",
             droplet' = [droplet EXCEPT ![d] = droplet'[d]],
             droplet[d].status \in {"new", "active"},
             droplet'[d].status # "none", droplet'[d].by = droplet[d].by
      PROVE  Births'
  <2>1. \A e \in Droplets : /\ droplet'[e].by = droplet[e].by
                            /\ e # d => droplet'[e] = droplet[e]
    BY <1>3 DEF TypeOK
  <2>2. Live' \subseteq Live /\ Unborn' = Unborn
    BY <1>3, <2>1 DEF Live, Unborn
  <2>3. SecondAskedFor'
    BY <2>1, <2>2 DEF Births, SecondAskedFor, Live
  <2> QED
    BY <1>3, <2>2, <2>3 DEF Births
<1>4. ASSUME Destroy PROVE Births'
  <2> SUFFICES ASSUME ~UNCHANGED droplet PROVE Births'
    BY <1>1
  <2>1. PICK d \in Live :
          droplet' = [droplet EXCEPT ![d] = [@ EXCEPT !.status = "gone", !.net = {}]]
    BY <1>4 DEF Destroy
  <2>2. d \in Droplets /\ droplet[d].status \in {"new", "active"}
    BY <2>1 DEF Live
  <2>3. droplet'[d].status = "gone" /\ droplet'[d].by = droplet[d].by
    BY <2>1, <2>2 DEF TypeOK
  <2>4. pc' # "create"
    BY <1>4 DEF Destroy, Stop
  <2>5. droplet' = [droplet EXCEPT ![d] = droplet'[d]]
    BY <2>1, <2>2 DEF TypeOK
  <2> QED
    BY <1>3, <2>2, <2>3, <2>4, <2>5
<1>5. ASSUME NEW d \in Droplets, Activate(d) PROVE Births'
  <2>1. droplet'[d].status = "active" /\ droplet'[d].by = droplet[d].by
    BY <1>5 DEF Activate, TypeOK
  <2>2. droplet' = [droplet EXCEPT ![d] = droplet'[d]]
    BY <1>5 DEF Activate, TypeOK
  <2>3. pc' = pc /\ run' = run /\ droplet[d].status = "new"
    BY <1>5 DEF Activate
  <2> QED
    BY <1>3, <2>1, <2>2, <2>3
<1>6. ASSUME NEW d \in Droplets, NEW a \in {"v4", "v6"}, Assign(d, a) PROVE Births'
  <2>1. droplet'[d].status = droplet[d].status /\ droplet'[d].by = droplet[d].by
    BY <1>6 DEF Assign, TypeOK
  <2>2. droplet' = [droplet EXCEPT ![d] = droplet'[d]]
    BY <1>6 DEF Assign, TypeOK
  <2>3. pc' = pc /\ run' = run /\ droplet[d].status \in {"new", "active"}
    BY <1>6 DEF Assign, Live
  <2> QED
    BY <1>3, <2>1, <2>2, <2>3
<1> QED
  BY <1>1, <1>2, <1>4, <1>5, <1>6, Touched

\* A run has a droplet once it has made or found one, and keeps it.
LEMMA LocatedInv ==
  ASSUME TypeOK, Located, [Next]_vars
  PROVE  Located'
<1> USE BoundAssumption, KindAssumption DEF AfterDns
<1>0. /\ run \in Runs /\ run.drop \in Droplets \cup {None} /\ run.kind \in Kinds \cup {None}
  BY RunUpdated DEF TypeOK
<1>1. CASE Stop
  BY <1>1 DEF Located, Stop
<1>2. ASSUME UNCHANGED <<pc, file>>, run'.drop = run.drop, run'.kind = run.kind,
             run'.left \subseteq run.left, Used \subseteq Used'
      PROVE  Located'
  BY <1>2 DEF Located
<1>3. ASSUME NEW step \in {"list", "update", "fill"} \cup AfterDns, Go(step),
             file' = run.drop, run.drop \in Droplets, step # "update"
      PROVE  Located'
  <2>1. pc' = step /\ run'.drop = run.drop
    BY <1>0, <1>3 DEF Go, Runs
  <2> QED
    BY <1>3, <2>1 DEF Located
<1>4. ASSUME UNCHANGED <<pc, run, file, zone>> PROVE Located'
  BY <1>2, <1>4 DEF Used
<1>5. ASSUME run' = [run EXCEPT !.tries = @ + 1], UNCHANGED <<pc, file>>, Used \subseteq Used'
      PROVE  Located'
  <2>1. /\ run'.drop = run.drop /\ run'.kind = run.kind /\ run'.left = run.left
    BY <1>0, <1>5 DEF Runs
  <2> QED
    BY <1>2, <1>5, <2>1
<1>6. ASSUME Locate PROVE Located'
  <2>1. Live # {} => Greatest(Live) \in Droplets
    BY GreatestIn DEF Live, Droplets
  <2>2. Live # {} => Using(Greatest(Live)).drop = Greatest(Live)
    BY <1>0 DEF Runs, Using
  <2>3. [run EXCEPT !.fresh = TRUE].kind = run.kind
    BY <1>0 DEF Runs
  <2>4. CASE Live # {} /\ pc' = "address" /\ run' = Using(Greatest(Live))
    BY <2>1, <2>2, <2>4 DEF Located
  <2>5. CASE run.kind = "ensure" /\ pc' = "create" /\ run' = [run EXCEPT !.fresh = TRUE]
    <3>1. run.kind \in Kinds
      BY <1>0, <1>6, <2>5 DEF Locate, Located
    <3> QED
      BY <2>3, <2>5, <3>1 DEF Located
  <2> QED
    BY <1>1, <1>6, <2>4, <2>5 DEF Locate
<1>7. ASSUME Create PROVE Located'
  <2>1. Least(Unborn) \in Droplets
    BY <1>7, NextDroplet DEF Create
  <2>2. Using(Least(Unborn)).drop = Least(Unborn)
    BY <1>0 DEF Runs, Using
  <2> QED
    BY <1>1, <1>7, <2>1, <2>2 DEF Create, Located
<1>8. ASSUME RecordAddress PROVE Located'
  BY <1>3, <1>8 DEF RecordAddress, write_do_userdata, Located
<1>9. ASSUME ListRecords PROVE Located'
  <2>1. Used' = Used
    BY <1>9 DEF ListRecords, cloud, Used
  <2> DEFINE L == {i \in Used : Tracked(zone[i])}
             K == {Key(zone[i]) : i \in Used}
  <2>2. [run EXCEPT !.left = L, !.have = K, !.tries = 0].drop = run.drop
    BY <1>0 DEF Runs
  <2>3. [run EXCEPT !.left = L, !.have = K, !.tries = 0].left = L /\ L \subseteq Used
    BY <1>0 DEF Runs
  <2>4. CASE pc' = "ipv6" /\ run' = [run EXCEPT !.left = L, !.have = K, !.tries = 0]
    <3> HIDE DEF L, K
    <3> QED
      BY <1>9, <2>1, <2>2, <2>3, <2>4 DEF ListRecords, Located
  <2> QED
    BY <1>1, <1>5, <1>9, <2>1, <2>4 DEF ListRecords, ApiCall, Attempt, Again
<1>10. ASSUME ReadIpv6 PROVE Located'
  <2> DEFINE L == {i \in run.left : ~run.dry /\ (zone[i].type = "AAAA" => public_ipv6)}
  <2>1. Used' = Used
    BY <1>10 DEF ReadIpv6, cloud, Used
  <2>2. L \subseteq Used
    BY <1>10 DEF ReadIpv6, Located
  <2>3. CASE pc' = "update" /\ run' = [run EXCEPT !.six = public_ipv6, !.tries = 0, !.left = L]
    <3> HIDE DEF L
    <3>1. run'.drop = run.drop /\ run'.left = L
      BY <1>0, <2>3 DEF Runs
    <3> QED
      BY <1>10, <2>1, <2>2, <2>3, <3>1 DEF ReadIpv6, Located
  <2> QED
    BY <1>1, <1>5, <1>10, <2>1, <2>3 DEF ReadIpv6, ApiCall, Attempt, Again
<1>11. ASSUME UpdateRecord PROVE Located'
  <2>1. Used' = Used
    BY <1>11, RecordUpdated
  <2> DEFINE L == run.left \ {Least(run.left)}
  <2>2. CASE run' = [run EXCEPT !.left = @ \ {Least(run.left)}, !.tries = 0] /\ UNCHANGED pc
    <3>1. /\ run'.drop = run.drop /\ run'.kind = run.kind /\ run'.left \subseteq run.left
      BY <1>0, <2>2 DEF Runs
    <3> QED
      BY <1>2, <1>11, <2>1, <2>2, <3>1 DEF UpdateRecord
  <2> QED
    BY <1>1, <1>5, <1>11, <2>1, <2>2 DEF UpdateRecord, ApiCall, Attempt, Again
<1>12. ASSUME CreateRecord PROVE Located'
  <2>1. Used \subseteq Used'
    BY <1>12, RecordCreated DEF Used
  <2>2. CASE run' = [run EXCEPT !.next = @ + 1, !.tries = 0] /\ UNCHANGED pc
    <3>1. /\ run'.drop = run.drop /\ run'.kind = run.kind /\ run'.left = run.left
      BY <1>0, <2>2 DEF Runs
    <3> QED
      BY <1>2, <1>12, <2>1, <2>2, <3>1 DEF CreateRecord
  <2> QED
    BY <1>1, <1>5, <1>12, <2>1, <2>2 DEF CreateRecord, ApiCall, Attempt, Again
<1>13. ASSUME SkipRecord PROVE Located'
  <2>1. /\ run'.drop = run.drop /\ run'.kind = run.kind /\ run'.left = run.left
    BY <1>0, <1>13 DEF SkipRecord, Runs
  <2> QED
    BY <1>2, <1>13, <2>1 DEF SkipRecord, cloud, Used
<1>14. ASSUME \/ UpdatesDone \/ RecordsDone \/ Marker \/ Connect \/ Sync \/ Upload
              \/ Verify \/ LocalTests
       PROVE  Located'
  <2>1. run.drop \in Droplets /\ file' = run.drop
    BY <1>14 DEF UpdatesDone, RecordsDone, Marker, Connect, Sync, Upload, Verify, LocalTests,
       Located
  <2> QED
    BY <1>1, <1>3, <1>14, <2>1 DEF UpdatesDone, RecordsDone, Marker, Connect, Sync, Upload, Verify,
       LocalTests
<1>15. ASSUME PostReboot \/ StartServices \/ RemoteTests PROVE Located'
  <2>1. run.drop \in Droplets /\ file' = run.drop /\ UNCHANGED zone
    BY <1>15 DEF PostReboot, StartServices, RemoteTests, Located, cloud
  <2>2. Used' = Used /\ UNCHANGED file
    BY <1>15, <2>1 DEF Used, PostReboot, StartServices, RemoteTests
  <2> QED
    BY <1>1, <1>3, <1>5, <1>15, <2>1, <2>2 DEF PostReboot, StartServices, RemoteTests, Remote,
       Attempt, Again
<1>16. ASSUME Destroy \/ Clean PROVE Located'
  BY <1>1, <1>16 DEF Destroy, Clean, Located
<1>17. ASSUME NEW kind \in Kinds, NEW dry \in Dry, Start(kind, dry) PROVE Located'
  <2>1. pc' \in {"create", "destroy", "locate"} /\ run'.kind = kind
    BY <1>17 DEF Start, NoRun
  <2> QED
    BY <2>1 DEF Located
<1>18. ASSUME Abort \/ Exit PROVE Located'
  BY <1>1, <1>18 DEF Abort, Exit
<1>19. ASSUME NEW d \in Droplets, CloudFinish(d) PROVE Located'
  <2>1. Used' = Used /\ UNCHANGED file
    BY <1>19, Rebooted DEF Used
  <2> QED
    BY <1>1, <1>4, <1>5, <1>19, <2>1, Rebooted
<1>20. CASE ~(\/ RunStep \/ Abort \/ \E kind \in Kinds, dry \in Dry : Start(kind, dry)
              \/ \E d \in Droplets : CloudFinish(d))
  <2>1. UNCHANGED <<pc, run, file, zone>>
    BY <1>20, Touched DEF RunStep
  <2> QED
    BY <1>4, <2>1
<1> QED
  BY <1>6, <1>7, <1>8, <1>9, <1>10, <1>11, <1>12, <1>13, <1>14, <1>15, <1>16, <1>17, <1>18,
     <1>19, <1>20 DEF RunStep

\* The first record that may be created is the first of Wanted.
LEMMA CountedInv ==
  ASSUME TypeOK, Counted, [Next]_vars
  PROVE  Counted'
<1>0. run \in Runs
  BY DEF TypeOK
<1>1. CASE Stop
  BY <1>1 DEF Counted, Stop, NoRun
<1>2. CASE pc' \in {"fill"} \cup AfterDns
  BY <1>2 DEF Counted, AfterDns
<1>3. ASSUME pc \notin {"fill"} \cup AfterDns, RunStep PROVE run'.next = run.next \/ Stop
  <2>1. ASSUME NEW step, Go(step) PROVE run'.next = run.next
    BY <1>0, <2>1 DEF Go, Runs
  <2>2. ASSUME run' = [run EXCEPT !.tries = @ + 1] PROVE run'.next = run.next
    BY <1>0, <2>2 DEF Runs
  <2>3. ASSUME Locate \/ Create PROVE run'.next = run.next \/ Stop
    BY <1>0, <2>3 DEF Locate, Create, Using, Runs
  <2>4. ASSUME ListRecords \/ ReadIpv6 \/ UpdateRecord PROVE run'.next = run.next \/ Stop
    BY <1>0, <2>2, <2>4 DEF ListRecords, ReadIpv6, UpdateRecord, ApiCall, Attempt, Again, Runs
  <2>5. ASSUME Destroy \/ Clean PROVE run'.next = run.next \/ Stop
    BY <1>0, <2>5 DEF Destroy, Clean, Runs
  <2>6. ASSUME RecordAddress \/ UpdatesDone PROVE run'.next = run.next
    BY <2>1, <2>6 DEF RecordAddress, UpdatesDone
  <2> QED
    BY <1>3, <2>3, <2>4, <2>5, <2>6 DEF RunStep, AfterDns, CreateRecord, SkipRecord,
       RecordsDone, Marker, Connect, Sync, Upload, PostReboot, StartServices, RemoteTests,
       Verify, LocalTests, Exit
<1>4. ASSUME pc \in {"fill"} \cup AfterDns, RunStep
      PROVE  pc' \in {"fill"} \cup AfterDns \/ Stop
  BY <1>4 DEF RunStep, Locate, Create, RecordAddress, ListRecords, ReadIpv6, UpdateRecord,
     UpdatesDone, CreateRecord, SkipRecord, RecordsDone, Marker, Connect, Sync, Upload,
     PostReboot, StartServices, RemoteTests, Verify, LocalTests, Exit, Destroy, Clean,
     ApiCall, Remote, Attempt, Again, Go, AfterDns
<1>5. ASSUME NEW kind \in Kinds, NEW dry \in Dry, Start(kind, dry) PROVE run'.next = 1
  BY <1>5 DEF Start, NoRun
<1>6. ASSUME NEW d \in Droplets, CloudFinish(d) PROVE Counted'
  BY <1>0, <1>1, <1>2, <1>6, Rebooted DEF Counted, Runs, AfterDns
<1> QED
  BY <1>1, <1>2, <1>3, <1>4, <1>5, <1>6, Touched DEF Counted, Abort

\* The phases of the DNS part, one after the other (Pointing).
LEMMA PointingInv ==
  ASSUME TypeOK, Located, Counted, Pointing, [Next]_vars
  PROVE  Pointing'
<1> USE BoundAssumption
<1>0. /\ run \in Runs /\ zone \in [Records -> Entries \cup {None}]
      /\ run.drop \in Droplets \cup {None} /\ run.left \in SUBSET Records
      /\ run.dry \in BOOLEAN /\ run.six \in BOOLEAN
  BY RunUpdated DEF TypeOK, Entries
<1>1. ASSUME pc' \notin {"ipv6", "update", "fill"} \cup AfterDns PROVE Pointing'
  BY <1>1 DEF Pointing, AfterDns
<1>2. CASE Stop
  BY <1>1, <1>2 DEF Stop, AfterDns
<1>3. ASSUME UNCHANGED <<pc, zone>>, run'.left = run.left, run'.have = run.have,
             run'.dry = run.dry, run'.six = run.six, run'.drop = run.drop,
             run'.next = run.next
      PROVE  Pointing'
  BY <1>3 DEF Pointing, Concerns, Has, Used
<1>4. ASSUME UNCHANGED <<pc, zone>>, run' = [run EXCEPT !.tries = @ + 1] PROVE Pointing'
  <2>1. /\ run'.left = run.left /\ run'.have = run.have /\ run'.dry = run.dry
        /\ run'.six = run.six /\ run'.drop = run.drop /\ run'.next = run.next
    BY <1>0, <1>4 DEF Runs
  <2> QED
    BY <1>3, <1>4, <2>1
<1>5. ASSUME NEW step \in AfterDns, pc \in AfterDns, Go(step), UNCHANGED zone PROVE Pointing'
  <2>1. pc' \in AfterDns /\ pc' \notin {"ipv6", "update", "fill"}
    BY <1>5 DEF Go, AfterDns
  <2>2. run'.dry = run.dry /\ run'.six = run.six /\ run'.drop = run.drop
    BY <1>0, <1>5 DEF Go, Runs
  <2> QED
    BY <1>5, <2>1, <2>2 DEF Pointing, Concerns, Has, Used
<1>6. ASSUME ListRecords PROVE Pointing'
  <2> DEFINE L == {i \in Used : Tracked(zone[i])}
             K == {Key(zone[i]) : i \in Used}
  <2>1. UNCHANGED zone
    BY <1>6 DEF ListRecords, cloud
  <2>2. CASE pc' = "ipv6" /\ run' = [run EXCEPT !.left = L, !.have = K, !.tries = 0]
    <3>1. run'.left = L /\ run'.have = K
      <4> HIDE DEF L, K
      <4> QED
        BY <1>0, <2>2 DEF Runs
    <3>2. Used' = Used /\ \A k : Has(k)' <=> Has(k)
      BY <2>1 DEF Used, Has
    <3>3. \A k \in K : Has(k)
      BY DEF Has
    <3>4. \A i \in Used' : Tracked(zone'[i]) => i \in run'.left
      BY <2>1, <3>1, <3>2
    <3> HIDE DEF L, K
    <3> QED
      BY <2>2, <3>1, <3>2, <3>3, <3>4 DEF Pointing, AfterDns
  <2> QED
    BY <1>2, <1>4, <1>6, <2>1, <2>2 DEF ListRecords, ApiCall, Attempt, Again
<1>7. ASSUME ReadIpv6 PROVE Pointing'
  <2> DEFINE L == {i \in run.left : ~run.dry /\ (zone[i].type = "AAAA" => public_ipv6)}
  <2>1. UNCHANGED zone
    BY <1>7 DEF ReadIpv6, cloud
  <2>2. ASSUME pc' = "update", run' = [run EXCEPT !.six = public_ipv6, !.tries = 0, !.left = L],
               WaitIpv6 => public_ipv6
        PROVE  Pointing'
    <3>1. /\ run'.left = L /\ run'.six = public_ipv6 /\ run'.have = run.have
          /\ run'.dry = run.dry
      <4> HIDE DEF L
      <4> QED
        BY <1>0, <2>2 DEF Runs
    <3>2. Used' = Used /\ \A k : Has(k)' <=> Has(k)
      BY <2>1 DEF Used, Has
    <3>3. \A k \in run.have : Has(k)
      BY <1>7 DEF ReadIpv6, Pointing
    <3>4. ASSUME ~run'.dry, NEW i \in Records, Concerns(i)' PROVE i \in run'.left
      BY <1>7, <2>1, <3>1, <3>2, <3>4 DEF ReadIpv6, Pointing, Concerns
    <3>5. WaitIpv6 => run'.six
      BY <2>2, <3>1
    <3> QED
      BY <2>2, <3>1, <3>2, <3>3, <3>4, <3>5 DEF Pointing, AfterDns
  <2> QED
    BY <1>2, <1>4, <1>7, <2>1, <2>2 DEF ReadIpv6, ApiCall, Attempt, Again
<1>8. ASSUME UpdateRecord PROVE Pointing'
  <2>1. Used' = Used
    BY <1>8, RecordUpdated
  <2>2. \A i \in Used : /\ zone'[i] = zone[i] \/ zone'[i].data = run.drop
                        /\ zone'[i].type = zone[i].type /\ zone'[i].name = zone[i].name
                        /\ i = Least(run.left) /\ zone' # zone => zone'[i].data = run.drop
    BY <1>0, <1>8, RecordUpdated DEF Used
  <2>3. /\ \A k : Has(k)' <=> Has(k)
        /\ \A i \in Used : Tracked(zone'[i]) <=> Tracked(zone[i])
    BY <2>1, <2>2 DEF Has, Key, Tracked
  <2>4. ASSUME pc' = pc, run'.have = run.have, run'.six = run.six, run'.dry = run.dry,
               run'.drop = run.drop,
               \A i \in run.left : i \in run'.left \/ zone'[i].data = run.drop
        PROVE  Pointing'
    <3>1. ASSUME ~run.dry, NEW i \in Records, Concerns(i)'
          PROVE  i \in run'.left \/ zone'[i].data = run.drop
      <4>1. Concerns(i)
        BY <2>1, <2>2, <2>3, <2>4, <3>1 DEF Concerns
      <4> QED
        BY <1>8, <2>1, <2>2, <2>4, <3>1, <4>1 DEF UpdateRecord, Pointing, Concerns
    <3> QED
      BY <1>8, <2>3, <2>4, <3>1 DEF UpdateRecord, Pointing, AfterDns
  <2>5. CASE UNCHANGED pc /\ run' = [run EXCEPT !.left = @ \ {Least(run.left)}, !.tries = 0]
        /\ zone' = [zone EXCEPT ![Least(run.left)].data = run.drop]
    <3>1. /\ run'.have = run.have /\ run'.six = run.six /\ run'.dry = run.dry
          /\ run'.drop = run.drop /\ run'.left = run.left \ {Least(run.left)}
      BY <1>0, <2>5 DEF Runs
    <3>2. zone'[Least(run.left)].data = run.drop
      <4>1. Least(run.left) \in Used /\ run.drop \in Droplets
        BY <1>8, RecordAt DEF UpdateRecord, Located
      <4>2. zone[Least(run.left)] \in Entries
        BY <1>0, <4>1 DEF Used
      <4>3. [zone[Least(run.left)] EXCEPT !.data = run.drop].data = run.drop
        BY <4>2 DEF Entries
      <4> QED
        BY <1>0, <2>5, <4>1, <4>3 DEF Used
    <3> QED
      BY <2>4, <2>5, <3>1, <3>2
  <2>6. CASE UNCHANGED pc /\ run' = [run EXCEPT !.tries = @ + 1]
    <3>1. /\ run'.have = run.have /\ run'.six = run.six /\ run'.dry = run.dry
          /\ run'.drop = run.drop /\ run'.left = run.left
      BY <1>0, <2>6 DEF Runs
    <3> QED
      BY <2>4, <2>6, <3>1
  <2> QED
    BY <1>2, <1>8, <2>5, <2>6 DEF UpdateRecord, ApiCall, Attempt, Again
<1>9. ASSUME UpdatesDone PROVE Pointing'
  <2>1. /\ run'.dry = run.dry /\ run'.six = run.six /\ run'.drop = run.drop
        /\ run'.have = run.have /\ run'.next = 1 /\ pc' = "fill" /\ zone' = zone
    BY <1>0, <1>9 DEF UpdatesDone, Go, Runs, cloud, Counted, AfterDns
  <2>2. \A k : Has(k)' <=> Has(k)
    BY <2>1 DEF Has, Used
  <2>3. \A i : Concerns(i)' <=> Concerns(i)
    BY <2>1 DEF Concerns, Used
  <2>4. DOMAIN Wanted \subseteq Nat \ {0}
    BY WantedKeys
  <2>5. \A n \in DOMAIN Wanted : ~(n < 1)
    BY <2>4
  <2> QED
    BY <1>9, <2>1, <2>2, <2>3, <2>5 DEF UpdatesDone, Pointing, AfterDns
<1>10. ASSUME CreateRecord PROVE Pointing'
  <2>1. CASE UNCHANGED <<pc, zone>> /\ run' = [run EXCEPT !.tries = @ + 1]
    BY <1>4, <2>1
  <2>2. ASSUME NEW i \in Records \ Used, NEW r \in Entries, Key(r) = Wanted[run.next],
               r.data = run.drop, zone' = [zone EXCEPT ![i] = r], Used' = Used \cup {i},
               UNCHANGED pc,
               \/ run' = [run EXCEPT !.tries = @ + 1]
               \/ run' = [run EXCEPT !.next = @ + 1, !.tries = 0]
        PROVE  Pointing'
    <3>1. /\ run'.dry = run.dry /\ run'.six = run.six /\ run'.drop = run.drop
          /\ run'.have = run.have /\ run'.next \in {run.next, run.next + 1}
      BY <1>0, <2>2 DEF Runs
    <3>2. zone'[i] = r /\ \A j \in Used : zone'[j] = zone[j]
      BY <1>0, <2>2 DEF Used
    <3>3. (\A k : Has(k) => Has(k)') /\ \A k : k = Wanted[run.next] => Has(k)'
      <4>1. \A k : Has(k) => Has(k)'
        BY <2>2, <3>2 DEF Has
      <4>2. i \in Used' /\ Key(zone'[i]) = Wanted[run.next]
        BY <2>2, <3>2 DEF Key
      <4>3. \A k : k = Wanted[run.next] => Has(k)'
        BY <2>2, <4>2 DEF Has
      <4> QED
        BY <4>1, <4>3
    <3>4. ASSUME ~run.dry, NEW j \in Records, Concerns(j)' PROVE zone'[j].data = run.drop
      <4>1. CASE j = i
        BY <2>2, <3>2, <4>1
      <4>2. CASE j # i
        <5>1. j \in Used
          BY <2>2, <3>4, <4>2 DEF Concerns
        <5> QED
          BY <1>10, <3>1, <3>2, <3>4, <5>1 DEF CreateRecord, Pointing, Concerns
      <4> QED
        BY <4>1, <4>2
    <3>5. ASSUME ~run.dry, NEW n \in DOMAIN Wanted, n < run'.next,
                 Wanted[n][1] = "AAAA" => run.six
          PROVE  Has(Wanted[n])'
      <4>1. n \in Nat /\ run.next \in Nat
        <5>1. Len(Wanted) \in Nat /\ DOMAIN Wanted = 1 .. Len(Wanted)
          BY WantedKeys
        <5>2. run.next \in 1 .. Len(Wanted) + 1
          BY <1>0, RunUpdated
        <5> QED
          BY <5>1, <5>2
      <4>2. n < run.next \/ n = run.next
        BY <3>1, <3>5, <4>1
      <4>3. CASE n < run.next
        BY <1>10, <3>3, <3>5, <4>3 DEF CreateRecord, Pointing
      <4>4. CASE n = run.next
        BY <3>3, <4>4
      <4> QED
        BY <4>2, <4>3, <4>4
    <3> QED
      BY <1>10, <2>2, <3>1, <3>3, <3>4, <3>5 DEF CreateRecord, Pointing, AfterDns
  <2> QED
    BY <1>2, <1>10, <2>1, <2>2, RecordCreated DEF CreateRecord, ApiCall, Attempt, Again
<1>11. ASSUME SkipRecord PROVE Pointing'
  <2>1. /\ run'.dry = run.dry /\ run'.six = run.six /\ run'.drop = run.drop
        /\ run'.have = run.have /\ run'.next = run.next + 1 /\ pc' = pc /\ zone' = zone
    BY <1>0, <1>11 DEF SkipRecord, Runs, cloud
  <2>2. (\A k : Has(k)' <=> Has(k)) /\ \A i : Concerns(i)' <=> Concerns(i)
    BY <2>1 DEF Has, Concerns, Used
  <2>3. ASSUME ~run.dry, NEW n \in DOMAIN Wanted, n < run'.next,
               Wanted[n][1] = "AAAA" => run.six
        PROVE  Has(Wanted[n])
    <3>1. n \in Nat /\ run.next \in Nat
      <4>1. Len(Wanted) \in Nat /\ DOMAIN Wanted = 1 .. Len(Wanted)
        BY WantedKeys
      <4>2. run.next \in 1 .. Len(Wanted) + 1
        BY <1>0, RunUpdated
      <4> QED
        BY <4>1, <4>2
    <3>2. CASE n < run.next
      BY <1>11, <2>3, <3>2 DEF SkipRecord, Pointing
    <3>3. CASE n = run.next
      BY <1>11, <2>3, <3>3 DEF SkipRecord, Missing, Pointing
    <3> QED
      BY <2>1, <2>3, <3>1, <3>2, <3>3
  <2> QED
    BY <1>11, <2>1, <2>2, <2>3 DEF SkipRecord, Pointing, AfterDns
<1>12. ASSUME RecordsDone PROVE Pointing'
  <2>1. /\ run'.dry = run.dry /\ run'.six = run.six /\ run'.drop = run.drop
        /\ pc' \in {"marker", "connect"} /\ zone' = zone
    BY <1>0, <1>12 DEF RecordsDone, Go, Runs, cloud
  <2>2. (\A k : Has(k)' <=> Has(k)) /\ \A i : Concerns(i)' <=> Concerns(i)
    BY <2>1 DEF Has, Concerns, Used
  <2>3. \A n \in DOMAIN Wanted : n < run.next
    <3>1. Len(Wanted) \in Nat /\ DOMAIN Wanted = 1 .. Len(Wanted)
      BY WantedKeys
    <3>2. run.next \in 1 .. Len(Wanted) + 1
      BY <1>0, RunUpdated
    <3> QED
      BY <1>12, <3>1, <3>2 DEF RecordsDone
  <2> QED
    BY <1>12, <2>1, <2>2, <2>3 DEF RecordsDone, Pointing, AfterDns
<1>13. ASSUME Marker \/ Connect \/ Sync \/ Upload \/ Verify \/ LocalTests PROVE Pointing'
  BY <1>2, <1>5, <1>13 DEF Marker, Connect, Sync, Upload, Verify, LocalTests, AfterDns, cloud
<1>14. ASSUME PostReboot \/ StartServices \/ RemoteTests PROVE Pointing'
  <2>1. UNCHANGED zone
    BY <1>14 DEF PostReboot, StartServices, RemoteTests, cloud
  <2> QED
    BY <1>2, <1>4, <1>5, <1>14, <2>1 DEF PostReboot, StartServices, RemoteTests, Remote, Attempt, Again,
       AfterDns
<1>15. ASSUME Locate \/ Create \/ RecordAddress \/ Destroy \/ Clean PROVE Pointing'
  BY <1>1, <1>2, <1>15 DEF Locate, Create, RecordAddress, Destroy, Clean, Go, AfterDns
<1>16. ASSUME NEW kind \in Kinds, NEW dry \in Dry, Start(kind, dry) PROVE Pointing'
  <2>1. pc' \in {"create", "destroy", "locate"}
    BY <1>16 DEF Start
  <2> QED
    BY <1>1, <2>1 DEF AfterDns
<1>17. ASSUME Abort \/ Exit PROVE Pointing'
  BY <1>2, <1>17 DEF Abort, Exit
<1>18. ASSUME NEW d \in Droplets, CloudFinish(d) PROVE Pointing'
  BY <1>2, <1>3, <1>4, <1>18, Rebooted
<1>19. CASE ~(\/ RunStep \/ Abort \/ \E kind \in Kinds, dry \in Dry : Start(kind, dry)
              \/ \E d \in Droplets : CloudFinish(d))
  <2>1. UNCHANGED <<pc, run, zone>>
    BY <1>19, Touched DEF RunStep
  <2> QED
    BY <1>3, <2>1
<1> QED
  BY <1>6, <1>7, <1>8, <1>9, <1>10, <1>11, <1>12, <1>13, <1>14, <1>15, <1>16, <1>17, <1>18, <1>19
     DEF RunStep

\* What a run has uploaded and started stays, until the run is over.
LEMMA ServedInv ==
  ASSUME TypeOK, Located, Served, [Next]_vars
  PROVE  Served'
<1> DEFINE After == {"reboot", "start", "test", "verify", "local", "done"}
           Up(h) == h.up = [code |-> h.code, env |-> "new"] /\ h.code # "none"
<1>0. run \in Runs /\ \A d \in Droplets : host[d].code \in Ages
  BY DEF TypeOK
<1>1. ASSUME pc' \notin After PROVE Served'
  BY <1>1 DEF Served
<1>2. CASE Stop
  BY <1>1, <1>2 DEF Stop
<1>3. ASSUME UNCHANGED <<pc, host>>, run'.drop = run.drop PROVE Served'
  BY <1>3 DEF Served
<1>4. ASSUME NEW step, Go(step) PROVE pc' = step /\ run'.drop = run.drop
  BY <1>0, <1>4 DEF Go, Runs
<1>5. ASSUME run' = [run EXCEPT !.tries = @ + 1] PROVE run'.drop = run.drop
  BY <1>0, <1>5 DEF Runs
<1>6. ASSUME Upload PROVE Served'
  <2>1. run.drop \in Droplets /\ pc' = "reboot" /\ run'.drop = run.drop
    BY <1>4, <1>6 DEF Upload, Located, AfterDns
  <2>2. host'[run.drop].env = "new"
    BY <1>6, <2>1 DEF Upload, TypeOK
  <2> QED
    BY <2>1, <2>2 DEF Served
<1>7. ASSUME PostReboot PROVE Served'
  <2>1. UNCHANGED host
    BY <1>7 DEF PostReboot, Remote, Attempt
  <2>2. CASE Go("start")
    BY <1>4, <1>7, <2>1, <2>2 DEF PostReboot, Served
  <2>3. CASE UNCHANGED pc /\ run' = [run EXCEPT !.tries = @ + 1]
    BY <1>3, <1>5, <2>1, <2>3
  <2> QED
    BY <1>2, <1>7, <2>2, <2>3 DEF PostReboot, Remote, Attempt, Again
<1>8. ASSUME StartServices PROVE Served'
  <2> DEFINE h == host[run.drop]
             started == [host EXCEPT ![run.drop].up = [code |-> h.code, env |-> h.env]]
  <2>1. run.drop \in Droplets /\ h.env = "new"
    BY <1>8 DEF StartServices, Located, AfterDns, Served
  <2> SUFFICES ASSUME ~Stop PROVE Served'
    BY <1>2
  <2>0. CASE UNCHANGED <<pc, host>> /\ run' = [run EXCEPT !.tries = @ + 1]
    BY <1>3, <1>5, <2>0
  <2> SUFFICES ASSUME Startable(run.drop), Remote(host' = started, "test") PROVE Served'
    BY <1>8, <2>0 DEF StartServices, Again
  <2>2. h.code # "none"
    BY DEF Startable
  <2>3. ASSUME host' = started
        PROVE  Up(host'[run.drop]) /\ host'[run.drop].env = "new"
    BY <2>1, <2>2, <2>3 DEF TypeOK
  <2>4. CASE Go("test") /\ host' = started
    BY <1>4, <2>3, <2>4 DEF Served
  <2>5. CASE UNCHANGED pc /\ run'.drop = run.drop
    <3>1. host'[run.drop].env = "new"
      BY <2>1, <2>2, <2>3 DEF Remote, Attempt, Again
    <3> QED
      BY <1>8, <2>5, <3>1 DEF StartServices, Served
  <2> QED
    BY <1>5, <2>2, <2>4, <2>5 DEF Remote, Attempt, Again
<1>9. ASSUME RemoteTests PROVE Served'
  <2>1. UNCHANGED host
    BY <1>9 DEF RemoteTests, Remote, Attempt, Again
  <2>2. CASE Go("verify")
    BY <1>4, <1>9, <2>1, <2>2 DEF RemoteTests, Served
  <2> QED
    BY <1>2, <1>3, <1>5, <1>9, <2>1, <2>2 DEF RemoteTests, Remote, Attempt, Again
<1>10. ASSUME Verify \/ LocalTests PROVE Served'
  BY <1>4, <1>10 DEF Verify, LocalTests, Served
<1>11. ASSUME \/ UpdatesDone \/ RecordsDone \/ Marker \/ Connect \/ Sync \/ RecordAddress
       PROVE  Served'
  BY <1>1, <1>2, <1>4, <1>11 DEF UpdatesDone, RecordsDone, Marker, Connect, Sync, RecordAddress
<1>12. ASSUME \/ Locate \/ Create \/ ListRecords \/ ReadIpv6 \/ UpdateRecord \/ CreateRecord
              \/ SkipRecord \/ Destroy \/ Clean
       PROVE  Served'
  <2>1. pc' \notin After
    BY <1>12 DEF Locate, Create, ListRecords, ReadIpv6, UpdateRecord, CreateRecord, SkipRecord,
       Destroy, Clean, ApiCall, Attempt, Again, Stop
  <2> QED
    BY <1>1, <2>1
<1>13. ASSUME NEW kind \in Kinds, NEW dry \in Dry, Start(kind, dry) PROVE Served'
  <2>1. pc' \in {"create", "destroy", "locate"}
    BY <1>13 DEF Start
  <2> QED
    BY <1>1, <2>1
<1>14. ASSUME Abort \/ Exit PROVE Served'
  BY <1>2, <1>14 DEF Abort, Exit
<1>15. ASSUME Change PROVE Served'
  BY <1>1, <1>15 DEF Change
<1>16. ASSUME NEW d \in Droplets, CloudClone(d) PROVE Served'
  <2>1. \A e \in Droplets : host[e].env = "new" => host'[e] = host[e]
    BY <1>16 DEF CloudClone, TypeOK
  <2>2. pc \in After => run.drop \in Droplets
    BY DEF Located, AfterDns
  <2> QED
    BY <1>16, <2>1, <2>2 DEF CloudClone, Served
<1>17. CASE UNCHANGED <<pc, run, host>>
  BY <1>17 DEF Served
<1>18. CASE UNCHANGED <<pc, run>> /\ ~UNCHANGED host
  BY <1>6, <1>8, <1>11, <1>12, <1>15, <1>16, <1>18, Touched
<1>19. ASSUME NEW d \in Droplets, CloudFinish(d) PROVE Served'
  BY <1>2, <1>3, <1>5, <1>17, <1>19, Rebooted
<1> QED
  BY <1>6, <1>7, <1>8, <1>9, <1>10, <1>11, <1>12, <1>13, <1>14, <1>17, <1>18, <1>19, Touched
     DEF RunStep

-----------------------------------------------------------------------------
LEMMA InitInv == Init => Inv
<1> SUFFICES ASSUME Init PROVE Inv
  OBVIOUS
<1> USE BoundAssumption DEF Init
<1>1. TypeOK
  <2>1. zone \in [Records -> [type : {"A", "AAAA"}, name : Names, data : {0}] \cup {None}]
    BY ZoneAssumption DEF Records
  <2>2. zone \in [Records -> [type : {"A", "AAAA"}, name : Names, data : Droplets \cup {0}]
                             \cup {None}]
    BY <2>1
  <2>3. run \in Runs
    BY Started
  <2> QED
    BY <2>2, <2>3 DEF TypeOK, Ages, Stages, Empty
<1>2. Births
  <2>1. Live = {} /\ Unborn = 1 .. MaxDroplets
    BY DEF Live, Unborn, Droplets
  <2>2. 1 \in 1 .. MaxDroplets + 1
    OBVIOUS
  <2> QED
    BY <2>1, <2>2 DEF Births, SecondAskedFor
<1>3. Located /\ Counted /\ Pointing /\ Served
  BY DEF Located, Counted, Pointing, Served, AfterDns, NoRun
<1> QED
  BY <1>1, <1>2, <1>3 DEF Inv

THEOREM InvHolds == Spec => []Inv
<1>1. Inv /\ [Next]_vars => Inv'
  BY TypeInv, BirthsInv, LocatedInv, CountedInv, PointingInv, ServedInv DEF Inv
<1> QED
  BY InitInv, <1>1, PTL DEF Spec

\* The types of the account, the zone, the hosts and the script's variables, in every
\* state of every run.
THEOREM TypeCorrect == Spec => []TypeOK
<1>1. Inv => TypeOK
  BY DEF Inv
<1> QED
  BY InvHolds, <1>1, PTL

\* Whatever fails and whenever a run is killed, a droplet made next to a live one
\* of the same name was made by a plain create run.
THEOREM OneUnlessAsked == Spec => []SecondAskedFor
<1>1. Inv => SecondAskedFor
  BY DEF Inv, Births
<1> QED
  BY InvHolds, <1>1, PTL

\* Whatever the zone held and whatever failed before, a run past its DNS phase has
\* made every name of the deployment resolve to its droplet, and only to it.
THEOREM NamesPoint == Spec => []NamesPointHere
<1>1. Inv => NamesPointHere
  <2> SUFFICES ASSUME Inv, pc \in AfterDns, ~run.dry PROVE NamesPointHere
    BY DEF NamesPointHere
  <2>1. \A i \in Used : Tracked(zone[i]) /\ (zone[i].type = "AAAA" => run.six)
          => zone[i].data = run.drop
    BY DEF Inv, Pointing, Concerns, Used
  <2>2. \A n \in DOMAIN Wanted : (Wanted[n][1] = "AAAA" => run.six)
          => \E i \in Used : Key(zone[i]) = Wanted[n]
    BY DEF Inv, Pointing, Has
  <2>3. WaitIpv6 => run.six
    BY DEF Inv, Pointing
  <2> QED
    BY <2>1, <2>2, <2>3 DEF NamesPointHere
<1> QED
  BY InvHolds, <1>1, PTL

\* A run that exits 0 has started the services from what is on its droplet, with
\* the local .env.
THEOREM ExitServed == Spec => []ExitMeansServed
<1>1. Inv => ExitMeansServed
  <2> SUFFICES ASSUME Inv, pc = "done" PROVE ExitMeansServed
    BY DEF ExitMeansServed
  <2>1. file = run.drop
    BY DEF Inv, Located, AfterDns
  <2>2. host[run.drop].up = [code |-> host[run.drop].code, env |-> "new"]
    BY DEF Inv, Served
  <2> QED
    BY <2>1, <2>2 DEF ExitMeansServed
<1> QED
  BY InvHolds, <1>1, PTL

-----------------------------------------------------------------------------
\* The records of a key.
Of(k) == {i \in Used : Key(zone[i]) = k}

\* Phases in which a command is made again although no call has failed.
Retried == {"reboot", "start", "test"}

\* A record beyond the first has cost a fault; a key that the list did not have has
\* no record before its turn, and at its turn one for each failed try at most.
Wasted ==
  /\ pc \notin Retried => run.tries <= faults
  /\ \A n \in DOMAIN Wanted : Cardinality(Of(Wanted[n])) <= 1 + faults
  /\ pc \in {"ipv6", "update"} =>
       \A n \in DOMAIN Wanted : Wanted[n] \notin run.have => Of(Wanted[n]) = {}
  /\ pc = "fill" =>
       \A n \in DOMAIN Wanted : Wanted[n] \notin run.have =>
         /\ n > run.next => Of(Wanted[n]) = {}
         /\ n = run.next => Cardinality(Of(Wanted[n])) <= run.tries

\* A step counts a failed try where it counts a fault, or none, if not Retried.
LEMMA TriesKept ==
  ASSUME TypeOK, pc \notin Retried => run.tries <= faults, [Next]_vars
  PROVE  /\ pc' \notin Retried => run'.tries <= faults'
         /\ faults' \in Nat /\ (faults' = faults \/ faults' = faults + 1)
<1> DEFINE Kept == pc' \notin Retried => run'.tries <= faults'
<1>0. /\ run \in Runs /\ run.tries \in Nat /\ faults \in Nat
  <2>1. run \in Runs /\ faults \in Nat
    BY BoundAssumption DEF TypeOK
  <2> QED
    BY <2>1, MostTries DEF Runs
<1>1. faults' \in Nat /\ (faults' = faults \/ faults' = faults + 1)
  BY <1>0, Touched DEF Fault
<1>2. ASSUME run'.tries = 0 \/ (run'.tries = run.tries /\ pc \notin Retried) PROVE Kept
  BY <1>0, <1>1, <1>2
<1>3. ASSUME Stop \/ \E step : Go(step) PROVE Kept
  BY <1>0, <1>2, <1>3 DEF Stop, NoRun, Go, Runs
<1>4. ASSUME Fault, run' = [run EXCEPT !.tries = @ + 1], pc \notin Retried PROVE Kept
  BY <1>0, <1>4 DEF Fault, Runs
<1>5. ASSUME UNCHANGED <<pc, run>> PROVE Kept
  BY <1>0, <1>1, <1>5
<1>6. ASSUME Locate \/ Create \/ Destroy \/ Clean PROVE Kept
  <2>0. pc \notin Retried
    BY <1>6 DEF Locate, Create, Destroy, Clean, Retried
  <2>1. ASSUME NEW x, \/ run' = Using(x) \/ run' = [run EXCEPT !.fresh = x]
                      \/ run' = [run EXCEPT !.left = x]
        PROVE  Kept
    BY <1>0, <1>2, <2>0, <2>1 DEF Using, Runs
  <2>2. CASE Locate
    BY <1>3, <2>1, <2>2 DEF Locate
  <2>3. CASE Create
    BY <1>3, <2>1, <2>3 DEF Create
  <2>4. CASE Destroy
    <3> DEFINE S == {i \in Used : zone[i].name \in Torn}
    <3>1. Stop \/ run' = [run EXCEPT !.left = S]
      BY <2>4, Zenon DEF Destroy
    <3> HIDE DEF S
    <3> QED
      BY <1>3, <2>1, <3>1
  <2>5. CASE Clean
    BY <1>3, <2>1, <2>5 DEF Clean
  <2> QED
    BY <1>6, <2>2, <2>3, <2>4, <2>5
<1>7. ASSUME NEW kind \in Kinds, NEW dry \in Dry, Start(kind, dry) PROVE Kept
  BY <1>2, <1>7 DEF Start, NoRun
<1>8. ASSUME ListRecords \/ ReadIpv6 \/ UpdateRecord \/ CreateRecord \/ SkipRecord
      PROVE  Kept
  <2>1. pc \notin Retried
    BY <1>8 DEF ListRecords, ReadIpv6, UpdateRecord, CreateRecord, SkipRecord, Retried
  <2> HIDE DEF Kept
  <2> QED
    BY <1>0, <1>2, <1>3, <1>4, <1>8, <2>1
       DEF ListRecords, ReadIpv6, UpdateRecord, CreateRecord, SkipRecord, ApiCall, Attempt,
           Again, Runs
<1>9. ASSUME PostReboot \/ StartServices \/ RemoteTests PROVE Kept
  <2>1. (\E step : Go(step)) \/ Stop \/ UNCHANGED pc
    BY <1>9 DEF PostReboot, StartServices, RemoteTests, Remote, Attempt, Again
  <2>2. pc \in Retried
    BY <1>9 DEF PostReboot, StartServices, RemoteTests, Retried
  <2> QED
    BY <1>3, <2>1, <2>2
<1>10. ASSUME RecordAddress \/ UpdatesDone \/ RecordsDone \/ Marker \/ Connect \/ Sync
              \/ Upload \/ Verify \/ LocalTests \/ Exit \/ Abort
       PROVE  Kept
  BY <1>3, <1>10 DEF RecordAddress, UpdatesDone, RecordsDone, Marker, Connect, Sync, Upload,
     Verify, LocalTests, Exit, Abort
<1>11. ASSUME NEW d \in Droplets, CloudFinish(d) PROVE Kept
  BY <1>3, <1>5, <1>11, Rebooted DEF Retried
<1>12. RunStep => Kept
  BY <1>6, <1>8, <1>9, <1>10 DEF RunStep
<1>13. Kept
  BY <1>5, <1>7, <1>10, <1>11, <1>12, Touched
<1> QED
  BY <1>1, <1>13

\* The records of a key are finitely many.
LEMMA OfFinite ==
  ASSUME NEW k
  PROVE  IsFiniteSet(Of(k)) /\ Cardinality(Of(k)) \in Nat
<1>1. IsFiniteSet(Records)
  BY BoundAssumption, FS_Interval DEF Records
<1>2. Of(k) \subseteq Records
  BY DEF Of, Used
<1> QED
  BY <1>1, <1>2, FS_Subset, FS_CardinalityType

\* An update leaves every record its key; the teardown only deletes.
LEMMA OfKept ==
  ASSUME TypeOK, Located, NEW k, UNCHANGED zone \/ UpdateRecord \/ Clean
  PROVE  /\ Of(k)' \subseteq Of(k)
         /\ Cardinality(Of(k)') <= Cardinality(Of(k)) /\ Cardinality(Of(k)') \in Nat
<1>1. Of(k)' \subseteq Of(k)
  <2>1. CASE UNCHANGED zone
    BY <2>1 DEF Of, Used
  <2>2. CASE UpdateRecord
    <3>1. zone \in [Records -> Entries \cup {None}] /\ Used' = Used
      BY <2>2, RecordUpdated DEF TypeOK, Entries
    <3>2. ASSUME NEW j \in Used PROVE Key(zone'[j]) = Key(zone[j])
      BY <2>2, <3>1, RecordUpdated DEF Key, Used
    <3> QED
      BY <3>1, <3>2 DEF Of
  <2>3. CASE Clean
    <3>1. PICK i : zone' = [zone EXCEPT ![i] = None] \/ zone' = zone
      BY <2>3 DEF Clean
    <3>2. zone \in [Records -> Entries \cup {None}]
      BY DEF TypeOK, Entries
    <3>3. ASSUME NEW j \in Records, zone'[j] # None PROVE zone'[j] = zone[j]
      BY <3>1, <3>2, <3>3
    <3> QED
      BY <3>3 DEF Of, Used
  <2> QED
    BY <2>1, <2>2, <2>3
<1>2. IsFiniteSet(Of(k))
  BY OfFinite
<1>3. IsFiniteSet(Of(k)') /\ Cardinality(Of(k)') <= Cardinality(Of(k))
  BY <1>1, <1>2, FS_Subset
<1> QED
  BY <1>1, <1>3, FS_CardinalityType

\* A creation adds one record, of the key that is due, and none if the key is had.
LEMMA OfCreated ==
  ASSUME TypeOK, Located, CreateRecord, NEW k
  PROVE  /\ k # Wanted[run.next] => Of(k)' \subseteq Of(k)
         /\ Cardinality(Of(k)') <= Cardinality(Of(k)) + 1 /\ Cardinality(Of(k)') \in Nat
         /\ k # Wanted[run.next] => Cardinality(Of(k)') <= Cardinality(Of(k))
<1>1. zone \in [Records -> Entries \cup {None}]
  BY DEF TypeOK, Entries
<1>2. IsFiniteSet(Of(k)) /\ Cardinality(Of(k)) \in Nat
  BY OfFinite
<1>3. CASE UNCHANGED zone
  BY <1>2, <1>3, OfKept
<1>4. ASSUME NEW i \in Records \ Used, NEW r \in Entries, Key(r) = Wanted[run.next],
             zone' = [zone EXCEPT ![i] = r], Used' = Used \cup {i}
      PROVE  /\ Of(k)' \subseteq Of(k) \cup {i}
             /\ k # Wanted[run.next] => Of(k)' \subseteq Of(k)
  <2>1. zone'[i] = r /\ \A j \in Used : zone'[j] = zone[j]
    BY <1>1, <1>4 DEF Used
  <2> QED
    BY <1>4, <2>1 DEF Of
<1>5. ASSUME NEW i, Of(k)' \subseteq Of(k) \cup {i}
      PROVE  Cardinality(Of(k)') <= Cardinality(Of(k)) + 1 /\ Cardinality(Of(k)') \in Nat
  <2>1. /\ IsFiniteSet(Of(k) \cup {i}) /\ Cardinality(Of(k) \cup {i}) \in Nat
        /\ Cardinality(Of(k) \cup {i}) <= Cardinality(Of(k)) + 1
    <3> DEFINE S == Of(k)
    <3>1. IsFiniteSet(S) /\ Cardinality(S) \in Nat
      BY <1>2
    <3> HIDE DEF S
    <3>2. /\ IsFiniteSet(S \cup {i})
          /\ Cardinality(S \cup {i}) = IF i \in S THEN Cardinality(S) ELSE Cardinality(S) + 1
      BY <3>1, FS_AddElement
    <3>3. Cardinality(S \cup {i}) \in Nat /\ Cardinality(S \cup {i}) <= Cardinality(S) + 1
      BY <3>1, <3>2
    <3> QED
      BY <3>2, <3>3 DEF S
  <2>2. IsFiniteSet(Of(k)') /\ Cardinality(Of(k)') <= Cardinality(Of(k) \cup {i})
    BY <1>5, <2>1, FS_Subset
  <2>3. Cardinality(Of(k)') \in Nat
    BY <2>2, FS_CardinalityType
  <2> QED
    BY <1>2, <2>1, <2>2, <2>3
<1>6. Of(k)' \subseteq Of(k) => Cardinality(Of(k)') <= Cardinality(Of(k))
  BY <1>2, FS_Subset
<1> QED
  BY <1>3, <1>4, <1>5, <1>6, RecordCreated

\* What a creation does to the script's variables.
LEMMA CreationCounts ==
  ASSUME TypeOK, CreateRecord
  PROVE  /\ run.next \in DOMAIN Wanted /\ Wanted[run.next] \notin run.have /\ pc = "fill"
         /\ \/ /\ run'.next = run.next + 1 /\ run'.have = run.have
               /\ UNCHANGED <<pc, faults>>
            \/ /\ run'.next = run.next /\ run'.have = run.have /\ UNCHANGED pc
               /\ run'.tries = run.tries + 1 /\ faults' = faults + 1
            \/ pc' = "idle" /\ faults' = faults + 1
<1>0. run \in Runs
  BY DEF TypeOK
<1>1. run.next \in DOMAIN Wanted /\ Wanted[run.next] \notin run.have /\ pc = "fill"
  <2>1. DOMAIN Wanted = 1 .. Len(Wanted) /\ Len(Wanted) \in Nat
    BY WantedKeys
  <2>2. run.next \in 1 .. Len(Wanted) + 1
    BY <1>0 DEF Runs
  <2> QED
    BY <2>1, <2>2 DEF CreateRecord, Missing
<1>2. \/ run' = [run EXCEPT !.next = @ + 1, !.tries = 0] /\ UNCHANGED <<pc, faults>>
      \/ Fault /\ run' = [run EXCEPT !.tries = @ + 1] /\ UNCHANGED pc
      \/ Fault /\ Stop
  BY DEF CreateRecord, ApiCall, Attempt, Again
<1>3. \/ /\ run'.next = run.next + 1 /\ run'.have = run.have
         /\ UNCHANGED <<pc, faults>>
      \/ /\ run'.next = run.next /\ run'.have = run.have /\ UNCHANGED pc
         /\ run'.tries = run.tries + 1 /\ faults' = faults + 1
      \/ pc' = "idle" /\ faults' = faults + 1
  BY <1>0, <1>2 DEF Fault, Stop, Runs
<1> QED
  BY <1>1, <1>3

\* A key gets its records in its turn.
LEMMA WastedCreate ==
  ASSUME TypeOK, Located, LabelsDiffer, Wasted, [Next]_vars, CreateRecord
  PROVE  Wasted'
<1>0. /\ run.tries \in Nat /\ faults \in Nat /\ run.next \in Nat
      /\ \A n \in DOMAIN Wanted : n \in Nat
  <2>1. run \in Runs /\ faults \in Nat /\ Wanted \in Seq(Keys)
    BY BoundAssumption, WantedKeys DEF TypeOK
  <2> QED
    BY <2>1, MostTries DEF Runs
<1>1. /\ run.next \in DOMAIN Wanted /\ Wanted[run.next] \notin run.have /\ pc = "fill"
      /\ \/ /\ run'.next = run.next + 1 /\ run'.have = run.have
            /\ UNCHANGED <<pc, faults>>
         \/ /\ run'.next = run.next /\ run'.have = run.have /\ UNCHANGED pc
            /\ run'.tries = run.tries + 1 /\ faults' = faults + 1
         \/ pc' = "idle" /\ faults' = faults + 1
  BY CreationCounts
<1>2. /\ pc' \notin Retried => run'.tries <= faults'
      /\ faults' \in Nat /\ (faults' = faults \/ faults' = faults + 1)
  BY TriesKept DEF Wasted
<1>3. \A n \in DOMAIN Wanted :
        /\ n # run.next => Of(Wanted[n])' \subseteq Of(Wanted[n])
        /\ n # run.next => Cardinality(Of(Wanted[n])') <= Cardinality(Of(Wanted[n]))
        /\ Cardinality(Of(Wanted[n])') <= Cardinality(Of(Wanted[n])) + 1
        /\ Cardinality(Of(Wanted[n])') \in Nat /\ Cardinality(Of(Wanted[n])) \in Nat
  BY <1>1, OfCreated, OfFinite DEF LabelsDiffer
<1>4. /\ \A n \in DOMAIN Wanted : Wanted[n] \notin run.have /\ n > run.next => Of(Wanted[n]) = {}
      /\ Cardinality(Of(Wanted[run.next])) <= run.tries
      /\ run.tries <= faults
      /\ \A n \in DOMAIN Wanted : Cardinality(Of(Wanted[n])) <= 1 + faults
  BY <1>0, <1>1 DEF Wasted, Retried
<1>5. ASSUME NEW n \in DOMAIN Wanted PROVE Cardinality(Of(Wanted[n])') <= 1 + faults'
  <2>1. CASE n = run.next
    BY <1>0, <1>2, <1>3, <1>4, <2>1
  <2>2. CASE n # run.next
    BY <1>0, <1>2, <1>3, <1>4, <2>2
  <2> QED
    BY <2>1, <2>2
<1>6. ASSUME NEW n \in DOMAIN Wanted, pc' = "fill", Wanted[n] \notin run'.have
      PROVE  /\ n > run'.next => Of(Wanted[n])' = {}
             /\ n = run'.next => Cardinality(Of(Wanted[n])') <= run'.tries
  <2>1. Wanted[n] \notin run.have
    BY <1>1, <1>6
  <2>2. n > run.next => Of(Wanted[n])' = {}
    BY <1>0, <1>3, <1>4, <2>1
  <2>3. CASE run'.next = run.next + 1
    <3>1. n >= run'.next => Of(Wanted[n])' = {}
      BY <1>0, <2>2, <2>3
    <3>2. run'.tries \in Nat
      <4>1. run' \in Runs
        BY RunsInv
      <4> QED
        BY <4>1, MostTries DEF Runs
    <3> QED
      BY <1>0, <2>3, <3>1, <3>2, FS_EmptySet
  <2>4. CASE run'.next = run.next /\ run'.tries = run.tries + 1
    BY <1>0, <1>3, <1>4, <2>2, <2>4
  <2> QED
    BY <1>1, <1>6, <2>3, <2>4
<1>7. pc' \notin {"ipv6", "update"}
  BY <1>1
<1> QED
  BY <1>2, <1>5, <1>6, <1>7 DEF Wasted

\* The list shows which keys have none; until the records are created nobody adds one.
LEMMA WastedRest ==
  ASSUME TypeOK, Located, Counted, Wasted, [Next]_vars, ~CreateRecord
  PROVE  Wasted'
<1>0. /\ run \in Runs /\ run.next \in Nat /\ faults \in Nat
      /\ \A n \in DOMAIN Wanted : n \in Nat /\ n >= 1
  <2>1. run \in Runs /\ faults \in Nat /\ Wanted \in Seq(Keys)
    BY BoundAssumption, WantedKeys DEF TypeOK
  <2> QED
    BY <2>1 DEF Runs
<1>1. /\ pc' \notin Retried => run'.tries <= faults'
      /\ faults' \in Nat /\ (faults' = faults \/ faults' = faults + 1)
  BY TriesKept DEF Wasted
<1>2. \A n \in DOMAIN Wanted :
        /\ Of(Wanted[n])' \subseteq Of(Wanted[n])
        /\ Cardinality(Of(Wanted[n])') <= Cardinality(Of(Wanted[n]))
        /\ Cardinality(Of(Wanted[n])') \in Nat /\ Cardinality(Of(Wanted[n])) \in Nat
  BY OfKept, OfFinite, Touched
<1>3. \A n \in DOMAIN Wanted : Cardinality(Of(Wanted[n])') <= 1 + faults'
  BY <1>0, <1>1, <1>2 DEF Wasted
<1>4. ASSUME pc' \notin {"ipv6", "update", "fill"} PROVE Wasted'
  BY <1>1, <1>3, <1>4 DEF Wasted
<1>5. ASSUME pc \in {"ipv6", "update"}, pc' \in {"ipv6", "update"}, run'.have = run.have
      PROVE  Wasted'
  <2>1. \A n \in DOMAIN Wanted : Wanted[n] \notin run'.have => Of(Wanted[n])' = {}
    BY <1>2, <1>5 DEF Wasted
  <2> QED
    BY <1>1, <1>3, <1>5, <2>1 DEF Wasted
<1>6. ASSUME UNCHANGED <<pc, run>> PROVE Wasted'
  <2>1. \A n \in DOMAIN Wanted :
          /\ Of(Wanted[n]) = {} => Of(Wanted[n])' = {}
          /\ Cardinality(Of(Wanted[n])) <= run.tries => Cardinality(Of(Wanted[n])') <= run.tries
    <3>1. run.tries \in Nat
      BY <1>0, MostTries DEF Runs
    <3> QED
      BY <1>2, <3>1
  <2> QED
    BY <1>1, <1>3, <1>6, <2>1 DEF Wasted
<1>7. ASSUME run' = [run EXCEPT !.tries = @ + 1], UNCHANGED pc, pc \in {"ipv6", "update"}
      PROVE  Wasted'
  BY <1>0, <1>5, <1>7 DEF Runs
<1>8. ASSUME ListRecords PROVE Wasted'
  <2> DEFINE L == {i \in Used : Tracked(zone[i])}
             K == {Key(zone[i]) : i \in Used}
  <2>1. CASE pc' = "ipv6" /\ run' = [run EXCEPT !.left = L, !.have = K, !.tries = 0]
    <3>1. run'.have = K
      <4> HIDE DEF L, K
      <4> QED
        BY <1>0, <2>1 DEF Runs
    <3>2. \A n \in DOMAIN Wanted : Wanted[n] \notin run'.have => Of(Wanted[n])' = {}
      BY <1>2, <3>1 DEF Of
    <3> QED
      BY <1>1, <1>3, <2>1, <3>2 DEF Wasted
  <2>2. CASE pc' \in {"list", "idle"}
    BY <1>4, <2>2
  <2> QED
    BY <1>8, <2>1, <2>2 DEF ListRecords, ApiCall, Attempt, Again, Stop
<1>9. ASSUME ReadIpv6 PROVE Wasted'
  <2> DEFINE S == {i \in run.left : ~run.dry /\ (zone[i].type = "AAAA" => public_ipv6)}
  <2>1. CASE pc' = "update" /\ run' = [run EXCEPT !.six = public_ipv6, !.tries = 0, !.left = S]
    <3>1. run'.have = run.have
      <4> HIDE DEF S
      <4> QED
        BY <1>0, <2>1 DEF Runs
    <3> QED
      BY <1>5, <1>9, <2>1, <3>1 DEF ReadIpv6
  <2>2. CASE Stop
    BY <1>4, <2>2 DEF Stop
  <2>3. CASE UNCHANGED pc /\ run' = [run EXCEPT !.tries = @ + 1]
    BY <1>7, <1>9, <2>3 DEF ReadIpv6
  <2> QED
    <3>1. \/ pc' = "update" /\ run' = [run EXCEPT !.six = public_ipv6, !.tries = 0, !.left = S]
          \/ Stop
          \/ UNCHANGED pc /\ run' = [run EXCEPT !.tries = @ + 1]
      BY <1>9, Zenon DEF ReadIpv6, ApiCall, Attempt, Again
    <3> QED
      BY <2>1, <2>2, <2>3, <3>1, Zenon
<1>10. ASSUME UpdateRecord PROVE Wasted'
  <2> DEFINE S == run.left \ {Least(run.left)}
  <2>1. CASE UNCHANGED pc /\ run' = [run EXCEPT !.left = S, !.tries = 0]
    <3>1. run'.have = run.have
      <4> HIDE DEF S
      <4> QED
        BY <1>0, <2>1 DEF Runs
    <3> QED
      BY <1>5, <1>10, <2>1, <3>1 DEF UpdateRecord
  <2>2. CASE Stop
    BY <1>4, <2>2 DEF Stop
  <2>3. CASE UNCHANGED pc /\ run' = [run EXCEPT !.tries = @ + 1]
    BY <1>7, <1>10, <2>3 DEF UpdateRecord
  <2> QED
    <3>1. \/ UNCHANGED pc /\ run' = [run EXCEPT !.left = S, !.tries = 0]
          \/ Stop
          \/ UNCHANGED pc /\ run' = [run EXCEPT !.tries = @ + 1]
      BY <1>10, Zenon DEF UpdateRecord, ApiCall, Attempt, Again
    <3> QED
      BY <2>1, <2>2, <2>3, <3>1, Zenon
<1>11. ASSUME UpdatesDone PROVE Wasted'
  <2>1. /\ pc = "update" /\ pc' = "fill" /\ run'.have = run.have /\ run'.tries = 0
    BY <1>0, <1>11 DEF UpdatesDone, Go, Runs
  <2>2. \A n \in DOMAIN Wanted : Wanted[n] \notin run'.have => Of(Wanted[n])' = {}
    BY <1>2, <2>1 DEF Wasted
  <2>3. \A n \in DOMAIN Wanted : Wanted[n] \notin run'.have => Cardinality(Of(Wanted[n])') <= run'.tries
    BY <2>1, <2>2, FS_EmptySet
  <2> QED
    BY <1>1, <1>3, <2>1, <2>2, <2>3 DEF Wasted
<1>12. ASSUME SkipRecord PROVE Wasted'
  <2>1. /\ pc = "fill" /\ pc' = "fill" /\ run'.have = run.have /\ run'.tries = run.tries
        /\ run'.next = run.next + 1
    BY <1>0, <1>12 DEF SkipRecord, Runs
  <2>2. \A n \in DOMAIN Wanted :
          Wanted[n] \notin run'.have /\ n >= run'.next => Of(Wanted[n])' = {}
    BY <1>0, <1>2, <2>1 DEF Wasted
  <2>3. run'.tries \in Nat
    BY <1>0, <2>1, MostTries DEF Runs
  <2>4. \A n \in DOMAIN Wanted : Wanted[n] \notin run'.have /\ n = run'.next =>
          Cardinality(Of(Wanted[n])') <= run'.tries
    <3>1. \A n \in DOMAIN Wanted : n = run'.next => n >= run'.next
      BY <1>0, <2>1
    <3>2. Cardinality({}) = 0
      BY FS_EmptySet
    <3> QED
      BY <2>2, <2>3, <3>1, <3>2
  <2>5. \A n \in DOMAIN Wanted : Wanted[n] \notin run'.have /\ n > run'.next => Of(Wanted[n])' = {}
    BY <1>0, <2>1, <2>2
  <2> QED
    BY <1>1, <1>3, <2>1, <2>4, <2>5 DEF Wasted
<1>13. ASSUME RunStep, ~ListRecords, ~ReadIpv6, ~UpdateRecord, ~UpdatesDone, ~SkipRecord
       PROVE  pc' \notin {"ipv6", "update", "fill"}
  <2>1. ASSUME Locate \/ Create \/ RecordAddress \/ RecordsDone \/ Destroy \/ Clean
        PROVE  pc' \notin {"ipv6", "update", "fill"}
    <3>1. Locate => pc' \in {"address", "create", "idle"}
      BY DEF Locate, Stop
    <3>2. Create => pc' \in {"boot", "idle"}
      BY DEF Create, Stop
    <3>3. RecordAddress => pc' = "list"
      BY DEF RecordAddress, Go
    <3>4. RecordsDone => pc' \in {"marker", "connect"}
      BY DEF RecordsDone, Go
    <3>5. Destroy \/ Clean => pc' \in {"clean", "idle"}
      <4>1. Destroy => pc' \in {"clean", "idle"}
        BY Zenon DEF Destroy, Stop
      <4>2. Clean => pc' \in {"clean", "idle"}
        BY DEF Clean, Stop
      <4> QED
        BY <4>1, <4>2
    <3> QED
      BY <2>1, <3>1, <3>2, <3>3, <3>4, <3>5
  <2>2. ASSUME Marker \/ Connect \/ Sync \/ Upload \/ Verify \/ LocalTests \/ Exit
        PROVE  pc' \notin {"ipv6", "update", "fill"}
    BY <2>2 DEF Marker, Connect, Sync, Upload, Verify, LocalTests, Exit, Stop, Go
  <2>3. ASSUME PostReboot \/ StartServices \/ RemoteTests
        PROVE  pc' \notin {"ipv6", "update", "fill"}
    BY <2>3 DEF PostReboot, StartServices, RemoteTests, Remote, Attempt, Again, Stop, Go
  <2> QED
    BY <1>13, <2>1, <2>2, <2>3 DEF RunStep
<1>14. ASSUME RunStep PROVE Wasted'
  BY <1>4, <1>8, <1>9, <1>10, <1>11, <1>12, <1>13, <1>14
<1>15. ASSUME Abort \/ \E kind \in Kinds, dry \in Dry : Start(kind, dry) PROVE Wasted'
  <2>1. CASE Abort
    BY <1>4, <2>1 DEF Abort, Stop
  <2>2. ASSUME NEW kind \in Kinds, NEW dry \in Dry, Start(kind, dry) PROVE Wasted'
    <3>1. pc' \in {"create", "destroy", "locate"}
      BY <2>2 DEF Start
    <3> QED
      BY <1>4, <3>1
  <2> QED
    BY <1>15, <2>1, <2>2
<1>16. ASSUME NEW d \in Droplets, CloudFinish(d) PROVE Wasted'
  BY <1>4, <1>6, <1>16, Rebooted DEF Retried, Stop
<1> QED
  BY <1>6, <1>14, <1>15, <1>16, Touched

\* When no two services have one label and the zone has at most one record of each
\* key at first, every record beyond the first of its kind and name is due to a call
\* that failed: for any number of droplets, records, services, retries and faults.
THEOREM RecordsNeeded ==
  ASSUME LabelsDiffer, ZonesTidy
  PROVE  Spec => []NoNeedlessRecords
<1>1. ASSUME Init PROVE Wasted
  <2>1. /\ run.tries = 0 /\ faults = 0 /\ pc = "idle" /\ zone \in InitZones
    BY <1>1 DEF Init, NoRun
  <2>2. ASSUME NEW n \in DOMAIN Wanted PROVE Cardinality(Of(Wanted[n])) <= 1
    <3>1. \A i, j \in Of(Wanted[n]) : i = j
      BY <2>1 DEF ZonesTidy, Of, Used
    <3>2. CASE Of(Wanted[n]) = {}
      BY <3>2, FS_EmptySet
    <3>3. ASSUME NEW i \in Of(Wanted[n]) PROVE Cardinality(Of(Wanted[n])) = 1
      <4>1. Of(Wanted[n]) = {i}
        BY <3>1, <3>3
      <4> QED
        BY <4>1, FS_Singleton
    <3> QED
      BY <3>2, <3>3
  <2> QED
    BY <2>1, <2>2 DEF Wasted
<1>2. Inv /\ Wasted /\ [Next]_vars => Wasted'
  BY WastedCreate, WastedRest DEF Inv
<1>3. Wasted => NoNeedlessRecords
  BY DEF Wasted, Of, NoNeedlessRecords
<1> QED
  BY <1>1, <1>2, <1>3, InvHolds, PTL DEF Spec

=============================================================================
