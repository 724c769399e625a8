------------------------------- MODULE Deploy -------------------------------
(***************************************************************************)
(* The deployment orchestrator (orchestrate_deploy.py) and the teardown    *)
(* script (orchestrate_teardown.py), run one at a time against the         *)
(* DigitalOcean API: a run creates or finds the droplet, points the names  *)
(* of the domain at it one API call at a time, and brings the services up  *)
(* over SSH.  Any call may fail, before or after it took effect, any run   *)
(* may be killed between two calls, and the next one starts from what is   *)
(* left.                                                                   *)
(*                                                                         *)
(* A droplet is numbered in the order of creation and stands for its own   *)
(* addresses, IPv4 and IPv6; all droplets here bear DO_DROPLET_NAME.  The  *)
(* zone fits on the one page that domains.list_records is asked for, and   *)
(* the local disk does not fail.                                           *)
(*                                                                         *)
(* As in AuthSessions, Mistaken_... is the next definition with a mistake. *)
(***************************************************************************)
EXTENDS Integers, Sequences, FiniteSets

CONSTANTS
  MaxDroplets,  \* a bound: droplets ever created
  MaxRecords,   \* a bound: records of the zone
  Names,        \* of records
  Services,     \* sequence of the labels of the services (TRAEFIK_DNS_LABEL...)
  InitZones,    \* zones the first run may find
  Kinds,        \* of runs: "create", "update" (--update-only), "ensure"
                \* (--update-only --create-if-missing), "teardown"
  Dry,          \* values of --dry-run, a set of Booleans
  WaitIpv6,     \* DO_IPV6_ENABLED
  Retries,      \* DO_API_RETRY_COUNT
  MaxFaults,    \* a bound: calls and set-ups that fail, and runs killed
  None

ASSUME BoundAssumption ==
  MaxDroplets \in Nat /\ MaxRecords \in Nat /\ MaxFaults \in Nat /\ Retries \in Nat \ {0}
ASSUME NamesAssumption == {"@", "www"} \subseteq Names /\ Services \in Seq(Names)
ASSUME ZoneAssumption ==
  InitZones \subseteq
    [1..MaxRecords -> [type : {"A", "AAAA"}, name : Names, data : {0}] \cup {None}]
ASSUME KindAssumption ==
  Kinds \subseteq {"create", "update", "ensure", "teardown"} /\ Dry \subseteq BOOLEAN
ASSUME NoneAssumption ==
  None \notin Nat \cup Names \cup Kinds \cup [type : {"A", "AAAA"}, name : Names, data : Nat]

Droplets == 1..MaxDroplets
Records  == 1..MaxRecords

VARIABLES
  droplet,  \* of the account: status, addresses assigned, kind of run it is from
  zone,     \* DNS records of the domain, by id
  setup,    \* how far the user data of each droplet has come
  host,     \* what is on each droplet
  file,     \* the droplet that DO_userdata.json names, with its address
  pc,
  run,      \* the variables of the script
  faults

cloud == <<droplet, zone, setup>>
vars  == <<cloud, host, file, pc, run, faults>>

Root == "@"
Www  == "www"
Labels == {Services[i] : i \in DOMAIN Services}

\* Records that a run points at its droplet: the names it knows, and wildcards.
\* www is known for type A only.
Tracked(r) ==
  r.name \in {Root, "*"} \cup Labels \/ (r.name = Www /\ r.type = "A")

\* Keys for which a run creates a record when it found none, in this order.
Wanted ==
  <<<<"A", Root>>, <<"A", Www>>, <<"AAAA", Root>>>>
    \o [n \in 1 .. 2 * Len(Services) |->
          <<IF n % 2 = 1 THEN "A" ELSE "AAAA", Services[(n + 1) \div 2]>>]

\* Names whose records the teardown deletes.
Torn == {Root, Www, "traefik"}

Key(r) == <<r.type, r.name>>
Used   == {i \in Records : zone[i] # None}
Live   == {d \in Droplets : droplet[d].status \in {"new", "active"}}
Unborn == {d \in Droplets : droplet[d].status = "none"}
Least(S)    == CHOOSE x \in S : \A y \in S : x <= y
Greatest(S) == CHOOSE x \in S : \A y \in S : x >= y

Ages == {"none", "old", "new"}

\* digital_ocean_base.sh, run once by cloud-init, ends at its first error: installing
\* packages; past the clone; past Docker; past the marker and the reboot.  It may end
\* before Docker was there ("bare") or after that ("unmarked").
Stages == {"packages", "cloned", "docker", "done", "bare", "unmarked"}
Keys == {"A", "AAAA"} \X Names

Runs == [kind : Kinds \cup {None}, dry : BOOLEAN, fresh : BOOLEAN,
         drop : Droplets \cup {None}, six : BOOLEAN, left : SUBSET Records,
         have : SUBSET Keys, next : 1 .. Len(Wanted) + 1,
         tries : 0 .. Greatest({Retries, 2}) - 1]

TypeOK ==
  /\ droplet \in [Droplets -> [status : {"none", "new", "active", "gone"},
                               net : SUBSET {"v4", "v6"}, by : Kinds \cup {None}]]
  /\ zone \in [Records -> [type : {"A", "AAAA"}, name : Names, data : Droplets \cup {0}]
                          \cup {None}]
  /\ setup \in [Droplets -> Stages]
  /\ host \in [Droplets -> [code : Ages, env : Ages, up : [code : Ages, env : Ages]]]
  /\ file \in Droplets \cup {None}
  /\ pc \in {"idle", "locate", "create", "address", "boot", "list", "ipv6", "update",
             "fill", "marker", "connect", "sync", "upload", "reboot", "start", "test",
             "verify", "local", "done", "destroy", "clean"}
  /\ run \in Runs
  /\ faults \in 0 .. MaxFaults

-----------------------------------------------------------------------------
Empty == [code |-> "none", env |-> "none", up |-> [code |-> "none", env |-> "none"]]

NoRun == [kind |-> None, dry |-> FALSE, fresh |-> FALSE, drop |-> None, six |-> FALSE,
          left |-> {}, have |-> {}, next |-> 1, tries |-> 0]

\* exit(1), an exception, or the end of a run.
Stop == pc' = "idle" /\ run' = NoRun

Go(step) == pc' = step /\ run' = [run EXCEPT !.tries = 0]

\* The addresses that the platform shows, waited for.
wait_for_public_ipv4 == "v4" \in droplet[run.drop].net
public_ipv6 == "v6" \in droplet[run.drop].net

\* DO_userdata.json names the droplet and its address from now on.
write_do_userdata(d) == file' = d

\* A call goes wrong.
Fault == faults < MaxFaults /\ faults' = faults + 1

Mistaken_Attempt(max, effect, none, goOn) ==
  \/ effect /\ goOn /\ UNCHANGED faults
  \/ /\ Fault
     /\ effect \/ none
     /\ IF run.tries < max
        THEN run' = [run EXCEPT !.tries = @ + 1] /\ UNCHANGED pc
        ELSE Stop

\* What failed is tried again, up to max times in all.
Again(max) ==
  IF run.tries + 1 < max
  THEN run' = [run EXCEPT !.tries = @ + 1] /\ UNCHANGED pc
  ELSE Stop

\* Attempts of a call: the first max - 1 of them may fail, with or without effect.
Attempt(max, effect, none, goOn) ==
  \/ effect /\ goOn /\ UNCHANGED faults
  \/ Fault /\ (effect \/ none) /\ Again(max)

\* _do_api_call.  An attempt that times out is waited for all the same (leaving
\* the executor joins its thread), and is made again.
ApiCall(effect, none, goOn) == Attempt(Retries, effect, none, goOn)

\* A command over SSH, made once more after an error and a reconnection.
Remote(effect, step) == Attempt(2, effect, UNCHANGED host, Go(step))

\* The run is killed, or a call made once fails, or a wait runs out of time.
Abort ==
  /\ pc # "idle"
  /\ Fault
  /\ Stop
  /\ UNCHANGED <<cloud, host, file>>

\* A run prepares its configuration; DO_userdata.json keeps the fields it has.
Start(kind, dry) ==
  /\ pc = "idle"
  /\ kind \in {"create", "teardown"} => Unborn # {}  \* the bound
  /\ pc' = CASE kind = "create"   -> "create"
             [] kind = "teardown" -> "destroy"
             [] OTHER             -> "locate"
  /\ run' = [NoRun EXCEPT !.kind = kind, !.dry = dry, !.fresh = kind = "create"]
  /\ UNCHANGED <<cloud, host, file, faults>>

\* The droplet of a run is known; what kind of run it is no longer matters.
Using(d) == [run EXCEPT !.drop = d, !.kind = None]

Mistaken_Fallback ==
  /\ pc = "locate"
  /\ \/ Live # {} /\ pc' = "address" /\ run' = Using(Greatest(Live))
     \/ Live = {} /\ Stop
  /\ UNCHANGED <<cloud, host, file, faults>>

Mistaken_Locate ==
  /\ pc = "locate"
  /\ LET active == {d \in Live : droplet[d].status = "active"}
     IN  \/ active # {} /\ pc' = "address" /\ run' = Using(Greatest(active))
         \/ /\ active = {} /\ run.kind = "ensure" /\ Unborn # {}
            /\ pc' = "create" /\ run' = [run EXCEPT !.fresh = TRUE]
         \/ active = {} /\ run.kind = "update" /\ Stop
  /\ UNCHANGED <<cloud, host, file, faults>>

\* The newest droplet of that name.
Locate ==
  /\ pc = "locate"
  /\ \/ Live # {} /\ pc' = "address" /\ run' = Using(Greatest(Live))
     \/ /\ Live = {} /\ run.kind = "ensure" /\ Unborn # {}
        /\ pc' = "create" /\ run' = [run EXCEPT !.fresh = TRUE]
     \/ Live = {} /\ run.kind = "update" /\ Stop
  /\ UNCHANGED <<cloud, host, file, faults>>

\* droplets.create is not retried: when its answer is lost, the run ends.
Create ==
  /\ pc = "create"
  /\ Unborn # {}
  /\ LET d == Least(Unborn)
     IN  /\ droplet' = [droplet EXCEPT ![d] =
                          [status |-> "new", net |-> {}, by |-> run.kind]]
         /\ \/ pc' = "boot" /\ run' = Using(d) /\ UNCHANGED faults
            \/ Fault /\ Stop
  /\ UNCHANGED <<zone, setup, host, file>>

Mistaken_RecordAddress ==
  /\ \/ pc = "address" /\ UNCHANGED file
     \/ /\ pc = "boot" /\ droplet[run.drop].status = "active"
        /\ file' = run.drop
  /\ wait_for_public_ipv4
  /\ Go("list")
  /\ UNCHANGED <<cloud, host, faults>>

\* The address is known: it is written to DO_userdata.json.
RecordAddress ==
  /\ \/ pc = "address"
     \/ pc = "boot" /\ droplet[run.drop].status = "active"
  /\ wait_for_public_ipv4
  /\ write_do_userdata(run.drop)
  /\ Go("list")
  /\ UNCHANGED <<cloud, host, faults>>

-----------------------------------------------------------------------------
\* ensure_dns_records_for_droplet
ListRecords ==
  /\ pc = "list"
  /\ ApiCall(TRUE, TRUE,
       /\ pc' = "ipv6"
       /\ run' = [run EXCEPT !.left = {i \in Used : Tracked(zone[i])},
                             !.have = {Key(zone[i]) : i \in Used}, !.tries = 0])
  /\ UNCHANGED <<cloud, host, file>>

Mistaken_ReadIpv6 ==
  /\ pc = "ipv6"
  /\ LET six == public_ipv6
     IN  ApiCall(TRUE, TRUE,
           /\ pc' = "update"
           /\ run' = [run EXCEPT !.six = six, !.tries = 0,
                !.left = {i \in run.left : ~run.dry /\ (zone[i].type = "AAAA" => six)}])
  /\ UNCHANGED <<cloud, host, file>>

\* AAAA records are left alone when the droplet has no IPv6 address, which is
\* waited for if DO_IPV6_ENABLED.  --dry-run writes no record.
ReadIpv6 ==
  /\ pc = "ipv6"
  /\ LET six == public_ipv6
     IN  ApiCall(TRUE, TRUE,
           /\ WaitIpv6 => six
           /\ pc' = "update"
           /\ run' = [run EXCEPT !.six = six, !.tries = 0,
                !.left = {i \in run.left : ~run.dry /\ (zone[i].type = "AAAA" => six)}])
  /\ UNCHANGED <<cloud, host, file>>

UpdateRecord ==
  /\ pc = "update"
  /\ run.left # {}
  /\ LET i == Least(run.left)
     IN  ApiCall(zone' = [zone EXCEPT ![i].data = run.drop], UNCHANGED zone,
           run' = [run EXCEPT !.left = @ \ {i}, !.tries = 0] /\ UNCHANGED pc)
  /\ UNCHANGED <<droplet, setup, host, file>>

UpdatesDone ==
  /\ pc = "update"
  /\ run.left = {}
  /\ Go("fill")
  /\ UNCHANGED <<cloud, host, file, faults>>

Mistaken_Missing(k) == ~run.dry /\ (k[1] = "AAAA" => run.six)

\* create_a and create_aaaa go by the list read before the updates.
Missing(k) == ~run.dry /\ k \notin run.have /\ (k[1] = "AAAA" => run.six)

CreateRecord ==
  /\ pc = "fill"
  /\ run.next <= Len(Wanted)
  /\ Missing(Wanted[run.next])
  /\ Records # Used
  /\ LET k == Wanted[run.next]
     IN  ApiCall(zone' = [zone EXCEPT ![Least(Records \ Used)] =
                            [type |-> k[1], name |-> k[2], data |-> run.drop]],
                 UNCHANGED zone,
                 run' = [run EXCEPT !.next = @ + 1, !.tries = 0] /\ UNCHANGED pc)
  /\ UNCHANGED <<droplet, setup, host, file>>

SkipRecord ==
  /\ pc = "fill"
  /\ run.next <= Len(Wanted)
  /\ ~Missing(Wanted[run.next])
  /\ run' = [run EXCEPT !.next = @ + 1]
  /\ UNCHANGED <<cloud, host, file, pc, faults>>

RecordsDone ==
  /\ pc = "fill"
  /\ run.next > Len(Wanted)
  /\ Go(IF run.fresh THEN "marker" ELSE "connect")
  /\ UNCHANGED <<cloud, host, file, faults>>

-----------------------------------------------------------------------------
\* Polls for the completion marker, which a run that made its droplet waits for.
Marker ==
  /\ pc = "marker"
  /\ \/ setup[run.drop] = "done" /\ Go("connect")
     \/ setup[run.drop] \in {"bare", "unmarked"} /\ Stop
  /\ UNCHANGED <<cloud, host, file, faults>>

\* run_post_reboot
Connect ==
  /\ pc = "connect"
  /\ droplet[run.drop].status = "active"
  /\ Go(IF run.fresh THEN "upload" ELSE "sync")
  /\ UNCHANGED <<cloud, host, file, faults>>

\* The run gets in the way of user data that has not come to its clone, which ends:
\* its apt-get meets another one, or its clone a directory that is not empty.
Collides(d) == setup[d] = "packages" /\ setup' = [setup EXCEPT ![d] = "bare"]

\* sync_repo ignores the failure of every git command.
Sync ==
  /\ pc = "sync"
  /\ \/ host' = [host EXCEPT ![run.drop].code = "new"] /\ UNCHANGED faults
     \/ Fault /\ UNCHANGED host
  /\ UNCHANGED setup \/ Collides(run.drop)
  /\ Go("upload")
  /\ UNCHANGED <<droplet, zone, file>>

Upload ==
  /\ pc = "upload"
  /\ host' = [host EXCEPT ![run.drop].env = "new"]
  /\ Go("reboot")
  /\ UNCHANGED <<cloud, file, faults>>

\* post_reboot_complete.sh installs node where user data has not yet: its apt-get and
\* that of user data may each make the other fail.
PostReboot ==
  /\ pc = "reboot"
  /\ \/ Remote(UNCHANGED host, "start") /\ UNCHANGED setup
     \/ Go("start") /\ Collides(run.drop) /\ UNCHANGED <<host, faults>>
     \/ /\ setup[run.drop] = "packages" /\ Again(2)
        /\ UNCHANGED setup \/ Collides(run.drop)
        /\ UNCHANGED <<host, faults>>
  /\ UNCHANGED <<droplet, zone, file>>

Mistaken_StartServices ==
  /\ pc = "start"
  /\ LET h == host[run.drop]
     IN  \/ /\ host' = [host EXCEPT ![run.drop].up = [code |-> h.code, env |-> h.env]]
            /\ UNCHANGED faults
         \/ Fault /\ UNCHANGED host
  /\ Go("test")
  /\ UNCHANGED <<cloud, file>>

\* start.sh needs Docker compose, which only user data installs, and the repository.
Startable(d) == setup[d] \in {"docker", "done", "unmarked"} /\ host[d].code # "none"

\* start.sh builds and starts what is there.
StartServices ==
  /\ pc = "start"
  /\ LET h == host[run.drop]
     IN  \/ /\ Startable(run.drop)
            /\ Remote(host' = [host EXCEPT ![run.drop].up = [code |-> h.code, env |-> h.env]],
                      "test")
         \/ ~Startable(run.drop) /\ Again(2) /\ UNCHANGED <<host, faults>>
  /\ UNCHANGED <<cloud, file>>

RemoteTests ==
  /\ pc = "test"
  /\ Remote(UNCHANGED host, "verify")
  /\ UNCHANGED <<cloud, file>>

\* Remote verification, container status and logs; nothing is made again.
Verify ==
  /\ pc = "verify"
  /\ \E localTests \in BOOLEAN : Go(IF localTests THEN "local" ELSE "done")
  /\ UNCHANGED <<cloud, host, file, faults>>

\* --local-tests
LocalTests ==
  /\ pc = "local"
  /\ Go("done")
  /\ UNCHANGED <<cloud, host, file, faults>>

\* exit(0)
Exit ==
  /\ pc = "done"
  /\ Stop
  /\ UNCHANGED <<cloud, host, file, faults>>

-----------------------------------------------------------------------------
\* orchestrate_teardown.py: the first droplet of the list, if the call succeeds;
\* then, with --clean-dns and whatever became of the droplet, some of the names.
Destroy ==
  /\ pc = "destroy"
  /\ \/ \E d \in Live :
          /\ droplet' = [droplet EXCEPT ![d] = [@ EXCEPT !.status = "gone", !.net = {}]]
          /\ setup' = [setup EXCEPT ![d] = "packages"]
          /\ host' = [host EXCEPT ![d] = Empty]
          /\ UNCHANGED faults
     \/ Live = {} /\ UNCHANGED <<droplet, setup, host, faults>>
     \/ Fault /\ UNCHANGED <<droplet, setup, host>>
  /\ \/ Stop
     \/ /\ pc' = "clean"
        /\ run' = [run EXCEPT !.left = {i \in Used : zone[i].name \in Torn}]
  /\ UNCHANGED <<zone, file>>

Clean ==
  /\ pc = "clean"
  /\ \/ \E i \in run.left : /\ i = Least(run.left)
                            /\ zone' = [zone EXCEPT ![i] = None]
                            /\ run' = [run EXCEPT !.left = @ \ {i}]
                            /\ UNCHANGED pc
     \/ run.left = {} /\ Stop /\ UNCHANGED zone
  /\ UNCHANGED <<droplet, setup, host, file, faults>>

-----------------------------------------------------------------------------
\* The platform assigns the addresses of a droplet, and boots it; cloud-init runs the
\* user data.
Assign(d, a) ==
  /\ d \in Live
  /\ a \notin droplet[d].net
  /\ droplet' = [droplet EXCEPT ![d].net = @ \cup {a}]
  /\ UNCHANGED <<zone, setup, host, file, pc, run, faults>>

Activate(d) ==
  /\ droplet[d].status = "new"
  /\ "v4" \in droplet[d].net
  /\ droplet' = [droplet EXCEPT ![d].status = "active"]
  /\ UNCHANGED <<zone, setup, host, file, pc, run, faults>>

\* The repository is cloned, unless its directory is in use already.
CloudClone(d) ==
  /\ droplet[d].status = "active"
  /\ setup[d] = "packages"
  /\ setup' = [setup EXCEPT ![d] = "cloned"]
  /\ host' = IF host[d].code = "none" /\ host[d].env = "none"
             THEN [host EXCEPT ![d].code = "new"]
             ELSE host
  /\ UNCHANGED <<droplet, zone, file, pc, run, faults>>

CloudDocker(d) ==
  /\ droplet[d].status = "active"
  /\ setup[d] = "cloned"
  /\ setup' = [setup EXCEPT ![d] = "docker"]
  /\ UNCHANGED <<droplet, zone, host, file, pc, run, faults>>

\* The marker is written and the droplet reboots, which takes the connection away
\* from a run that has not waited for it; containers come up again by themselves.
CloudFinish(d) ==
  /\ droplet[d].status = "active"
  /\ setup[d] = "docker"
  /\ setup' = [setup EXCEPT ![d] = "done"]
  /\ CASE run.drop = d /\ pc \in {"reboot", "start", "test"} -> Again(2)
       [] run.drop = d /\ pc \in {"sync", "upload", "verify"} -> Stop
       [] OTHER                                              -> UNCHANGED <<pc, run>>
  /\ UNCHANGED <<droplet, zone, host, file, faults>>

\* One of its commands fails: a download, a package, the clone.
CloudFails(d) ==
  /\ droplet[d].status = "active"
  /\ setup[d] \in {"packages", "cloned", "docker"}
  /\ Fault
  /\ setup' = [setup EXCEPT ![d] = IF @ = "docker" THEN "unmarked" ELSE "bare"]
  /\ UNCHANGED <<droplet, zone, host, file, pc, run>>

\* Between runs, the branch and the local .env move on.
Aged(a) == IF a = "new" THEN "old" ELSE a

Change ==
  /\ pc = "idle"
  /\ host' = [d \in Droplets |->
       [code |-> Aged(host[d].code), env |-> Aged(host[d].env),
        up |-> [code |-> Aged(host[d].up.code), env |-> Aged(host[d].up.env)]]]
  /\ UNCHANGED <<cloud, file, pc, run, faults>>

Init ==
  /\ droplet = [d \in Droplets |-> [status |-> "none", net |-> {}, by |-> None]]
  /\ zone \in InitZones
  /\ setup = [d \in Droplets |-> "packages"]
  /\ host = [d \in Droplets |-> Empty]
  /\ file = None
  /\ pc = "idle"
  /\ run = NoRun
  /\ faults = 0

RunStep ==
  \/ Locate \/ Create \/ RecordAddress
  \/ ListRecords \/ ReadIpv6 \/ UpdateRecord \/ UpdatesDone
  \/ CreateRecord \/ SkipRecord \/ RecordsDone
  \/ Marker \/ Connect \/ Sync \/ Upload \/ PostReboot \/ StartServices \/ RemoteTests
  \/ Verify \/ LocalTests \/ Exit
  \/ Destroy \/ Clean

CloudStep(d) ==
  \/ Activate(d) \/ \E a \in {"v4", "v6"} : Assign(d, a)
  \/ CloudClone(d) \/ CloudDocker(d) \/ CloudFinish(d)

Next ==
  \/ \E kind \in Kinds, dry \in Dry : Start(kind, dry)
  \/ RunStep
  \/ Abort
  \/ \E d \in Droplets : CloudStep(d) \/ CloudFails(d)
  \/ Change

Spec == Init /\ [][Next]_vars

\* A run goes on, the platform does its part, and somebody deploys again.
FairSpec ==
  /\ Spec
  /\ WF_vars(RunStep)
  /\ \A d \in Droplets : WF_vars(CloudStep(d))
  /\ SF_vars(Start("ensure", FALSE))

-----------------------------------------------------------------------------
AfterDns == {"marker", "connect", "sync", "upload", "reboot", "start", "test",
             "verify", "local", "done"}

\* Past the DNS phase of a run, every name of the deployment exists and resolves
\* to its droplet and to no other, whatever earlier runs that failed half-way, lost
\* calls, retries and teardowns left in the zone; the AAAA record of www excepted.
NamesPointHere ==
  pc \in AfterDns /\ ~run.dry =>
    /\ \A i \in Used : Tracked(zone[i]) /\ (zone[i].type = "AAAA" => run.six)
         => zone[i].data = run.drop
    /\ \A n \in DOMAIN Wanted : (Wanted[n][1] = "AAAA" => run.six)
         => \E i \in Used : Key(zone[i]) = Wanted[n]
    /\ WaitIpv6 => run.six

\* Only a plain create run makes a droplet next to a live one of the same name: a
\* run with --update-only --create-if-missing that follows one whose answer was
\* lost, or that was killed, finds the droplet that one made.
SecondAskedFor == \A d, e \in Live : d < e => droplet[e].by = "create"

\* What a configuration and a zone have to be for NoNeedlessRecords: two services
\* with one label, or a zone with two records of a key, have more than one record
\* though nothing fails.
LabelsDiffer == \A m, n \in DOMAIN Wanted : Wanted[m] = Wanted[n] => m = n

ZonesTidy ==
  \A z \in InitZones : \A i, j \in Records, n \in DOMAIN Wanted :
    z[i] # None /\ z[j] # None /\ Key(z[i]) = Wanted[n] /\ Key(z[j]) = Wanted[n] => i = j

\* Each record beyond the first of its kind and name is due to a call that failed.
NoNeedlessRecords ==
  \A n \in DOMAIN Wanted :
    Cardinality({i \in Used : Key(zone[i]) = Wanted[n]}) <= 1 + faults

\* A run that exits 0 has started the services with the local .env, from the
\* repository as it is on the droplet, and has recorded that droplet.
ExitMeansServed ==
  pc = "done" => /\ host[run.drop].up.env = "new"
                 /\ host[run.drop].up.code = host[run.drop].code
                 /\ file = run.drop

\* Once calls have ceased to fail, deploying again always succeeds in the end, unless
\* the user data of the droplet that it finds ended before Docker was there: nothing
\* installs it afterwards, and only a teardown or a new droplet helps.
DeploysSucceed ==
  []<>(pc = "done" \/ (Live # {} /\ setup[Greatest(Live)] = "bare"))

\* "Print actions without making changes": a run with --dry-run leaves the account
\* as it is.
DryRunHarmless ==
  [][run.dry /\ RunStep => UNCHANGED <<cloud, host>>]_vars

=============================================================================
