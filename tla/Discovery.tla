------------------------------ MODULE Discovery ------------------------------
(***************************************************************************)
(* One scan of the Docker daemon: a list of the running containers, then   *)
(* an inspect of each one whose image looks like a database, then the      *)
(* report, while containers start, stop, go away and change their networks *)
(* and ports.                                                              *)
(*                                                                         *)
(* An image reference is its registry host, its path, and whether it has a *)
(* tag and a digest.  A word of the path is cut where the code's prefix    *)
(* rules may cut it: postgresql is <<"postgres", "ql">>.                   *)
(***************************************************************************)
EXTENDS Integers, FiniteSets, SequencesExt

CONSTANTS
  Ids,         \* container ids
  Images,      \* image references: host, path, tag, digest, and the engine
               \* they are: "" is none, "vendor" another product of a vendor
               \* whose name is a rule
  Wirings,     \* what networks and ports a container can have
  EnvEntries,  \* the environment of every container: key, value, "=" or not
  MaxChanges   \* bound: changes on the host during one scan

MaxPort == 65535

\* Ports are 16-bit numbers, a host port of 0 is none, and a port that is
\* published is not also there without a host port.
ASSUME DiscoveryAssumption ==
  /\ MaxChanges \in Nat
  /\ \A w \in Wirings :
       /\ w = [nets |-> w.nets, ports |-> w.ports]
       /\ w.ports \subseteq [port : 1 .. MaxPort, host : 0 .. MaxPort, proto : STRING]
       /\ \A p, q \in w.ports :
            p.port = q.port /\ p.proto = q.proto /\ p.host = 0 => q.host = 0
  /\ \A e \in EnvEntries : e.val # "set"
  /\ \A i \in Images : Len(i.path) \in Nat \ {0}

VARIABLES
  world,    \* per id: the container on the host
  changes,  \* what has changed there since the scan began
  pc,       \* "idle", "list" or "inspect"
  ctx,      \* "live", or "expired" after the scan's 30 seconds
  todo,     \* entries of the list that the loop has not come to
  out,      \* the containers found
  ran,      \* history: ids running since the scan began
  facts,    \* history: per id the networks and ports it had since then
  failed    \* history: ids whose inspect has failed

hostVars == <<world, changes, ran, facts>>
vars     == <<hostVars, pc, ctx, todo, out, failed>>

-----------------------------------------------------------------------------
(***************************************************************************)
(* Which image is a database.                                              *)
(***************************************************************************)
\* dbTypeByImagePrefix
Rule(p, t) == [path |-> p, type |-> t]
Rules ==
  << Rule(<< <<"postgres">> >>, "postgresql"),
     Rule(<< <<"postgis">>, <<"postgis">> >>, "postgresql"),
     Rule(<< <<"timescale">>, <<"timescale", "db">> >>, "postgresql"),
     Rule(<< <<"bitnami">>, <<"postgres", "ql">> >>, "postgresql"),
     Rule(<< <<"mariadb">> >>, "mariadb"),
     Rule(<< <<"bitnami">>, <<"mariadb">> >>, "mariadb"),
     Rule(<< <<"mysql">> >>, "mysql"),
     Rule(<< <<"percona">> >>, "mysql"),
     Rule(<< <<"bitnami">>, <<"mysql">> >>, "mysql"),
     Rule(<< <<"mongo">> >>, "mongodb"),
     Rule(<< <<"bitnami">>, <<"mongo", "db">> >>, "mongodb"),
     Rule(<< <<"redis">> >>, "redis"),
     Rule(<< <<"bitnami">>, <<"redis">> >>, "redis") >>

\* The digest is dropped, and a host with a dot or a port; another host stays.
normaliseImage(i) ==
  [path |-> IF i.host = "plain" THEN << <<"localhost">> >> \o i.path ELSE i.path,
   tag |-> i.tag]

\* Mutant: any extension of a bare name will do.
isAlnumExtensionAny(name, ext) == ext # <<>>

isAlnumExtension(name, ext) ==
  \/ name = "postgres" /\ ext = <<"ql">>
  \/ name = "mysql" /\ ext # <<>> /\ ToSet(ext) \subseteq {"5", "8"}

\* The rule's path alone or before a tag or a further segment; or a bare name
\* and an extension with nothing behind it, not even a tag.
Matches(rule, n) ==
  \/ IsPrefix(rule.path, n.path)
  \/ /\ Len(rule.path) = 1 /\ Len(n.path) = 1 /\ ~n.tag
     /\ Head(n.path[1]) = rule.path[1][1]
     /\ isAlnumExtension(rule.path[1][1], Tail(n.path[1]))

\* The type of the first rule that matches, "" when none does.
detectDBType(i) ==
  LET hits == {k \in DOMAIN Rules : Matches(Rules[k], normaliseImage(i))}
  IN  IF hits = {} THEN "" ELSE Rules[Min(hits)].type

-----------------------------------------------------------------------------
(***************************************************************************)
(* Ports and environment.                                                  *)
(***************************************************************************)
\* How the daemon writes a number.
Digits(n) ==
  LET k == CHOOSE k \in 1 .. 6 : n < 10 ^ k /\ (k = 1 \/ n >= 10 ^ (k - 1))
  IN  [i \in 1 .. k |-> (n \div 10 ^ (k - i)) % 10]

\* 0 for an empty text and for one that passes MaxPort on the way.  The uint32
\* cannot wrap, since it is looked at after every digit.
parsePort(s) ==
  LET v[k \in 0 .. Len(s)] ==
        IF k = 0 THEN 0
        ELSE IF v[k - 1] > MaxPort THEN v[k - 1] ELSE v[k - 1] * 10 + s[k]
  IN  IF v[Len(s)] > MaxPort THEN 0 ELSE v[Len(s)]

defaultProto(p) == IF p = "" THEN "tcp" ELSE p

\* The inspect answer: per port and protocol the texts of its host ports.
InspectPorts(ports) ==
  {[key |-> Digits(p.port), proto |-> p.proto,
    bindings |-> {Digits(q.host) : q \in {q \in ports :
                    q.port = p.port /\ q.proto = p.proto /\ q.host # 0}}] : p \in ports}

portsFromInspect(in) ==
  UNION {{[port |-> parsePort(k.key), host |-> h, proto |-> defaultProto(k.proto)] :
            h \in IF k.bindings = {} THEN {0} ELSE {parsePort(b) : b \in k.bindings}} :
         k \in {k \in in : parsePort(k.key) # 0}}

\* envHintAllowSet, of which two keys stand for all.
AllowSet == {"POSTGRES_PASSWORD", "MYSQL_USER"}

filterEnv(env) ==
  {[key |-> e.key, val |-> "set"] : e \in {e \in env : e.eq /\ e.key \in AllowSet}}

\* Networks and ports come from the inspect answer c; where that has none, from
\* the list entry e.
buildContainer(e, c, type) ==
  LET ports == portsFromInspect(InspectPorts(c.wiring.ports))
  IN  [id |-> e.id, type |-> type,
       nets |-> IF c.wiring.nets # {} THEN c.wiring.nets ELSE e.wiring.nets,
       ports |-> IF ports # {} THEN ports
                 ELSE {[p EXCEPT !.proto = defaultProto(@)] : p \in e.wiring.ports},
       hints |-> filterEnv(EnvEntries)]

-----------------------------------------------------------------------------
(***************************************************************************)
(* The host.                                                               *)
(***************************************************************************)
Unwired == [nets |-> {}, ports |-> {}]
Container(st, i, m, w) == [state |-> st, image |-> i, moved |-> m, wiring |-> w]
Running == {id \in Ids : world[id].state = "running"}

\* Id id is c from now on.
Change(id, c) ==
  /\ pc # "idle" /\ changes < MaxChanges
  /\ changes' = changes + 1
  /\ world' = [world EXCEPT ![id] = c]
  /\ ran' = IF c.state = "running" THEN ran ELSE ran \ {id}
  /\ facts' = [facts EXCEPT ![id] = @ \cup {c.wiring}]
  /\ UNCHANGED <<pc, ctx, todo, out, failed>>

\* A new container has a new id.
Create(id) ==
  /\ world[id].state = "none"
  /\ \E i \in Images, w \in Wirings : Change(id, Container("running", i, FALSE, w))

\* It stops by itself or is stopped, which takes its ports away.
Die(id) ==
  /\ id \in Running
  /\ Change(id, [world[id] EXCEPT !.state = "exited", !.wiring.ports = {}])

Delete(id) ==
  /\ world[id].state \in {"running", "exited"}
  /\ Change(id, [world[id] EXCEPT !.state = "gone"])

\* Connected to or disconnected from networks.
Rewire(id) ==
  /\ id \in Running
  /\ \E w \in Wirings \ {world[id].wiring} : Change(id, [world[id] EXCEPT !.wiring = w])

\* A pull moves the tag to another image: the list then shows an image id where
\* the name was, while the inspect answer keeps the name.
MoveTag(id) ==
  /\ id \in Running /\ ~world[id].moved /\ ~world[id].image.digest
  /\ Change(id, [world[id] EXCEPT !.moved = TRUE])

IdImage == [host |-> "none", path |-> << <<"sha256">> >>, tag |-> TRUE,
            digest |-> FALSE, db |-> ""]

-----------------------------------------------------------------------------
(***************************************************************************)
(* The scan.                                                               *)
(***************************************************************************)
\* runDiscoveryLoop's tick.
ScanStart ==
  /\ pc = "idle"
  /\ pc' = "list" /\ ctx' = "live" /\ todo' = {} /\ out' = {} /\ failed' = {}
  /\ changes' = 0 /\ ran' = Running
  /\ facts' = [id \in Ids |-> {world[id].wiring}]
  /\ UNCHANGED world

listContainers ==
  /\ pc = "list" /\ ctx = "live"
  /\ todo' = {[id |-> id, wiring |-> world[id].wiring,
               image |-> IF world[id].moved THEN IdImage ELSE world[id].image] :
              id \in Running}
  /\ pc' = "inspect"
  /\ UNCHANGED <<hostVars, ctx, out, failed>>

\* The scan returns the error and nothing is sent.
ListFails == pc = "list" /\ pc' = "idle" /\ UNCHANGED <<hostVars, ctx, todo, out, failed>>

Skip(e) ==
  /\ detectDBType(e.image) = ""
  /\ todo' = todo \ {e}
  /\ UNCHANGED <<hostVars, pc, ctx, out, failed>>

\* An inspect that succeeds; a container that is not running is left out.
inspectContainer(e) ==
  /\ detectDBType(e.image) # "" /\ ctx = "live"
  /\ world[e.id].state \in {"running", "exited"}
  /\ todo' = todo \ {e}
  /\ out' = IF e.id \notin Running THEN out
            ELSE out \cup {buildContainer(e, world[e.id], detectDBType(e.image))}
  /\ UNCHANGED <<hostVars, pc, ctx, failed>>

\* Mutant: the loop ends at the first error.
InspectFailsBreak(e) ==
  /\ detectDBType(e.image) # ""
  /\ todo' = {} /\ failed' = failed \cup {e.id}
  /\ UNCHANGED <<hostVars, pc, ctx, out>>

\* Not found, another status, no answer in time, or the scan's time is up: the
\* container is left out and the loop goes on.
InspectFails(e) ==
  /\ detectDBType(e.image) # ""
  /\ todo' = todo \ {e} /\ failed' = failed \cup {e.id}
  /\ UNCHANGED <<hostVars, pc, ctx, out>>

ScanTimeout ==
  /\ pc # "idle" /\ ctx = "live"
  /\ ctx' = "expired"
  /\ UNCHANGED <<hostVars, pc, todo, out, failed>>

\* Scan returns, BuildReport copies what it found and the report is sent.
BuildReport ==
  /\ pc = "inspect" /\ todo = {}
  /\ pc' = "idle"
  /\ UNCHANGED <<hostVars, ctx, todo, out, failed>>

-----------------------------------------------------------------------------
Containers ==
  {Container("none", IdImage, FALSE, Unwired)}
    \cup (UNION {{Container("running", i, FALSE, w) : w \in Wirings} : i \in Images})
    \cup {Container("running", i, TRUE, Unwired) : i \in {i \in Images : ~i.digest}}

Init ==
  /\ world \in [Ids -> Containers]
  /\ changes = 0 /\ pc = "idle" /\ ctx = "live" /\ todo = {} /\ out = {}
  /\ ran = {} /\ facts = [id \in Ids |-> {}] /\ failed = {}

HostNext ==
  \E id \in Ids : Create(id) \/ Die(id) \/ Delete(id) \/ Rewire(id) \/ MoveTag(id)

ScanNext ==
  \/ ScanStart \/ listContainers \/ ListFails \/ ScanTimeout \/ BuildReport
  \/ \E e \in todo : Skip(e) \/ inspectContainer(e) \/ InspectFails(e)

Next == HostNext \/ ScanNext
Spec == Init /\ [][Next]_vars

-----------------------------------------------------------------------------
(* Properties. *)

\* A report tells the truth.  Each container is in it once, as the engine it
\* is, unless it is another product of a vendor whose name is a rule
\* (redis/redisinsight, percona/percona-server-mongodb), with networks and
\* ports that were its own at some moment of the scan although two answers are
\* mixed and numbers are written and read back, and with no value from its
\* environment.
ReportSound ==
  \A r \in out :
    /\ \A s \in out : s.id = r.id => s = r
    /\ world[r.id].image.db \in {r.type, "vendor"}
    /\ \E w \in facts[r.id] : r.nets = w.nets
    /\ \E w \in facts[r.id] :
         r.ports = {[p EXCEPT !.proto = defaultProto(@)] : p \in w.ports}
    /\ \A h \in r.hints : \E e \in EnvEntries : h.key = e.key /\ h.val # e.val

\* Spellings the rules do not see although detectDBType's comment says that
\* registry and tag are stripped: a host without a dot, which stays in front as
\* if it were a namespace; a namespace that is not in the table, as in
\* library/postgres or example/postgres; a name that is not in it, among them
\* an alias with a tag.
InTable(p) == \E k \in DOMAIN Rules : IsPrefix(Rules[k].path, p)

Overlooked(i) ==
  \/ i.host = "plain"
  \/ Len(i.path) > 1 /\ ~InTable(i.path)
  \/ /\ Len(i.path) = 1 /\ ~InTable(i.path)
     /\ i.tag \/ ~isAlnumExtension(i.path[1][1], Tail(i.path[1]))

\* Whatever happens to other containers, a database that ran from before the
\* list until the report is in it, unless its own inspect failed, its name is
\* one of the overlooked ones or its tag has moved.
StableIsReported ==
  pc = "inspect" /\ todo = {} =>
    \A id \in ran \ failed :
      \/ world[id].image.db \in {"", "vendor"}
      \/ Overlooked(world[id].image) \/ world[id].moved
      \/ \E r \in out : r.id = id
=============================================================================
