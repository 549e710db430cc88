--------------------------- MODULE DiscoveryProofs ---------------------------
(***************************************************************************)
(* Theorems about Discovery, for any containers, images, wirings,          *)
(* environment and number of changes during a scan.                        *)
(*                                                                         *)
(* A scan mixes two answers, the list and the inspect, of a host that      *)
(* changes in between.  What saves it is that an id keeps its image and    *)
(* never comes back as another container, and that a history of wirings    *)
(* only grows: so each of the two answers stays true of some moment of the *)
(* scan (Listed, History).  The numbers in between are texts, and          *)
(* PortRoundTrip shows that none is lost on the way.                       *)
(***************************************************************************)
EXTENDS Discovery, TLAPS

-----------------------------------------------------------------------------
(***************************************************************************)
(* Ports are written and read back.                                        *)
(***************************************************************************)
\* The last k digits of n, and that it has no more.
Text(n, k)  == [i \in 1 .. k |-> (n \div 10 ^ (k - i)) % 10]
Short(n, k) == n < 10 ^ k

\* All that most proofs need to know of MaxPort: its value is expanded only
\* where its digits count.
LEMMA MaxPortNat == MaxPort \in Nat
BY SMT DEF MaxPort

\* It has five digits.
LEMMA MaxPortSmall == MaxPort < 100000
BY SMT DEF MaxPort

\* And so has every port, at most.
LEMMA PortIsSmall ==
  ASSUME NEW n \in 0 .. MaxPort
  PROVE  n \in Nat /\ n < 100000
BY MaxPortNat, MaxPortSmall, SMT

\* A number that fits a port is written with one to five digits.
LEMMA DigitsOf ==
  ASSUME NEW n \in 0 .. MaxPort
  PROVE  \E k \in 1 .. 5 : Short(n, k) /\ Digits(n) = Text(n, k)
<1> DEFINE Fits(k) == n < 10 ^ k /\ (k = 1 \/ n >= 10 ^ (k - 1))
           kk == CHOOSE k \in 1 .. 6 : Fits(k)
<1>1. /\ Fits(1) <=> n < 10
      /\ Fits(2) <=> n < 100 /\ n >= 10
      /\ Fits(3) <=> n < 1000 /\ n >= 100
  BY SMT
<1>2. /\ Fits(4) <=> n < 10000 /\ n >= 1000
      /\ Fits(5) <=> n < 100000 /\ n >= 10000
      /\ Fits(6) => n >= 100000
  BY SMT
<1>3. Digits(n) = Text(n, kk)
  BY DEF Digits, Text
<1>5. \A k : Fits(k) => Short(n, k)
  BY Zenon DEF Short
<1> HIDE DEF Fits
<1>4. ~Fits(6) /\ (Fits(1) \/ Fits(2) \/ Fits(3) \/ Fits(4) \/ Fits(5))
  <2>1. n \in Nat /\ n < 100000
    BY PortIsSmall
  <2>2. /\ ~(n >= 100000)
        /\ \/ n < 10 \/ (n < 100 /\ n >= 10) \/ (n < 1000 /\ n >= 100)
           \/ (n < 10000 /\ n >= 1000) \/ n >= 10000
    BY <2>1, SMT
  <2> QED
    BY <1>1, <1>2, <2>1, <2>2, SMT
<1>6. \E k \in 1 .. 6 : Fits(k)
  BY <1>4
<1>7. kk \in 1 .. 6 /\ Fits(kk)
  BY <1>6
<1> HIDE DEF kk
<1>8. kk \in 1 .. 5
  BY <1>4, <1>7
<1> QED
  BY <1>3, <1>5, <1>7, <1>8

\* parsePort's loop: what it has read after each digit.
Reads(s, v) ==
  v = [k \in 0 .. Len(s) |->
         IF k = 0 THEN 0
         ELSE IF v[k - 1] > MaxPort THEN v[k - 1] ELSE v[k - 1] * 10 + s[k]]

\* What the loop computes, once it is known to compute something: parsePort
\* is the value behind the last digit, or 0 when that is too large.
LEMMA ParsedIs ==
  ASSUME NEW s, NEW f, Reads(s, f)
  PROVE  \E v : Reads(s, v) /\ parsePort(s) = IF v[Len(s)] > MaxPort THEN 0 ELSE v[Len(s)]
<1> DEFINE Loop(v) ==
      [k \in 0 .. Len(s) |->
         IF k = 0 THEN 0
         ELSE IF v[k - 1] > MaxPort THEN v[k - 1] ELSE v[k - 1] * 10 + s[k]]
           u == CHOOSE v : v = Loop(v)
<1>1. f = Loop(f)
  BY DEF Reads
<1>2. parsePort(s) = IF u[Len(s)] > MaxPort THEN 0 ELSE u[Len(s)]
  BY DEF parsePort
<1>3. ASSUME NEW v, v = Loop(v) PROVE Reads(s, v)
  BY <1>3 DEF Reads
<1> HIDE DEF Loop
<1>4. u = Loop(u)
  BY <1>1, Zenon
<1> HIDE DEF u
<1> QED
  BY <1>2, <1>3, <1>4

\* Where every prefix of the text is a number that fits, so is the whole.
LEMMA Horner ==
  ASSUME NEW L \in 1 .. 5, NEW s, Len(s) = L,
         NEW f \in [0 .. L -> 0 .. MaxPort], f[0] = 0,
         \A k \in 1 .. L : f[k] = f[k - 1] * 10 + s[k]
  PROVE  parsePort(s) = f[L]
<1> DEFINE Step(g, k) ==
      IF k = 0 THEN 0 ELSE IF g[k - 1] > MaxPort THEN g[k - 1] ELSE g[k - 1] * 10 + s[k]
<1>1. \A k \in 0 .. L : f[k] = Step(f, k)
  <2> TAKE k \in 0 .. L
  <2>1. CASE k = 0
    BY <2>1
  <2>2. CASE k # 0
    <3>1. k \in 1 .. L /\ k - 1 \in 0 .. L
      BY <2>2
    <3>2. f[k - 1] \in 0 .. MaxPort /\ f[k] = f[k - 1] * 10 + s[k]
      BY <3>1
    <3>3. ~(f[k - 1] > MaxPort)
      BY <3>2, MaxPortNat
    <3> QED
      BY <2>2, <3>2, <3>3, Zenon
  <2> QED
    BY <2>1, <2>2
<1>2. Reads(s, f)
  <2>1. f = [k \in 0 .. L |-> Step(f, k)]
    <3> HIDE DEF Step
    <3> QED
      BY <1>1
  <2> QED
    BY <2>1 DEF Reads
<1>3. PICK v : Reads(s, v) /\ parsePort(s) = IF v[Len(s)] > MaxPort THEN 0 ELSE v[Len(s)]
  BY <1>2, ParsedIs
<1>4. \A k \in 0 .. L : v[k] = Step(v, k)
  BY <1>3, Zenon DEF Reads
<1> DEFINE Same(k) == v[k] = f[k]
<1>5. Same(0)
  BY <1>4
<1>6. ASSUME NEW k \in 1 .. L, Same(k - 1) PROVE Same(k)
  <2>0. k \in 0 .. L
    OBVIOUS
  <2>1. v[k] = Step(v, k)
    BY <1>4, <2>0, Zenon
  <2>2. f[k] = Step(f, k)
    BY <1>1, <2>0, Zenon
  <2>3. Step(v, k) = Step(f, k)
    BY <1>6, Zenon
  <2> QED
    BY <2>1, <2>2, <2>3, Zenon
<1> HIDE DEF Step, Same
<1>7. Same(1)
  <2>1. 1 \in 1 .. L /\ 1 - 1 = 0
    OBVIOUS
  <2> QED
    BY <1>5, <1>6, <2>1
<1>8. L >= 2 => Same(2)
  <2>1. L >= 2 => 2 \in 1 .. L /\ 2 - 1 = 1 /\ L >= 1
    OBVIOUS
  <2> QED
    BY <1>6, <1>7, <2>1
<1>9. L >= 3 => Same(3)
  <2>1. L >= 3 => 3 \in 1 .. L /\ 3 - 1 = 2 /\ L >= 2
    OBVIOUS
  <2> QED
    BY <1>6, <1>8, <2>1
<1>10. L >= 4 => Same(4)
  <2>1. L >= 4 => 4 \in 1 .. L /\ 4 - 1 = 3 /\ L >= 3
    OBVIOUS
  <2> QED
    BY <1>6, <1>9, <2>1
<1>11. L >= 5 => Same(5)
  <2>1. L >= 5 => 5 \in 1 .. L /\ 5 - 1 = 4 /\ L >= 4
    OBVIOUS
  <2> QED
    BY <1>6, <1>10, <2>1
<1>12. Same(L)
  <2>1. L = 1 \/ L = 2 \/ L = 3 \/ L = 4 \/ L = 5
    OBVIOUS
  <2>2. CASE L = 1
    BY <1>7, <2>2
  <2>3. CASE L = 2
    BY <1>8, <2>3
  <2>4. CASE L = 3
    BY <1>9, <2>4
  <2>5. CASE L = 4
    BY <1>10, <2>5
  <2>6. CASE L = 5
    BY <1>11, <2>6
  <2> QED
    BY <2>1, <2>2, <2>3, <2>4, <2>5, <2>6
<1>13. v[L] = f[L] /\ f[L] \in 0 .. MaxPort
  BY <1>12 DEF Same
<1>14. ~(v[L] > MaxPort)
  BY <1>13, MaxPortNat
<1> QED
  BY <1>3, <1>13, <1>14, Zenon

\* The number without its last i digits, and the digit that is then last.
Cut(n, i)   == n \div 10 ^ i
Digit(n, i) == Cut(n, i) % 10

\* Powers of ten, so that the arithmetic below is linear.
LEMMA Cuts ==
  ASSUME NEW n \in Nat
  PROVE  /\ Cut(n, 0) = n /\ Cut(n, 1) = n \div 10 /\ Cut(n, 2) = n \div 100
         /\ Cut(n, 3) = n \div 1000 /\ Cut(n, 4) = n \div 10000
         /\ Cut(n, 5) = n \div 100000
<1>1. /\ 10 ^ 0 = 1 /\ 10 ^ 1 = 10 /\ 10 ^ 2 = 100 /\ 10 ^ 3 = 1000
      /\ 10 ^ 4 = 10000 /\ 10 ^ 5 = 100000
  BY SMT
<1> QED
  BY <1>1, SMT DEF Cut

\* Quotient and rest of a division by ten.
LEMMA QuotientAndRest ==
  ASSUME NEW n \in Nat
  PROVE  n \div 10 \in Nat /\ n - 10 * (n \div 10) \in 0 .. 9
BY SMT

\* The rest is determined by the quotient.
LEMMA RestIs ==
  ASSUME NEW n \in Nat, NEW q \in Nat, NEW r \in 0 .. 9, n = 10 * q + r
  PROVE  n % 10 = r
BY SMT

\* A number is ten times its quotient and its rest.
LEMMA DivMod ==
  ASSUME NEW n \in Nat, NEW x, NEW y, x = n \div 10, y = n % 10
  PROVE  n = x * 10 + y
<1>1. x \in Nat /\ n - 10 * x \in 0 .. 9
  BY QuotientAndRest
<1>2. PICK r \in 0 .. 9 : r = n - 10 * x
  BY <1>1
<1>3. n = 10 * x + r
  BY <1>1, <1>2
<1>4. y = r
  BY <1>1, <1>3, RestIs
<1> QED
  BY <1>1, <1>3, <1>4

\* One digit more or less.
LEMMA CutOnce ==
  ASSUME NEW n \in Nat, NEW i \in 0 .. 4
  PROVE  Cut(n, i) = Cut(n, i + 1) * 10 + Digit(n, i)
<1>1. Cut(n, i) \in Nat /\ Cut(n, i + 1) = Cut(n, i) \div 10
  <2>1. /\ n \div 10 \in Nat /\ n \div 100 \in Nat
        /\ n \div 1000 \in Nat /\ n \div 10000 \in Nat
    BY SMT
  <2>2. n \div 100 = (n \div 10) \div 10
    BY SMT
  <2>3. n \div 1000 = (n \div 100) \div 10
    BY SMT
  <2>4. n \div 10000 = (n \div 1000) \div 10
    BY SMT
  <2>5. n \div 100000 = (n \div 10000) \div 10
    BY SMT
  <2>6. CASE i = 0 /\ i + 1 = 1
    BY <2>6, Cuts
  <2>7. CASE i = 1 /\ i + 1 = 2
    BY <2>1, <2>2, <2>7, Cuts
  <2>8. CASE i = 2 /\ i + 1 = 3
    BY <2>1, <2>3, <2>8, Cuts
  <2>9. CASE i = 3 /\ i + 1 = 4
    BY <2>1, <2>4, <2>9, Cuts
  <2>10. CASE i = 4 /\ i + 1 = 5
    BY <2>1, <2>5, <2>10, Cuts
  <2> QED
    BY <2>6, <2>7, <2>8, <2>9, <2>10
<1>2. Digit(n, i) = Cut(n, i) % 10
  BY DEF Digit
<1> QED
  BY <1>1, <1>2, DivMod

\* A number that is cut still fits, and nothing is left of a short one.
LEMMA CutFits ==
  ASSUME NEW n \in 0 .. MaxPort, NEW i \in 0 .. 5
  PROVE  /\ Cut(n, i) \in 0 .. MaxPort
         /\ i = 0 => Cut(n, i) = n
         /\ Short(n, i) => Cut(n, i) = 0
<1>1. /\ 10 ^ 0 = 1 /\ 10 ^ 1 = 10 /\ 10 ^ 2 = 100 /\ 10 ^ 3 = 1000
      /\ 10 ^ 4 = 10000 /\ 10 ^ 5 = 100000
  BY SMT
<1>2. CASE i = 0
  BY <1>1, <1>2, MaxPortNat, SMT DEF Cut, Short
<1>3. CASE i = 1
  BY <1>1, <1>3, MaxPortNat, SMT DEF Cut, Short
<1>4. CASE i = 2
  BY <1>1, <1>4, MaxPortNat, SMT DEF Cut, Short
<1>5. CASE i = 3
  BY <1>1, <1>5, MaxPortNat, SMT DEF Cut, Short
<1>6. CASE i = 4
  BY <1>1, <1>6, MaxPortNat, SMT DEF Cut, Short
<1>7. CASE i = 5
  BY <1>1, <1>7, MaxPortNat, SMT DEF Cut, Short
<1> QED
  BY <1>2, <1>3, <1>4, <1>5, <1>6, <1>7

\* A port number written and read back is itself.
LEMMA PortRoundTrip ==
  ASSUME NEW n \in 0 .. MaxPort
  PROVE  parsePort(Digits(n)) = n
<1>1. PICK k \in 1 .. 5 : Short(n, k) /\ Digits(n) = Text(n, k)
  BY DigitsOf
<1> DEFINE s == Text(n, k)
           f == [j \in 0 .. k |-> Cut(n, k - j)]
<1>2. Len(s) = k
  BY DEF Text
<1>3. f \in [0 .. k -> 0 .. MaxPort]
  <2>1. \A j \in 0 .. k : k - j \in 0 .. 5
    OBVIOUS
  <2> QED
    BY <2>1, CutFits
<1>4. f[0] = 0
  <2>1. f[0] = Cut(n, k)
    OBVIOUS
  <2>2. k \in 0 .. 5
    OBVIOUS
  <2> QED
    BY <1>1, <2>1, <2>2, CutFits
<1>5. f[k] = n
  <2>1. f[k] = Cut(n, 0)
    OBVIOUS
  <2> QED
    BY <2>1, CutFits
<1>6. ASSUME NEW j \in 1 .. k PROVE f[j] = f[j - 1] * 10 + s[j]
  <2>1. k - j \in 0 .. 4 /\ k - (j - 1) = (k - j) + 1
    OBVIOUS
  <2>2. f[j] = Cut(n, k - j) /\ f[j - 1] = Cut(n, (k - j) + 1)
    BY <2>1
  <2>3. s[j] = Digit(n, k - j)
    BY DEF Text, Cut, Digit
  <2>4. n \in Nat
    BY MaxPortNat
  <2>5. Cut(n, k - j) = Cut(n, (k - j) + 1) * 10 + Digit(n, k - j)
    BY <2>1, <2>4, CutOnce
  <2> HIDE DEF s, f
  <2> QED
    BY <2>2, <2>3, <2>5
<1> HIDE DEF s, f
<1>7. parsePort(s) = f[k]
  BY <1>2, <1>3, <1>4, <1>6, Horner
<1> QED
  BY <1>1, <1>5, <1>7 DEF s

\* The ports of the assumption; one with its protocol filled in; the keys of
\* the inspect answer, and the host ports portsFromInspect reads from one.
Ports == [port : 1 .. MaxPort, host : 0 .. MaxPort, proto : STRING]
Plain(p) == [port |-> p.port, host |-> p.host, proto |-> defaultProto(p.proto)]
Bound(P, p) ==
  {Digits(q.host) : q \in {q \in P : q.port = p.port /\ q.proto = p.proto /\ q.host # 0}}
Entry(P, p) == [key |-> Digits(p.port), proto |-> p.proto, bindings |-> Bound(P, p)]
HostsOf(k) == IF k.bindings = {} THEN {0} ELSE {parsePort(b) : b \in k.bindings}

\* Two ways to write a port with its protocol filled in.
LEMMA PlainPort ==
  ASSUME NEW p \in Ports
  PROVE  [p EXCEPT !.proto = defaultProto(@)] = Plain(p)
BY DEF Ports, Plain

\* The host ports read from one key of the inspect answer are those of the
\* ports that were gathered under it; an empty list stands for the host port 0.
LEMMA EntryHosts ==
  ASSUME NEW P, P \subseteq Ports, NEW p \in P,
         \A x, y \in P : x.port = y.port /\ x.proto = y.proto /\ x.host = 0 => y.host = 0
  PROVE  HostsOf(Entry(P, p)) =
           {q.host : q \in {q \in P : q.port = p.port /\ q.proto = p.proto}}
<1> DEFINE Q == {q \in P : q.port = p.port /\ q.proto = p.proto}
<1>1. Entry(P, p).bindings = Bound(P, p)
  BY DEF Entry
<1>2. \A q \in P : q.host \in 0 .. MaxPort /\ parsePort(Digits(q.host)) = q.host
  BY PortRoundTrip DEF Ports
<1>3. CASE p.host = 0
  <2>1. \A q \in Q : q.host = 0
    BY <1>3
  <2>2. Bound(P, p) = {}
    BY <2>1 DEF Bound
  <2> QED
    BY <1>1, <1>3, <2>1, <2>2 DEF HostsOf
<1>4. CASE p.host # 0
  <2>1. \A q \in Q : q.host # 0
    BY <1>4
  <2>2. Bound(P, p) = {Digits(q.host) : q \in Q}
    BY <2>1 DEF Bound
  <2>3. Bound(P, p) # {}
    BY <2>2
  <2>4. {parsePort(b) : b \in Bound(P, p)} = {parsePort(Digits(q.host)) : q \in Q}
    BY <2>2
  <2>5. {parsePort(Digits(q.host)) : q \in Q} = {q.host : q \in Q}
    BY <1>2
  <2> QED
    BY <1>1, <2>3, <2>4, <2>5 DEF HostsOf
<1> QED
  BY <1>3, <1>4

\* What portsFromInspect makes of the inspect answer is what the ports are.
LEMMA PortsSurvive ==
  ASSUME NEW P, P \subseteq Ports,
         \A x, y \in P : x.port = y.port /\ x.proto = y.proto /\ x.host = 0 => y.host = 0
  PROVE  portsFromInspect(InspectPorts(P)) =
           {[p EXCEPT !.proto = defaultProto(@)] : p \in P}
<1> DEFINE Of(k) == {[port |-> parsePort(k.key), host |-> h,
                      proto |-> defaultProto(k.proto)] : h \in HostsOf(k)}
           In == {Entry(P, p) : p \in P}
<1>1. InspectPorts(P) = In
  BY DEF InspectPorts, Entry, Bound
<1>2. portsFromInspect(In) = UNION {Of(k) : k \in {k \in In : parsePort(k.key) # 0}}
  BY DEF portsFromInspect, HostsOf
<1>3. ASSUME NEW p \in P
      PROVE  parsePort(Entry(P, p).key) = p.port /\ p.port # 0
  <2>1. p.port \in 0 .. MaxPort /\ p.port # 0
    BY MaxPortNat DEF Ports
  <2> QED
    BY <2>1, PortRoundTrip DEF Entry
<1>4. {k \in In : parsePort(k.key) # 0} = In
  BY <1>3
<1>5. ASSUME NEW p \in P
      PROVE  Of(Entry(P, p)) =
               {Plain(q) : q \in {q \in P : q.port = p.port /\ q.proto = p.proto}}
  <2>1. HostsOf(Entry(P, p)) =
          {q.host : q \in {q \in P : q.port = p.port /\ q.proto = p.proto}}
    BY EntryHosts
  <2>2. Entry(P, p).proto = p.proto
    BY DEF Entry
  <2>3. Of(Entry(P, p)) = {[port |-> p.port, host |-> h, proto |-> defaultProto(p.proto)] :
                             h \in HostsOf(Entry(P, p))}
    BY <1>3, <2>2
  <2> QED
    BY <2>1, <2>3 DEF Plain
<1> HIDE DEF Of
<1>6. UNION {Of(k) : k \in In} = {Plain(p) : p \in P}
  <2>1. ASSUME NEW x \in UNION {Of(k) : k \in In} PROVE x \in {Plain(p) : p \in P}
    BY <1>5
  <2>2. ASSUME NEW p \in P PROVE Plain(p) \in UNION {Of(k) : k \in In}
    BY <1>5
  <2> QED
    BY <2>1, <2>2
<1>7. {Plain(p) : p \in P} = {[p EXCEPT !.proto = defaultProto(@)] : p \in P}
  BY PlainPort
<1> QED
  BY <1>1, <1>2, <1>4, <1>6, <1>7

\* The image id that the list shows after a pull has moved the tag is no name
\* the rules know,
LEMMA NoRuleForIds == \A k \in DOMAIN Rules : ~Matches(Rules[k], normaliseImage(IdImage))
<1>1. normaliseImage(IdImage) = [path |-> << <<"sha256">> >>, tag |-> TRUE]
  BY DEF normaliseImage, IdImage
<1>2. \A k \in DOMAIN Rules : Len(Rules[k].path) >= 1 /\ Rules[k].path[1] # <<"sha256">>
  <2>0. DOMAIN Rules = 1 .. 13
    BY DEF Rules
  <2> SUFFICES ASSUME NEW k \in 1 .. 13
               PROVE  Len(Rules[k].path) >= 1 /\ Rules[k].path[1] # <<"sha256">>
    BY <2>0
  <2>1. CASE k = 1
    BY <2>1 DEF Rules, Rule
  <2>2. CASE k = 2
    BY <2>2 DEF Rules, Rule
  <2>3. CASE k = 3
    BY <2>3 DEF Rules, Rule
  <2>4. CASE k = 4
    BY <2>4 DEF Rules, Rule
  <2>5. CASE k = 5
    BY <2>5 DEF Rules, Rule
  <2>6. CASE k = 6
    BY <2>6 DEF Rules, Rule
  <2>7. CASE k = 7
    BY <2>7 DEF Rules, Rule
  <2>8. CASE k = 8
    BY <2>8 DEF Rules, Rule
  <2>9. CASE k = 9
    BY <2>9 DEF Rules, Rule
  <2>10. CASE k = 10
    BY <2>10 DEF Rules, Rule
  <2>11. CASE k = 11
    BY <2>11 DEF Rules, Rule
  <2>12. CASE k = 12
    BY <2>12 DEF Rules, Rule
  <2>13. CASE k = 13
    BY <2>13 DEF Rules, Rule
  <2> QED
    BY <2>1, <2>2, <2>3, <2>4, <2>5, <2>6, <2>7, <2>8, <2>9, <2>10, <2>11, <2>12, <2>13
<1> QED
  BY <1>1, <1>2 DEF Matches, IsPrefix

\* so that the container is passed over.
LEMMA IdIsNoDatabase == detectDBType(IdImage) = ""
BY NoRuleForIds DEF detectDBType

-----------------------------------------------------------------------------
(***************************************************************************)
(* What the table dbTypeByImagePrefix takes for a database.                *)
(***************************************************************************)
\* What is asked of the images in use: one that the table takes for an engine
\* is that engine, or another product of a vendor that the table names.
RulesAreSound ==
  \A i \in Images : detectDBType(i) # "" => i.db \in {detectDBType(i), "vendor"}

\* Some numbers of the table have a first one among them.
LEMMA FirstRule ==
  ASSUME NEW S, S \subseteq DOMAIN Rules, S # {}
  PROVE  Min(S) \in S
<1>1. DOMAIN Rules = 1 .. 13
  BY DEF Rules
<1>2. \A x \in S : x \in 1 .. 13
  BY <1>1
<1>3. \E x \in S : \A y \in S : x =< y
  <2> DEFINE Empty(n) == \A y \in S : n =< y
  <2> SUFFICES ASSUME ~ \E x \in S : Empty(x) PROVE FALSE
    OBVIOUS
  <2>1. Empty(1)
    BY <1>2
  <2>2. ASSUME NEW n \in 1 .. 13, Empty(n) PROVE Empty(n + 1)
    BY <1>2, <2>2
  <2> HIDE DEF Empty
  <2>3. Empty(2) /\ Empty(3) /\ Empty(4) /\ Empty(5)
    BY <2>1, <2>2
  <2>4. Empty(6) /\ Empty(7) /\ Empty(8) /\ Empty(9)
    BY <2>2, <2>3
  <2>5. Empty(10) /\ Empty(11) /\ Empty(12) /\ Empty(13)
    BY <2>2, <2>4
  <2>6. Empty(14)
    BY <2>2, <2>5
  <2> QED
    BY <1>2, <2>6 DEF Empty
<1> QED
  BY <1>3 DEF Min

\* A rule that matches makes the image a database.
LEMMA MatchIsFound ==
  ASSUME NEW i, NEW k \in DOMAIN Rules, Matches(Rules[k], normaliseImage(i))
  PROVE  detectDBType(i) # ""
<1> DEFINE hits == {j \in DOMAIN Rules : Matches(Rules[j], normaliseImage(i))}
<1>1. k \in hits /\ hits \subseteq DOMAIN Rules
  OBVIOUS
<1>2. detectDBType(i) = IF hits = {} THEN "" ELSE Rules[Min(hits)].type
  BY DEF detectDBType
<1> HIDE DEF hits
<1>3. Min(hits) \in DOMAIN Rules
  BY <1>1, FirstRule
<1>4. \A j \in DOMAIN Rules : Rules[j].type # ""
  <2>1. DOMAIN Rules = 1 .. 13
    BY DEF Rules
  <2>2. \A j \in 1 .. 13 :
          Rules[j].type \in {"postgresql", "mariadb", "mysql", "mongodb", "redis"}
    BY DEF Rules, Rule
  <2> QED
    BY <2>1, <2>2
<1> QED
  BY <1>1, <1>2, <1>3, <1>4

\* The table sees every image that is not spelled in one of the overlooked
\* ways: a name of the table with whatever tag or digest and behind a host
\* that is stripped, or an alias without a tag.
LEMMA SpelledIsFound ==
  ASSUME NEW i \in Images, ~Overlooked(i)
  PROVE  detectDBType(i) # ""
<1> DEFINE n == normaliseImage(i)
<1>1. i.host # "plain"
  BY DEF Overlooked
<1>2. n.path = i.path /\ n.tag = i.tag
  BY <1>1 DEF normaliseImage
<1>3. Len(i.path) \in Nat \ {0}
  BY DiscoveryAssumption
<1>4. CASE InTable(i.path)
  <2>1. PICK k \in DOMAIN Rules : IsPrefix(Rules[k].path, i.path)
    BY <1>4, Zenon DEF InTable
  <2>2. Matches(Rules[k], n)
    BY <1>2, <2>1, Zenon DEF Matches
  <2> QED
    BY <2>2, MatchIsFound
<1>5. CASE ~InTable(i.path)
  <2>1. /\ Len(i.path) = 1 /\ ~i.tag
        /\ isAlnumExtension(i.path[1][1], Tail(i.path[1]))
    <3>1. ~(Len(i.path) > 1)
      BY <1>5, Zenon DEF Overlooked
    <3>2. ASSUME NEW m \in Nat \ {0}, ~(m > 1) PROVE m = 1
      BY <3>2
    <3>3. Len(i.path) = 1
      BY <1>3, <3>1, <3>2, Zenon
    <3> QED
      BY <1>5, <3>3, Zenon DEF Overlooked
  <2>2. Head(i.path[1]) = i.path[1][1]
    OBVIOUS
  <2>3. CASE i.path[1][1] = "postgres"
    <3>1. 1 \in DOMAIN Rules /\ Len(Rules[1].path) = 1 /\ Rules[1].path[1][1] = "postgres"
      BY DEF Rules, Rule
    <3>2. Matches(Rules[1], n)
      BY <1>2, <2>1, <2>2, <2>3, <3>1, Zenon DEF Matches
    <3> QED
      BY <3>1, <3>2, MatchIsFound
  <2>4. CASE i.path[1][1] = "mysql"
    <3>1. 7 \in DOMAIN Rules /\ Len(Rules[7].path) = 1 /\ Rules[7].path[1][1] = "mysql"
      BY DEF Rules, Rule
    <3>2. Matches(Rules[7], n)
      BY <1>2, <2>1, <2>2, <2>4, <3>1, Zenon DEF Matches
    <3> QED
      BY <3>1, <3>2, MatchIsFound
  <2> QED
    BY <2>1, <2>3, <2>4, Zenon DEF isAlnumExtension
<1> QED
  BY <1>4, <1>5

-----------------------------------------------------------------------------
(***************************************************************************)
(* The inductive invariant.                                                *)
(***************************************************************************)
\* A wiring as it was made, or one that its container's end has emptied.
Wired ==
  Wirings \cup {Unwired} \cup {[nets |-> w.nets, ports |-> {}] : w \in Wirings}

\* The types of what the scan and the host share.
TypeOK ==
  /\ world \in [Ids -> [state : {"none", "running", "exited", "gone"},
                        image : Images \cup {IdImage}, moved : BOOLEAN, wiring : Wired]]
  /\ pc \in {"idle", "list", "inspect"}
  /\ facts \in [Ids -> SUBSET Wired]
  /\ ran \subseteq Ids

\* What exists or existed has an image of its own, which it keeps.
Imaged == \A id \in Ids : world[id].state # "none" => world[id].image \in Images

\* The history follows the host while a scan is under way.
History ==
  pc # "idle" => /\ \A id \in Ids : world[id].wiring \in facts[id]
                 /\ \A id \in ran : world[id].state = "running"

\* A scan starts with nothing found.
Fresh == pc = "list" => todo = {} /\ out = {}

\* An entry of the list is about a container that is or was there, once, with
\* the wiring it had then; its image's name may have been lost to a moved tag.
Listed ==
  \A e \in todo :
    /\ pc = "inspect" /\ e.id \in Ids /\ world[e.id].state # "none"
    /\ e.wiring \in facts[e.id]
    /\ e.image = world[e.id].image \/ (e.image = IdImage /\ world[e.id].moved)
    /\ \A f \in todo : f.id = e.id => f = e
    /\ \A r \in out : r.id # e.id

\* What has been found is or was there.
Found == \A r \in out : r.id \in Ids /\ world[r.id].state # "none"

\* What has been running all the time is still listed, or has been dealt with.
Excused(id) ==
  \/ world[id].image.db \in {"", "vendor"}
  \/ Overlooked(world[id].image) \/ world[id].moved
Pending ==
  pc = "inspect" =>
    \A id \in ran \ failed :
      \/ \E e \in todo : e.id = id
      \/ Excused(id)
      \/ \E r \in out : r.id = id

\* The part of the invariant that both properties need.
Base == TypeOK /\ Imaged /\ History /\ Fresh /\ Listed /\ Found

-----------------------------------------------------------------------------
(***************************************************************************)
(* The host's steps.                                                       *)
(***************************************************************************)
\* What an id can be.
Boxes == [state : {"none", "running", "exited", "gone"},
          image : Images \cup {IdImage}, moved : BOOLEAN, wiring : Wired]

\* What the assumption says of the wirings holds of those of stopped
\* containers too.
LEMMA WiredSplit ==
  ASSUME NEW w \in Wired
  PROVE  /\ w = [nets |-> w.nets, ports |-> w.ports]
         /\ w.ports \subseteq Ports
         /\ \A p, q \in w.ports :
              p.port = q.port /\ p.proto = q.proto /\ p.host = 0 => q.host = 0
         /\ [nets |-> w.nets, ports |-> {}] \in Wired
<1>1. CASE w \in Wirings
  BY <1>1, DiscoveryAssumption DEF Wired, Ports
<1>2. CASE w = Unwired
  BY <1>2 DEF Wired, Unwired
<1>3. CASE w \in {[nets |-> x.nets, ports |-> {}] : x \in Wirings}
  <2>1. PICK x \in Wirings : w = [nets |-> x.nets, ports |-> {}]
    BY <1>3
  <2>2. w.nets = x.nets /\ w.ports = {}
    BY <2>1
  <2>3. w = [nets |-> w.nets, ports |-> {}]
    BY <2>1, <2>2
  <2> QED
    BY <2>2, <2>3
<1> QED
  BY <1>1, <1>2, <1>3 DEF Wired

\* What id may become: it exists, keeps its image, and a moved tag stays moved.
Becomes(id, c) ==
  /\ c \in Boxes /\ c.state # "none" /\ c.image \in Images
  /\ world[id].state # "none" =>
       c.image = world[id].image /\ (world[id].moved => c.moved)

\* Every step of the host is such a change of one container.
LEMMA HostChanges ==
  ASSUME TypeOK, Imaged, HostNext
  PROVE  \E id \in Ids, c \in Boxes : Becomes(id, c) /\ Change(id, c)
<1>1. PICK id \in Ids : Create(id) \/ Die(id) \/ Delete(id) \/ Rewire(id) \/ MoveTag(id)
  BY DEF HostNext
<1> DEFINE b == world[id]
<1>2. b \in Boxes /\ (b.state # "none" => b.image \in Images)
  BY DEF TypeOK, Imaged, Boxes
<1>3. CASE Create(id)
  <2>1. PICK i \in Images, w \in Wirings : Change(id, Container("running", i, FALSE, w))
    BY <1>3 DEF Create
  <2>2. b.state = "none"
    BY <1>3 DEF Create
  <2>3. Container("running", i, FALSE, w) \in Boxes
    BY DEF Container, Boxes, Wired
  <2>4. Becomes(id, Container("running", i, FALSE, w))
    BY <2>2, <2>3 DEF Becomes, Container
  <2> QED
    BY <2>1, <2>3, <2>4
<1>4. CASE Die(id)
  <2> DEFINE c == [b EXCEPT !.state = "exited", !.wiring.ports = {}]
  <2>1. Change(id, c) /\ b.state = "running"
    BY <1>4 DEF Die, Running
  <2>2. b.wiring \in Wired
    BY <1>2 DEF Boxes
  <2>3. [b.wiring EXCEPT !.ports = {}] = [nets |-> b.wiring.nets, ports |-> {}]
    BY <2>2, WiredSplit
  <2>4. c = [b EXCEPT !.state = "exited", !.wiring = [nets |-> b.wiring.nets, ports |-> {}]]
    BY <1>2, <2>3 DEF Boxes
  <2> HIDE DEF c, b
  <2>5. [nets |-> b.wiring.nets, ports |-> {}] \in Wired
    BY <2>2, WiredSplit
  <2>6. c \in Boxes /\ c.state = "exited" /\ c.image = b.image /\ c.moved = b.moved
    BY <1>2, <2>4, <2>5 DEF Boxes
  <2>7. Becomes(id, c)
    BY <1>2, <2>1, <2>6 DEF Becomes, b
  <2> QED
    BY <2>1, <2>6, <2>7
<1>5. CASE Delete(id)
  <2> DEFINE c == [b EXCEPT !.state = "gone"]
  <2>1. Change(id, c) /\ b.state \in {"running", "exited"}
    BY <1>5 DEF Delete
  <2>2. c \in Boxes /\ c.state = "gone" /\ c.image = b.image /\ c.moved = b.moved
    BY <1>2 DEF Boxes
  <2> HIDE DEF c
  <2>3. Becomes(id, c)
    BY <1>2, <2>1, <2>2 DEF Becomes
  <2> QED
    BY <2>1, <2>2, <2>3
<1>6. CASE Rewire(id)
  <2>1. PICK w \in Wirings : Change(id, [b EXCEPT !.wiring = w])
    BY <1>6 DEF Rewire
  <2> DEFINE c == [b EXCEPT !.wiring = w]
  <2>2. b.state = "running"
    BY <1>6 DEF Rewire, Running
  <2>3. c \in Boxes /\ c.state = b.state /\ c.image = b.image /\ c.moved = b.moved
    BY <1>2 DEF Boxes, Wired
  <2>4. Becomes(id, c)
    BY <1>2, <2>2, <2>3 DEF Becomes
  <2> QED
    BY <2>1, <2>3, <2>4
<1>7. CASE MoveTag(id)
  <2> DEFINE c == [b EXCEPT !.moved = TRUE]
  <2>1. Change(id, c) /\ b.state = "running"
    BY <1>7 DEF MoveTag, Running
  <2>2. c \in Boxes /\ c.state = b.state /\ c.image = b.image /\ c.moved
    BY <1>2 DEF Boxes
  <2> HIDE DEF c
  <2>3. Becomes(id, c)
    BY <1>2, <2>1, <2>2 DEF Becomes
  <2> QED
    BY <2>1, <2>2, <2>3
<1> QED
  BY <1>1, <1>3, <1>4, <1>5, <1>6, <1>7

\* What such a change does to the state.
LEMMA ChangeFacts ==
  ASSUME TypeOK, NEW id \in Ids, NEW c \in Boxes, Becomes(id, c), Change(id, c)
  PROVE  /\ TypeOK' /\ world'[id] = c /\ pc # "idle" /\ c.wiring \in facts'[id]
         /\ \A j \in Ids : j # id => world'[j] = world[j]
         /\ \A j \in Ids : facts[j] \subseteq facts'[j]
         /\ \A j \in Ids : world[j].state # "none" =>
              /\ world'[j].state # "none"
              /\ world'[j].image = world[j].image
              /\ world[j].moved => world'[j].moved
         /\ ran' \subseteq ran /\ (c.state # "running" => id \notin ran')
         /\ UNCHANGED <<pc, ctx, todo, out, failed>>
<1>1. world \in [Ids -> Boxes] /\ facts \in [Ids -> SUBSET Wired] /\ ran \subseteq Ids
  BY DEF TypeOK, Boxes
<1>2. /\ pc # "idle" /\ world' = [world EXCEPT ![id] = c]
      /\ ran' = IF c.state = "running" THEN ran ELSE ran \ {id}
      /\ facts' = [facts EXCEPT ![id] = @ \cup {c.wiring}]
      /\ UNCHANGED <<pc, ctx, todo, out, failed>>
  BY DEF Change
<1>3. c.wiring \in Wired
  BY DEF Boxes
<1>4. world' \in [Ids -> Boxes] /\ facts' \in [Ids -> SUBSET Wired] /\ ran' \subseteq Ids
  BY <1>1, <1>2, <1>3
<1>5. TypeOK'
  BY <1>2, <1>4 DEF TypeOK, Boxes
<1>6. world'[id] = c /\ (\A j \in Ids : j # id => world'[j] = world[j])
  BY <1>1, <1>2
<1>7. c.wiring \in facts'[id] /\ \A j \in Ids : facts[j] \subseteq facts'[j]
  BY <1>1, <1>2
<1>8. ASSUME NEW j \in Ids, world[j].state # "none"
      PROVE  /\ world'[j].state # "none" /\ world'[j].image = world[j].image
             /\ world[j].moved => world'[j].moved
  BY <1>6, <1>8 DEF Becomes
<1>9. ran' \subseteq ran /\ (c.state # "running" => id \notin ran')
  BY <1>2
<1> QED
  BY <1>2, <1>5, <1>6, <1>7, <1>8, <1>9

\* A change on the host while the scan is under way disturbs nothing.
LEMMA HostKeeps ==
  ASSUME Base, HostNext
  PROVE  Base' /\ (ReportSound => ReportSound') /\ (Pending => Pending')
<1>1. TypeOK
  BY DEF Base
<1>2. Imaged
  BY DEF Base
<1>3. History
  BY DEF Base
<1>4. Found
  BY DEF Base
<1>5. PICK id \in Ids, c \in Boxes : Becomes(id, c) /\ Change(id, c)
  BY <1>1, <1>2, HostChanges
<1>6. TypeOK' /\ world'[id] = c /\ pc # "idle" /\ c.wiring \in facts'[id]
  BY <1>1, <1>5, ChangeFacts
<1>7. UNCHANGED <<pc, ctx, todo, out, failed>>
  BY <1>1, <1>5, ChangeFacts
<1>8. ran' \subseteq ran /\ (c.state # "running" => id \notin ran')
  BY <1>1, <1>5, ChangeFacts
<1>9. \A j \in Ids : j # id => world'[j] = world[j]
  BY <1>1, <1>5, ChangeFacts
<1>10. \A j \in Ids : facts[j] \subseteq facts'[j]
  BY <1>1, <1>5, ChangeFacts
<1>11. \A j \in Ids : world[j].state # "none" =>
         /\ world'[j].state # "none"
         /\ world'[j].image = world[j].image
         /\ world[j].moved => world'[j].moved
  BY <1>1, <1>5, ChangeFacts
<1>12. c.image \in Images /\ ran \subseteq Ids
  BY <1>1, <1>5 DEF Becomes, TypeOK
<1>13. Imaged'
  <2> SUFFICES ASSUME NEW j \in Ids, (world[j].state # "none")'
               PROVE  (world[j].image \in Images)'
    BY DEF Imaged
  <2>1. CASE j = id
    BY <1>6, <1>12, <2>1
  <2>2. CASE j # id
    BY <1>2, <1>9, <2>2 DEF Imaged
  <2> QED
    BY <2>1, <2>2
<1>14. History'
  <2>1. ASSUME NEW j \in Ids PROVE (world[j].wiring \in facts[j])'
    <3>1. CASE j = id
      BY <1>6, <3>1
    <3>2. CASE j # id
      BY <1>3, <1>6, <1>9, <1>10, <3>2 DEF History
    <3> QED
      BY <3>1, <3>2
  <2>2. ASSUME NEW j \in ran' PROVE (world[j].state = "running")'
    <3>1. CASE j = id
      BY <1>6, <1>8, <3>1
    <3>2. CASE j # id
      BY <1>3, <1>6, <1>8, <1>9, <1>12, <3>2 DEF History
    <3> QED
      BY <3>1, <3>2
  <2> QED
    BY <2>1, <2>2 DEF History
<1>15. Fresh'
  BY <1>7 DEF Base, Fresh
<1>16. Listed'
  <2>1. Listed
    BY DEF Base
  <2> SUFFICES ASSUME NEW e \in todo
               PROVE  (/\ pc = "inspect" /\ e.id \in Ids /\ world[e.id].state # "none"
                       /\ e.wiring \in facts[e.id]
                       /\ \/ e.image = world[e.id].image
                          \/ e.image = IdImage /\ world[e.id].moved
                       /\ \A f \in todo : f.id = e.id => f = e
                       /\ \A r \in out : r.id # e.id)'
    BY <1>7 DEF Listed
  <2>2. e.id \in Ids /\ world[e.id].state # "none" /\ e.wiring \in facts[e.id]
    BY <2>1 DEF Listed
  <2>3. e.image = world[e.id].image \/ (e.image = IdImage /\ world[e.id].moved)
    BY <2>1 DEF Listed
  <2>4. /\ pc = "inspect" /\ \A f \in todo : f.id = e.id => f = e
        /\ \A r \in out : r.id # e.id
    BY <2>1 DEF Listed
  <2>5. e.wiring \in facts'[e.id]
    BY <1>10, <2>2
  <2>6. world'[e.id].image = world[e.id].image /\ (world[e.id].moved => world'[e.id].moved)
    BY <1>11, <2>2
  <2>7. world'[e.id].state # "none"
    BY <1>11, <2>2
  <2> QED
    BY <1>7, <2>2, <2>3, <2>4, <2>5, <2>6, <2>7
<1>17. Found'
  BY <1>4, <1>7, <1>11 DEF Found
<1>18. ASSUME ReportSound PROVE ReportSound'
  <2> SUFFICES ASSUME NEW r \in out
               PROVE  (/\ \A s \in out : s.id = r.id => s = r
                       /\ world[r.id].image.db \in {r.type, "vendor"}
                       /\ \E w \in facts[r.id] : r.nets = w.nets
                       /\ \E w \in facts[r.id] :
                            r.ports = {[p EXCEPT !.proto = defaultProto(@)] : p \in w.ports}
                       /\ \A h \in r.hints :
                            \E e \in EnvEntries : h.key = e.key /\ h.val # e.val)'
    BY <1>7 DEF ReportSound
  <2>1. r.id \in Ids /\ world'[r.id].image = world[r.id].image
    BY <1>4, <1>11 DEF Found
  <2>2. facts[r.id] \subseteq facts'[r.id]
    BY <1>10, <2>1
  <2>3. /\ \A s \in out : s.id = r.id => s = r
        /\ world[r.id].image.db \in {r.type, "vendor"}
        /\ \A h \in r.hints : \E e \in EnvEntries : h.key = e.key /\ h.val # e.val
    BY <1>18, Zenon DEF ReportSound
  <2>4. \E w \in facts[r.id] : r.nets = w.nets
    BY <1>18, Zenon DEF ReportSound
  <2>5. \E w \in facts[r.id] :
          r.ports = {[p EXCEPT !.proto = defaultProto(@)] : p \in w.ports}
    BY <1>18, Zenon DEF ReportSound
  <2>6. (\E w \in facts[r.id] : r.nets = w.nets)'
    BY <2>2, <2>4
  <2>7. (\E w \in facts[r.id] :
          r.ports = {[p EXCEPT !.proto = defaultProto(@)] : p \in w.ports})'
    BY <2>2, <2>5, Zenon
  <2>8. (world[r.id].image.db \in {r.type, "vendor"})'
    BY <2>1, <2>3
  <2> QED
    BY <1>7, <2>3, <2>6, <2>7, <2>8, Zenon
<1>19. ASSUME Pending PROVE Pending'
  <2> SUFFICES ASSUME pc' = "inspect", NEW j \in (ran \ failed)'
               PROVE  (\/ \E e \in todo : e.id = j
                       \/ Excused(j)
                       \/ \E r \in out : r.id = j)'
    BY DEF Pending
  <2>1. j \in ran \ failed /\ j \in Ids /\ pc = "inspect"
    BY <1>7, <1>8, <1>12
  <2>2. world[j].state # "none"
    BY <1>3, <2>1 DEF History
  <2>3. world'[j].image = world[j].image /\ (world[j].moved => world'[j].moved)
    BY <1>11, <2>1, <2>2
  <2>4. Excused(j) => Excused(j)'
    BY <2>3, Zenon DEF Excused
  <2> QED
    BY <1>7, <1>19, <2>1, <2>4 DEF Pending
<1> QED
  BY <1>6, <1>13, <1>14, <1>15, <1>16, <1>17, <1>18, <1>19 DEF Base

-----------------------------------------------------------------------------
(***************************************************************************)
(* The scan's steps.                                                       *)
(***************************************************************************)
\* A step that only leaves the loop or lets time pass.
LEMMA ScanFrame ==
  ASSUME Base, UNCHANGED <<hostVars, todo, out, failed>>,
         pc' = pc \/ (pc' = "idle" /\ todo = {})
  PROVE  Base' /\ (ReportSound => ReportSound') /\ (Pending => Pending')
<1>1. UNCHANGED <<world, ran, facts, todo, out, failed>>
  BY DEF hostVars
<1>2. TypeOK'
  BY <1>1 DEF Base, TypeOK
<1>3. Imaged' /\ Found'
  BY <1>1 DEF Base, Imaged, Found
<1>4. History' /\ Fresh'
  BY <1>1 DEF Base, History, Fresh
<1>5. Listed'
  BY <1>1 DEF Base, Listed
<1>6. ReportSound => ReportSound'
  BY <1>1, Zenon DEF ReportSound
<1>7. \A j : Excused(j)' = Excused(j)
  BY <1>1, Zenon DEF Excused
<1>8. Pending => Pending'
  BY <1>1, <1>7 DEF Pending
<1> QED
  BY <1>2, <1>3, <1>4, <1>5, <1>6, <1>8 DEF Base

\* A new scan forgets the last one.
LEMMA StartKeeps ==
  ASSUME Base, ScanStart
  PROVE  Base' /\ ReportSound' /\ Pending'
<1>1. /\ pc' = "list" /\ todo' = {} /\ out' = {} /\ world' = world
      /\ ran' = Running /\ facts' = [id \in Ids |-> {world[id].wiring}]
  BY DEF ScanStart
<1>2. world \in [Ids -> Boxes] /\ Imaged
  BY DEF Base, TypeOK, Boxes
<1>3. \A id \in Ids : world[id].wiring \in Wired
  BY <1>2 DEF Boxes
<1>4. TypeOK'
  BY <1>1, <1>2, <1>3 DEF TypeOK, Boxes, Running
<1>5. Imaged' /\ History'
  BY <1>1, <1>2 DEF Imaged, History, Running
<1>6. Fresh' /\ Listed' /\ Found'
  BY <1>1 DEF Fresh, Listed, Found
<1>7. ReportSound' /\ Pending'
  BY <1>1 DEF ReportSound, Pending
<1> QED
  BY <1>4, <1>5, <1>6, <1>7 DEF Base

\* The list has what runs now, and so what has run since the scan began.
LEMMA ListKeeps ==
  ASSUME Base, listContainers
  PROVE  Base' /\ ReportSound' /\ Pending'
<1> DEFINE Item(id) == [id |-> id, wiring |-> world[id].wiring,
                        image |-> IF world[id].moved THEN IdImage ELSE world[id].image]
<1>1. pc = "list" /\ pc' = "inspect" /\ todo' = {Item(id) : id \in Running}
  BY DEF listContainers
<1>2. UNCHANGED <<world, ran, facts, out, failed>>
  BY DEF listContainers, hostVars
<1>3. out = {} /\ out' = {}
  BY <1>1, <1>2 DEF Base, Fresh
<1>4. TypeOK' /\ Imaged'
  BY <1>1, <1>2 DEF Base, TypeOK, Imaged
<1>5. History' /\ Fresh' /\ Found'
  BY <1>1, <1>2, <1>3 DEF Base, History, Fresh, Found
<1>6. Listed'
  <2> SUFFICES ASSUME NEW e \in todo'
               PROVE  (/\ pc = "inspect" /\ e.id \in Ids /\ world[e.id].state # "none"
                       /\ e.wiring \in facts[e.id]
                       /\ \/ e.image = world[e.id].image
                          \/ e.image = IdImage /\ world[e.id].moved
                       /\ \A f \in todo : f.id = e.id => f = e
                       /\ \A r \in out : r.id # e.id)'
    BY DEF Listed
  <2>1. PICK id \in Running : e = Item(id)
    BY <1>1
  <2>2. id \in Ids /\ world[id].state = "running" /\ world[id].wiring \in facts[id]
    BY <1>1 DEF Running, Base, History
  <2>3. /\ e.id = id /\ e.wiring = world[id].wiring
        /\ e.image = IF world[id].moved THEN IdImage ELSE world[id].image
    BY <2>1
  <2>4. \A f \in todo' : f = Item(f.id)
    BY <1>1
  <2> HIDE DEF Item
  <2>5. \A f \in todo' : f.id = e.id => f = e
    BY <2>4
  <2> QED
    BY <1>1, <1>2, <1>3, <2>2, <2>3, <2>5
<1>7. Pending'
  <2> SUFFICES ASSUME NEW j \in ran PROVE \E e \in todo' : e.id = j
    BY <1>2 DEF Pending
  <2>1. j \in Running
    BY <1>1 DEF Base, History, TypeOK, Running
  <2>2. Item(j) \in todo' /\ Item(j).id = j
    BY <1>1, <2>1
  <2> QED
    BY <2>2
<1>8. ReportSound'
  BY <1>3 DEF ReportSound
<1> QED
  BY <1>4, <1>5, <1>6, <1>7, <1>8 DEF Base

\* An entry is done with, and nothing is found.
LEMMA DropKeeps ==
  ASSUME Base, NEW e \in todo, todo' = todo \ {e}, UNCHANGED <<hostVars, pc, out>>
  PROVE  Base' /\ (ReportSound => ReportSound')
<1>1. UNCHANGED <<world, ran, facts, pc, out>>
  BY DEF hostVars
<1>2. TypeOK' /\ Imaged' /\ Found'
  BY <1>1 DEF Base, TypeOK, Imaged, Found
<1>3. History' /\ Fresh'
  BY <1>1 DEF Base, History, Fresh
<1>4. Listed'
  <2>1. \A x \in todo' : x \in todo
    OBVIOUS
  <2> QED
    BY <1>1, <2>1 DEF Base, Listed
<1>5. ReportSound => ReportSound'
  BY <1>1, Zenon DEF ReportSound
<1> QED
  BY <1>2, <1>3, <1>4, <1>5 DEF Base

\* A database is passed over only under an excuse.
LEMMA SkipKeeps ==
  ASSUME Base, Pending, NEW e \in todo, Skip(e)
  PROVE  Pending'
<1>1. todo' = todo \ {e} /\ detectDBType(e.image) = ""
  BY DEF Skip
<1>2. UNCHANGED <<world, ran, facts, pc, out, failed>>
  BY DEF Skip, hostVars
<1>3. \A j : Excused(j)' = Excused(j)
  BY <1>2, Zenon DEF Excused
<1>4. /\ e.id \in Ids /\ world[e.id].state # "none"
      /\ e.image = world[e.id].image \/ world[e.id].moved
  BY DEF Base, Listed
<1>5. world[e.id].image \in Images
  BY <1>4 DEF Base, Imaged
<1>6. Excused(e.id)
  BY <1>1, <1>4, <1>5, SpelledIsFound DEF Excused
<1> QED
  BY <1>1, <1>2, <1>3, <1>6 DEF Pending

\* An inspect that fails is remembered.
LEMMA FailKeeps ==
  ASSUME Base, Pending, NEW e \in todo, InspectFails(e)
  PROVE  Pending'
<1>1. todo' = todo \ {e} /\ failed' = failed \cup {e.id}
  BY DEF InspectFails
<1>2. UNCHANGED <<world, ran, facts, pc, out>>
  BY DEF InspectFails, hostVars
<1>3. \A j : Excused(j)' = Excused(j)
  BY <1>2, Zenon DEF Excused
<1> QED
  BY <1>1, <1>2, <1>3 DEF Pending

\* What is said of a container that has been found.
Truthful(r) ==
  /\ world[r.id].image.db \in {r.type, "vendor"}
  /\ \E w \in facts[r.id] : r.nets = w.nets
  /\ \E w \in facts[r.id] :
       r.ports = {[p EXCEPT !.proto = defaultProto(@)] : p \in w.ports}
  /\ \A h \in r.hints : \E e \in EnvEntries : h.key = e.key /\ h.val # e.val

\* ReportSound in these terms.
LEMMA SoundIs ==
  ReportSound <=> \A r \in out : Truthful(r) /\ \A s \in out : s.id = r.id => s = r
BY Zenon DEF ReportSound, Truthful

\* The hints hold no value of the environment.
LEMMA HintsAreBlank ==
  \A h \in filterEnv(EnvEntries) : \E e \in EnvEntries : h.key = e.key /\ h.val # e.val
<1> TAKE h \in filterEnv(EnvEntries)
<1>1. PICK e \in EnvEntries : h = [key |-> e.key, val |-> "set"]
  BY DEF filterEnv
<1>2. h.key = e.key /\ h.val = "set" /\ e.val # "set"
  BY <1>1, DiscoveryAssumption
<1> QED
  BY <1>2

\* The container that is built from the two answers.
LEMMA BuiltIsTrue ==
  ASSUME RulesAreSound, Base, NEW e \in todo, detectDBType(e.image) # ""
  PROVE  Truthful(buildContainer(e, world[e.id], detectDBType(e.image)))
<1> DEFINE type == detectDBType(e.image)
           c == world[e.id]
           r == buildContainer(e, c, type)
           ports == portsFromInspect(InspectPorts(c.wiring.ports))
<1>1. /\ e.id \in Ids /\ c.state # "none" /\ pc = "inspect" /\ e.wiring \in facts[e.id]
      /\ e.image = c.image \/ e.image = IdImage
  BY DEF Base, Listed
<1>2. c.image \in Images /\ c.wiring \in facts[e.id] /\ c.wiring \in Wired
  BY <1>1 DEF Base, Imaged, History, TypeOK
<1>3. e.image = c.image
  BY <1>1, IdIsNoDatabase
<1>4. c.image.db \in {type, "vendor"}
  BY <1>2, <1>3 DEF RulesAreSound
<1>5. ports = {[p EXCEPT !.proto = defaultProto(@)] : p \in c.wiring.ports}
  <2>1. /\ c.wiring.ports \subseteq Ports
        /\ \A p, q \in c.wiring.ports :
             p.port = q.port /\ p.proto = q.proto /\ p.host = 0 => q.host = 0
    BY <1>2, WiredSplit
  <2> QED
    BY <2>1, PortsSurvive
<1> HIDE DEF type, c, ports
<1>6. /\ r.id = e.id /\ r.type = type
      /\ r.nets = IF c.wiring.nets # {} THEN c.wiring.nets ELSE e.wiring.nets
      /\ r.ports = IF ports # {} THEN ports
                   ELSE {[p EXCEPT !.proto = defaultProto(@)] : p \in e.wiring.ports}
      /\ r.hints = filterEnv(EnvEntries)
  BY DEF buildContainer, ports
<1> HIDE DEF r
<1>7. \E w \in facts[r.id] : r.nets = w.nets
  BY <1>1, <1>2, <1>6
<1>8. \E w \in facts[r.id] :
        r.ports = {[p EXCEPT !.proto = defaultProto(@)] : p \in w.ports}
  <2>1. CASE ports # {}
    <3>1. r.ports = {[p EXCEPT !.proto = defaultProto(@)] : p \in c.wiring.ports}
      BY <1>5, <1>6, <2>1, Zenon
    <3> QED
      BY <1>2, <1>6, <3>1, Zenon
  <2>2. CASE ports = {}
    <3>1. r.ports = {[p EXCEPT !.proto = defaultProto(@)] : p \in e.wiring.ports}
      BY <1>6, <2>2, Zenon
    <3> QED
      BY <1>1, <1>6, <3>1, Zenon
  <2> QED
    BY <2>1, <2>2
<1>9. world[r.id].image.db \in {r.type, "vendor"}
  BY <1>4, <1>6 DEF c
<1>10. \A h \in r.hints : \E x \in EnvEntries : h.key = x.key /\ h.val # x.val
  BY <1>6, HintsAreBlank
<1>11. Truthful(r)
  BY <1>7, <1>8, <1>9, <1>10, Zenon DEF Truthful
<1> QED
  BY <1>11 DEF r, c, type

\* An inspect that succeeds adds a true record, or none when the container
\* has stopped, and then it has not run all the time.
LEMMA InspectKeeps ==
  ASSUME Base, NEW e \in todo, inspectContainer(e)
  PROVE  Base' /\ (RulesAreSound /\ ReportSound => ReportSound') /\ (Pending => Pending')
<1> DEFINE r == buildContainer(e, world[e.id], detectDBType(e.image))
<1>1. /\ todo' = todo \ {e} /\ detectDBType(e.image) # ""
      /\ out' = IF e.id \notin Running THEN out ELSE out \cup {r}
  BY DEF inspectContainer
<1>2. UNCHANGED <<world, ran, facts, pc, failed>>
  BY DEF inspectContainer, hostVars
<1>3. r.id = e.id
  BY DEF buildContainer
<1>4. \A j : Excused(j)' = Excused(j)
  BY <1>2, Zenon DEF Excused
<1>5. CASE e.id \notin Running
  <2>1. out' = out
    BY <1>1, <1>5
  <2>2. Base' /\ (ReportSound => ReportSound')
    BY <1>1, <2>1, DropKeeps DEF inspectContainer
  <2>3. pc = "inspect" /\ e.id \in Ids /\ e.id \notin ran
    BY <1>5 DEF Base, Listed, History, Running
  <2>4. Pending => Pending'
    BY <1>1, <1>2, <1>4, <2>1, <2>3 DEF Pending
  <2> QED
    BY <2>2, <2>4
<1>6. CASE e.id \in Running
  <2>0. Truthful(r) \/ ~RulesAreSound
    BY <1>1, BuiltIsTrue
  <2> HIDE DEF r
  <2>1. out' = out \cup {r}
    BY <1>1, <1>6
  <2>2. e.id \in Ids /\ world[e.id].state # "none" /\ pc = "inspect"
    BY DEF Base, Listed
  <2>3. TypeOK' /\ Imaged'
    BY <1>2 DEF Base, TypeOK, Imaged
  <2>4. History' /\ Fresh'
    BY <1>2, <2>2 DEF Base, History, Fresh
  <2>5. Found'
    BY <1>2, <1>3, <2>1, <2>2 DEF Base, Found
  <2>6. Listed'
    <3>1. Listed
      BY DEF Base
    <3>2. \A x \in todo' : x \in todo /\ x.id # e.id
      BY <1>1, <3>1 DEF Listed
    <3>3. \A x \in todo' : \A y \in out' : y.id # x.id
      BY <1>3, <2>1, <3>1, <3>2 DEF Listed
    <3> QED
      BY <1>2, <3>1, <3>2, <3>3 DEF Listed
  <2>7. ASSUME RulesAreSound, ReportSound PROVE ReportSound'
    <3>1. \A x \in out : Truthful(x) /\ \A y \in out : y.id = x.id => y = x
      BY <2>7, SoundIs
    <3>2. \A x : Truthful(x)' = Truthful(x)
      BY <1>2, Zenon DEF Truthful
    <3>3. \A x \in out : x.id # r.id
      BY <1>3 DEF Base, Listed
    <3>4. Truthful(r)
      BY <2>0, <2>7
    <3>5. \A x \in out' : Truthful(x)' /\ \A y \in out' : y.id = x.id => y = x
      BY <2>1, <3>1, <3>2, <3>3, <3>4
    <3> QED
      BY <3>5, Zenon DEF ReportSound, Truthful
  <2>8. Pending => Pending'
    BY <1>1, <1>2, <1>3, <1>4, <2>1 DEF Pending
  <2> QED
    BY <2>3, <2>4, <2>5, <2>6, <2>7, <2>8 DEF Base
<1> QED
  BY <1>5, <1>6

\* Before the first scan.
LEMMA InitBase == Init => Base /\ ReportSound /\ Pending
<1> SUFFICES ASSUME Init PROVE Base /\ ReportSound /\ Pending
  OBVIOUS
<1>1. /\ world \in [Ids -> Containers] /\ pc = "idle" /\ todo = {} /\ out = {}
      /\ ran = {} /\ facts = [id \in Ids |-> {}]
  BY DEF Init
<1>2. \A c \in Containers : c \in Boxes /\ (c.state # "none" => c.image \in Images)
  <2> SUFFICES ASSUME NEW c \in Containers
               PROVE  c \in Boxes /\ (c.state # "none" => c.image \in Images)
    OBVIOUS
  <2>0. \/ c = Container("none", IdImage, FALSE, Unwired)
        \/ \E S \in {{Container("running", i, FALSE, w) : w \in Wirings} : i \in Images} : c \in S
        \/ c \in {Container("running", i, TRUE, Unwired) : i \in {i \in Images : ~i.digest}}
    BY Zenon DEF Containers
  <2>1. \/ c = Container("none", IdImage, FALSE, Unwired)
        \/ \E i \in Images, w \in Wirings : c = Container("running", i, FALSE, w)
        \/ \E i \in Images : c = Container("running", i, TRUE, Unwired)
    BY <2>0
  <2>2. CASE c = Container("none", IdImage, FALSE, Unwired)
    BY <2>2 DEF Container, Boxes, Wired
  <2>3. ASSUME NEW i \in Images, NEW w \in Wirings,
               c = Container("running", i, FALSE, w)
        PROVE  c \in Boxes /\ c.image \in Images
    BY <2>3 DEF Container, Boxes, Wired
  <2>4. ASSUME NEW i \in Images, c = Container("running", i, TRUE, Unwired)
        PROVE  c \in Boxes /\ c.image \in Images
    BY <2>4 DEF Container, Boxes, Wired
  <2> QED
    BY <2>1, <2>2, <2>3, <2>4
<1>3. TypeOK
  BY <1>1, <1>2 DEF TypeOK, Boxes
<1>4. Imaged
  BY <1>1, <1>2 DEF Imaged
<1> QED
  BY <1>1, <1>3, <1>4 DEF Base, History, Fresh, Listed, Found, ReportSound, Pending

\* Every step keeps the invariant; what is asked of the images matters only to
\* what is said in the report.
LEMMA NextKeeps ==
  ASSUME Base, [Next]_vars
  PROVE  /\ Base'
         /\ RulesAreSound /\ ReportSound => ReportSound'
         /\ Pending => Pending'
<1>1. CASE HostNext
  BY <1>1, HostKeeps
<1>2. CASE ScanStart
  BY <1>2, StartKeeps
<1>3. CASE listContainers
  BY <1>3, ListKeeps
<1>4. CASE ListFails
  <2>1. todo = {}
    BY <1>4 DEF ListFails, Base, Fresh
  <2> QED
    BY <1>4, <2>1, ScanFrame DEF ListFails
<1>5. CASE ScanTimeout
  BY <1>5, ScanFrame DEF ScanTimeout
<1>6. CASE BuildReport
  BY <1>6, ScanFrame DEF BuildReport
<1>7. ASSUME NEW e \in todo, Skip(e)
      PROVE  /\ Base' /\ (ReportSound => ReportSound')
             /\ Pending => Pending'
  <2>1. Base' /\ (ReportSound => ReportSound')
    BY <1>7, DropKeeps DEF Skip
  <2> QED
    BY <1>7, <2>1, SkipKeeps
<1>8. ASSUME NEW e \in todo, inspectContainer(e)
      PROVE  /\ Base' /\ (RulesAreSound /\ ReportSound => ReportSound')
             /\ Pending => Pending'
  BY <1>8, InspectKeeps
<1>9. ASSUME NEW e \in todo, InspectFails(e)
      PROVE  Base' /\ (ReportSound => ReportSound') /\ (Pending => Pending')
  <2>1. Base' /\ (ReportSound => ReportSound')
    BY <1>9, DropKeeps DEF InspectFails
  <2> QED
    BY <1>9, <2>1, FailKeeps
<1>10. CASE UNCHANGED vars
  BY <1>10, ScanFrame DEF vars
<1> QED
  BY <1>1, <1>2, <1>3, <1>4, <1>5, <1>6, <1>7, <1>8, <1>9, <1>10 DEF Next, ScanNext

-----------------------------------------------------------------------------
\* A report tells the truth about every container in it, whatever containers,
\* networks, ports and environments there are and however they change during
\* the scan (Scan, buildContainer, portsFromInspect, filterEnv), if the table
\* of image prefixes is right about each image by itself.
THEOREM ReportsAreSound == RulesAreSound => (Spec => []ReportSound)
<1> SUFFICES ASSUME RulesAreSound PROVE Spec => []ReportSound
  OBVIOUS
<1>1. Init => Base /\ ReportSound
  BY InitBase
<1>2. Base /\ ReportSound /\ [Next]_vars => (Base /\ ReportSound)'
  BY NextKeeps
<1> QED
  BY <1>1, <1>2, PTL DEF Spec

\* A database that ran from before the list until the report is in the report
\* unless its own inspect failed, its tag moved or its name is one of the
\* overlooked spellings, whatever images there are and whatever happened to
\* other containers (Scan, detectDBType).
THEOREM StableAreReported == Spec => []StableIsReported
<1>1. Init => Base /\ Pending
  BY InitBase
<1>2. Base /\ Pending /\ [Next]_vars => (Base /\ Pending)'
  BY NextKeeps
<1>3. Pending => StableIsReported
  BY Zenon DEF Pending, Excused, StableIsReported
<1> QED
  BY <1>1, <1>2, <1>3, PTL DEF Spec
=============================================================================
