-------------------------- MODULE NodeClients_proofs --------------------------
(***************************************************************************)
(* What NodeClients promises of what a client prints or returns and of     *)
(* when it crashes, proved for every version a node may report, whatever   *)
(* it leaves out, every answer to a call, cut into pieces of any size and  *)
(* broken off anywhere.                                                    *)
(***************************************************************************)
EXTENDS NodeClients, SequenceTheorems, WellFoundedInduction, TLAPS

-----------------------------------------------------------------------------
(* Sequences.                                                              *)

\* The two halves of a concatenation.
LEMMA Joined ==
  ASSUME NEW S, NEW s \in Seq(S), NEW t \in Seq(S)
  PROVE  /\ s \o t \in Seq(S) /\ Len(s) \in Nat /\ Len(t) \in Nat
         /\ Len(s \o t) = Len(s) + Len(t)
         /\ \A k \in 1 .. Len(s) : (s \o t)[k] = s[k]
         /\ \A k \in 1 .. Len(t) : (s \o t)[Len(s) + k] = t[k]
<1> DEFINE l == Len(s)
           m == Len(t)
<1>1. /\ s \o t \in Seq(S) /\ Len(s \o t) = l + m /\ l \in Nat /\ m \in Nat
  BY ConcatProperties
<1>2. \A k \in 1 .. (l + m) : (s \o t)[k] = IF k <= l THEN s[k] ELSE t[k - l]
  BY ConcatProperties
<1>3. \A k \in 1 .. m : l + k \in 1 .. (l + m) /\ ~(l + k <= l) /\ (l + k) - l = k
  BY <1>1
<1>4. \A k \in 1 .. m : (s \o t)[l + k] = t[k]
  BY <1>2, <1>3
<1> QED
 BY <1>1, <1>2, <1>4

-----------------------------------------------------------------------------
(* Messages in their raw form.                                             *)

\* The ten fields before the user agent are all different.
LEMMA LeadingFacts ==
  /\ DOMAIN Leading = 1 .. 10 /\ AgentAt = 11
  /\ \A j, k \in 1 .. 10 : Leading[j] = Leading[k] => j = k
  /\ \A k \in 1 .. 10 : Leading[k] \in LeadingFields
  /\ \A field \in LeadingFields : \E k \in 1 .. 10 : Leading[k] = field
<1>1. DOMAIN Leading = 1 .. 10 /\ Len(Leading) = 10
  BY DEF Leading
<1>2. \A j, k \in 1 .. 10 : Leading[j] = Leading[k] => j = k
  BY DEF Leading
<1> QED
  BY <1>1, <1>2 DEF LeadingFields, AgentAt

\* Each of them is a number.
LEMMA LeadingValue ==
  ASSUME NEW v \in Version
  PROVE  \A k \in 1 .. 10 : v[Leading[k]] \in Nat
<1> DEFINE Names == {"version", "services", "timestamp", "addr_recv_services",
                     "addr_recv_ip_address", "addr_recv_port", "addr_trans_services",
                     "addr_trans_ip_address", "addr_trans_port", "nonce"}
<1>1. \A field \in Names : v[field] \in Nat
  <2>1. /\ v.version \in Nat /\ v.services \in Nat /\ v.timestamp \in Nat
        /\ v.addr_recv_services \in Nat /\ v.addr_recv_ip_address \in Nat
        /\ v.addr_recv_port \in Nat /\ v.addr_trans_services \in Nat
        /\ v.addr_trans_ip_address \in Nat /\ v.addr_trans_port \in Nat /\ v.nonce \in Nat
    BY DEF Version
  <2> QED
    BY <2>1
<1>2. \A k \in 1 .. 10 : Leading[k] \in Names
  BY DEF Leading
<1> QED
  BY <1>1, <1>2

\* The raw form of a version: its fields, one unit each, around the characters
\* of its user agent.
LEMMA VersionRaw ==
  ASSUME NEW v \in Version
  PROVE  LET raw == VersionToRaw(v)
             bytes == Len(v.user_agent)
         IN  /\ raw \in Seq(Nat) /\ bytes \in Nat /\ Len(raw) = 13 + bytes
             /\ \A k \in 1 .. 10 : raw[k] = v[Leading[k]]
             /\ raw[11] = bytes
             /\ \A j \in 1 .. bytes : raw[11 + j] = v.user_agent[j]
             /\ raw[12 + bytes] = v.start_height /\ raw[13 + bytes] = v.relay
<1> DEFINE ua == v.user_agent
           bytes == Len(ua)
           A == [k \in DOMAIN Leading |-> v[Leading[k]]]
           X == <<bytes>>
           E == <<v.start_height, v.relay>>
           B == A \o X
           C == B \o ua
           raw == C \o E
<1>1. ua \in Seq(Nat) /\ v.start_height \in Nat /\ v.relay \in Nat
  BY DEF Version
<1>n. bytes \in Nat
  BY <1>1
<1>2. A \in Seq(Nat) /\ Len(A) = 10 /\ \A k \in 1 .. 10 : A[k] = v[Leading[k]]
  <2>1. A = [k \in 1 .. 10 |-> v[Leading[k]]]
    BY LeadingFacts
  <2>2. \A k \in 1 .. 10 : v[Leading[k]] \in Nat
    BY LeadingValue
  <2> QED
    BY <2>1, <2>2
<1>3. X \in Seq(Nat) /\ Len(X) = 1 /\ X[1] = bytes
  BY <1>n
<1>4. E \in Seq(Nat) /\ Len(E) = 2 /\ E[1] = v.start_height /\ E[2] = v.relay
  BY <1>1
<1>e. VersionToRaw(v) = raw
  BY DEF VersionToRaw
<1>s1. A \in Seq(Nat)
  BY <1>2
<1>s2. X \in Seq(Nat)
  BY <1>3
<1>s3. E \in Seq(Nat)
  BY <1>4
<1> HIDE DEF A, X, E, ua, bytes
<1>5. /\ B \in Seq(Nat) /\ Len(B) = Len(A) + Len(X)
      /\ \A k \in 1 .. Len(A) : B[k] = A[k]
      /\ \A k \in 1 .. Len(X) : B[Len(A) + k] = X[k]
  BY <1>s1, <1>s2, Joined
<1>s4. B \in Seq(Nat)
  BY <1>5
<1>s5. ua \in Seq(Nat)
  BY <1>1
<1> HIDE DEF B
<1>6. /\ C \in Seq(Nat) /\ Len(C) = Len(B) + Len(ua)
      /\ \A k \in 1 .. Len(B) : C[k] = B[k]
      /\ \A k \in 1 .. Len(ua) : C[Len(B) + k] = ua[k]
  BY <1>s4, <1>s5, Joined
<1>s6. C \in Seq(Nat)
  BY <1>6
<1> HIDE DEF C
<1>7. /\ raw \in Seq(Nat) /\ Len(raw) = Len(C) + Len(E)
      /\ \A k \in 1 .. Len(C) : raw[k] = C[k]
      /\ \A k \in 1 .. Len(E) : raw[Len(C) + k] = E[k]
  BY <1>s6, <1>s3, Joined
<1> HIDE DEF raw
<1>8. Len(B) = 11 /\ B[11] = bytes /\ \A k \in 1 .. 10 : B[k] = v[Leading[k]]
  <2>1. B[Len(A) + 1] = X[1]
    <3>1. 1 \in 1 .. Len(X)
      BY <1>3
    <3> QED
      BY <3>1, <1>5
  <2>2. Len(A) + 1 = 11 /\ Len(A) + Len(X) = 11
    BY <1>2, <1>3
  <2>3. B[11] = bytes
    BY <2>1, <2>2, <1>3
  <2>4. \A k \in 1 .. 10 : B[k] = v[Leading[k]]
    BY <1>2, <1>5
  <2> QED
    BY <2>2, <2>3, <2>4, <1>5
<1>9. /\ Len(C) = 11 + bytes /\ C[11] = bytes /\ \A k \in 1 .. 10 : C[k] = v[Leading[k]]
      /\ \A j \in 1 .. bytes : C[11 + j] = ua[j]
  <2>1. Len(C) = 11 + bytes
    BY <1>6, <1>8 DEF bytes
  <2>2. \A k \in 1 .. 11 : C[k] = B[k]
    BY <1>6, <1>8
  <2>3. \A j \in 1 .. bytes : C[11 + j] = ua[j]
    BY <1>6, <1>8 DEF bytes
  <2> QED
    BY <2>1, <2>2, <2>3, <1>8
<1>10. /\ Len(raw) = 13 + bytes /\ raw[11] = bytes /\ \A k \in 1 .. 10 : raw[k] = v[Leading[k]]
       /\ \A j \in 1 .. bytes : raw[11 + j] = ua[j]
  BY <1>n, <1>4, <1>7, <1>9
<1>11. raw[12 + bytes] = v.start_height /\ raw[13 + bytes] = v.relay
  <2>1. raw[Len(C) + 1] = E[1] /\ raw[Len(C) + 2] = E[2]
    <3>1. 1 \in 1 .. Len(E) /\ 2 \in 1 .. Len(E)
      BY <1>4
    <3> QED
      BY <3>1, <1>7
  <2>2. Len(C) + 1 = 12 + bytes /\ Len(C) + 2 = 13 + bytes
    BY <1>n, <1>9
  <2> QED
    BY <2>1, <2>2, <1>4
<1> QED
  BY <1>n, <1>7, <1>10, <1>11, <1>e DEF ua, bytes

\* A row of four.
LEMMA Quadruple ==
  ASSUME NEW S, NEW a \in S, NEW b \in S, NEW c \in S, NEW d \in S
  PROVE  LET q == <<a, b, c, d>>
         IN  q \in Seq(S) /\ Len(q) = 4 /\ q[1] = a /\ q[2] = b /\ q[3] = c /\ q[4] = d
OBVIOUS

\* What a unit of a message may be.
Command == {"version", "verack", "inv"}

Unit == {"mainnet"} \cup Command \cup Nat \cup Seq(Nat)

\* A message with a version in it.
HasVersion(m) == "version" \in DOMAIN m

\* The two kinds of message a node may send first.
LEMMA MessageKinds ==
  ASSUME NEW m \in Message
  PROVE  /\ m.command \in {"version", "verack", "inv"} /\ m.missing \in 0 .. 2
         /\ m.damaged \in BOOLEAN
         /\ HasVersion(m) => m.command = "version" /\ m.version \in Version
         /\ ~HasVersion(m) => ~m.damaged
<1> DEFINE With == [command : {"version"}, version : Versions, missing : Missing,
                    damaged : BOOLEAN]
           Other == [command : {"version", "verack", "inv"}, missing : {0}, damaged : {FALSE}]
<1>1. CASE m \in With
  <2>1. HasVersion(m)
    BY <1>1 DEF HasVersion
  <2>2. m.command = "version" /\ m.version \in Versions /\ m.missing \in Missing
    BY <1>1
  <2>3. m.damaged \in BOOLEAN
    BY <1>1
  <2> QED
    BY <2>1, <2>2, <2>3, ClientsAssumption
<1>2. CASE m \in Other
  <2>1. ~HasVersion(m)
    BY <1>2 DEF HasVersion
  <2>2. m.command \in {"version", "verack", "inv"} /\ m.missing = 0
    BY <1>2
  <2>3. m.damaged = FALSE
    BY <1>2
  <2>4. m.damaged \in BOOLEAN /\ ~m.damaged
    BY <2>3
  <2>5. m.missing \in 0 .. 2
    BY <2>2
  <2> QED
    BY <2>1, <2>2, <2>4, <2>5, Zenon
<1> QED
  BY <1>1, <1>2 DEF Message

\* The first part of a sequence.
LEMMA Prefix ==
  ASSUME NEW S, NEW s \in Seq(S), NEW n \in 0 .. Len(s)
  PROVE  LET p == SubSeq(s, 1, n)
         IN  p \in Seq(S) /\ Len(p) = n /\ \A k \in 1 .. n : p[k] = s[k]
<1>1. \A k \in 1 .. n : s[k] \in S
  BY ElementOfSeq
<1> QED
  BY <1>1

\* What comes as a payload: the version but for what an older node leaves out.
LEMMA PayloadFacts ==
  ASSUME NEW m \in Message
  PROVE  LET payload == Payload(m)
         IN  /\ payload \in Seq(Nat) /\ Len(payload) \in Nat
             /\ ~HasVersion(m) => payload = <<>>
             /\ HasVersion(m) =>
                  LET raw == VersionToRaw(m.version)
                  IN  /\ raw \in Seq(Nat) /\ Len(raw) = 13 + Len(m.version.user_agent)
                      /\ Len(payload) = Len(raw) - m.missing
                      /\ \A k \in 1 .. Len(payload) : payload[k] = raw[k]
<1>1. CASE ~HasVersion(m)
  BY <1>1 DEF Payload, HasVersion
<1>2. CASE HasVersion(m)
  <2> DEFINE raw == VersionToRaw(m.version)
             size == Len(raw) - m.missing
  <2>1. /\ raw \in Seq(Nat) /\ Len(m.version.user_agent) \in Nat
        /\ Len(raw) = 13 + Len(m.version.user_agent)
    BY <1>2, MessageKinds, VersionRaw
  <2>2. size \in 0 .. Len(raw)
    BY <2>1, MessageKinds
  <2>3. Payload(m) = SubSeq(raw, 1, size)
    BY <1>2 DEF Payload, HasVersion
  <2> HIDE DEF raw, size
  <2>4. LET p == SubSeq(raw, 1, size)
        IN  p \in Seq(Nat) /\ Len(p) = size /\ \A k \in 1 .. size : p[k] = raw[k]
    BY <2>1, <2>2, Prefix
  <2> QED
    BY <1>2, <2>1, <2>2, <2>3, <2>4 DEF raw, size
<1> QED
  BY <1>1, <1>2

\* A message in its raw form: four units, and the payload.
LEMMA RawFacts ==
  ASSUME NEW m \in Message
  PROVE  LET raw == RawOf(m)
             payload == Payload(m)
         IN  /\ raw \in Seq(Unit) /\ Len(raw) = 4 + Len(payload)
             /\ raw[2] = m.command /\ raw[3] = Len(payload)
             /\ raw[4] = payload <=> ~m.damaged
             /\ \A k \in 1 .. Len(payload) : raw[4 + k] = payload[k]
<1> DEFINE payload == Payload(m)
           sum == IF m.damaged THEN Append(payload, 0) ELSE payload
           head == <<"mainnet", m.command, Len(payload), sum>>
           raw == head \o payload
<1>1. payload \in Seq(Nat) /\ Len(payload) \in Nat /\ m.command \in Command
  <2>1. payload \in Seq(Nat) /\ Len(payload) \in Nat
    BY PayloadFacts
  <2>2. m.command \in Command
    BY MessageKinds DEF Command
  <2> QED
    BY <2>1, <2>2
<1>2. sum \in Seq(Nat) /\ (sum = payload <=> ~m.damaged)
  <2>1. Append(payload, 0) \in Seq(Nat) /\ Len(Append(payload, 0)) = Len(payload) + 1
    BY <1>1
  <2>2. Append(payload, 0) # payload
    BY <1>1, <2>1
  <2> QED
    BY <1>1, <2>1, <2>2, MessageKinds
<1>3. RawOf(m) = raw
  BY DEF RawOf, MessageNew, MessageToRaw, Magic
<1> HIDE DEF payload, sum
<1>4. "mainnet" \in Unit /\ m.command \in Unit /\ Len(payload) \in Unit /\ sum \in Unit
  BY <1>1, <1>2 DEF Unit
<1>5. head \in Seq(Unit) /\ Len(head) = 4 /\ head[2] = m.command /\ head[3] = Len(payload) /\ head[4] = sum
  BY <1>4, Quadruple
<1>6. head \in Seq(Unit)
  BY <1>5
<1>7. payload \in Seq(Unit)
  <2>1. \A k \in 1 .. Len(payload) : payload[k] \in Unit
    BY <1>1, ElementOfSeq DEF Unit
  <2> QED
    BY <1>1, <2>1
<1> HIDE DEF head
<1>8. /\ raw \in Seq(Unit) /\ Len(raw) = Len(head) + Len(payload)
      /\ \A k \in 1 .. Len(head) : raw[k] = head[k]
      /\ \A k \in 1 .. Len(payload) : raw[Len(head) + k] = payload[k]
  BY <1>6, <1>7, Joined
<1> HIDE DEF raw
<1>9. /\ raw[2] = m.command /\ raw[3] = Len(payload) /\ raw[4] = sum
  <2>1. 2 \in 1 .. Len(head) /\ 3 \in 1 .. Len(head) /\ 4 \in 1 .. Len(head)
    BY <1>5
  <2> QED
    BY <2>1, <1>5, <1>8
<1>10. /\ Len(raw) = 4 + Len(payload) /\ \A k \in 1 .. Len(payload) : raw[4 + k] = payload[k]
  BY <1>5, <1>8
<1> QED
  BY <1>2, <1>3, <1>8, <1>9, <1>10 DEF payload

\* A part of a sequence that starts behind its first d members.
LEMMA Slice ==
  ASSUME NEW S, NEW s \in Seq(S), NEW d \in Nat, NEW n \in Nat, d + n <= Len(s)
  PROVE  LET p == SubSeq(s, d + 1, d + n)
         IN  p \in Seq(S) /\ Len(p) = n /\ \A k \in 1 .. n : p[k] = s[d + k]
<1> DEFINE p == SubSeq(s, d + 1, d + n)
<1>1. \A k \in 1 .. Len(s) : s[k] \in S
  BY ElementOfSeq
<1>2. /\ Len(s) \in Nat /\ d + 1 \in Int /\ d + n \in Int
      /\ \A k \in d + 1 .. d + n : k \in 1 .. Len(s)
  OBVIOUS
<1>3. /\ p \in Seq(S)
      /\ Len(p) = IF d + 1 <= d + n THEN (d + n) - (d + 1) + 1 ELSE 0
      /\ \A k \in 1 .. (d + n) - (d + 1) + 1 : p[k] = s[(d + 1) + k - 1]
  BY <1>1, <1>2, SubSeqProperties
<1> HIDE DEF p
<1>4. /\ (IF d + 1 <= d + n THEN (d + n) - (d + 1) + 1 ELSE 0) = n
      /\ (d + n) - (d + 1) + 1 = n
  OBVIOUS
<1>5. \A k \in 1 .. n : (d + 1) + k - 1 = d + k
  OBVIOUS
<1> QED
  BY <1>3, <1>4, <1>5 DEF p

\* A client that reads no further than the first message has, once what it has
\* is complete, all of it and nothing else.
LEMMA Whole ==
  ASSUME NEW m \in Message, NEW a \in Seq(Unit), Len(RawOf(m)) <= Len(a),
         \A k \in 1 .. Len(RawOf(m)) : a[k] = RawOf(m)[k],
         NEW t \in 0 .. Len(a), t <= Len(RawOf(m)), IsComplete(SubSeq(a, 1, t))
  PROVE  t = Len(RawOf(m)) /\ SubSeq(a, 1, t) = RawOf(m)
<1> DEFINE raw == SubSeq(a, 1, t)
           full == RawOf(m)
<1>1. raw \in Seq(Unit) /\ Len(raw) = t /\ \A k \in 1 .. t : raw[k] = a[k]
  BY Prefix
<1>2. /\ full \in Seq(Unit) /\ Len(Payload(m)) \in Nat /\ Len(full) = 4 + Len(Payload(m))
      /\ full[3] = Len(Payload(m))
  BY RawFacts, PayloadFacts
<1>3. t >= 4 /\ t >= 4 + raw[3]
  BY <1>1 DEF IsComplete, MinSize, PayloadLen
<1> HIDE DEF raw, full
<1>4. raw[3] = full[3]
  <2>1. 3 \in 1 .. t /\ 3 \in 1 .. Len(full)
    BY <1>2, <1>3
  <2> QED
    BY <2>1, <1>1 DEF full
<1>5. t = Len(full)
  BY <1>2, <1>3, <1>4 DEF full
<1>6. \A k \in 1 .. Len(full) : raw[k] = full[k]
  BY <1>1, <1>5 DEF full
<1>7. raw = full
  BY <1>1, <1>2, <1>5, <1>6, SeqEqual
<1> QED
  BY <1>5, <1>7 DEF raw, full

\* A message whose checksum is right is understood as it was meant; one that
\* was damaged has a checksum that is not.
LEMMA Understood ==
  ASSUME NEW m \in Message, IsValid(MessageFromRaw(RawOf(m)))
  PROVE  LET n == MessageFromRaw(RawOf(m))
         IN  /\ n.command = m.command /\ n.length = Len(Payload(m)) /\ n.payload = Payload(m)
             /\ ~m.damaged
<1> DEFINE raw == RawOf(m)
           payload == Payload(m)
           n == MessageFromRaw(raw)
           rest == SubSeq(raw, MinSize + 1, MinSize + Len(payload))
<1>1. payload \in Seq(Nat) /\ Len(payload) \in Nat
  BY PayloadFacts
<1>2. /\ raw \in Seq(Unit) /\ Len(raw) = 4 + Len(payload)
      /\ raw[2] = m.command /\ raw[3] = Len(payload)
      /\ raw[4] = payload <=> ~m.damaged
      /\ \A k \in 1 .. Len(payload) : raw[4 + k] = payload[k]
  BY RawFacts
<1> HIDE DEF raw, payload
<1>3. n.command = raw[2] /\ n.length = raw[3] /\ n.checksum = raw[4] /\ n.payload = rest
  BY <1>2 DEF MessageFromRaw
<1>4. rest = payload
  <2>1. MinSize \in Nat /\ Len(payload) \in Nat /\ MinSize + Len(payload) <= Len(raw)
    BY <1>1, <1>2 DEF MinSize
  <2>2. \A k \in 1 .. Len(payload) : raw[MinSize + k] = payload[k]
    BY <1>2 DEF MinSize
  <2>3. rest \in Seq(Unit) /\ Len(rest) = Len(payload)
        /\ \A k \in 1 .. Len(payload) : rest[k] = raw[MinSize + k]
    <3>1. raw \in Seq(Unit)
      BY <1>2
    <3> QED
      BY <2>1, <3>1, Slice
  <2>4. payload \in Seq(Unit)
    <3>1. \A k \in 1 .. Len(payload) : payload[k] \in Unit
      BY <1>1, ElementOfSeq DEF Unit
    <3> QED
      BY <3>1, <1>1
  <2> HIDE DEF rest
  <2> QED
    BY <2>2, <2>3, <2>4, SeqEqual
<1>5. ~m.damaged
  <2>1. CASE n.length = 0
    <3>1. ~HasVersion(m)
      <4> SUFFICES ASSUME HasVersion(m) PROVE Len(payload) >= 11
        BY <2>1, <1>2, <1>3
      <4>1. m.missing \in 0 .. 2 /\ m.version \in Version
        BY MessageKinds
      <4>2. Len(m.version.user_agent) \in Nat
        BY <4>1, VersionRaw
      <4>3. Len(payload) = 13 + Len(m.version.user_agent) - m.missing
        <5>1. LET full == VersionToRaw(m.version)
              IN  Len(full) = 13 + Len(m.version.user_agent) /\ Len(payload) = Len(full) - m.missing
          BY PayloadFacts DEF payload
        <5> QED
          BY <4>1, <4>2, <5>1
      <4> QED
        BY <4>1, <4>2, <4>3
    <3> QED
      BY <3>1, MessageKinds
  <2>2. CASE n.checksum = n.payload
    BY <2>2, <1>2, <1>3, <1>4
  <2> QED
    BY <2>1, <2>2 DEF IsValid, raw
<1> QED
  BY <1>2, <1>3, <1>4, <1>5 DEF raw, payload

\* The fields the node has sent.
SentFields(m) ==
  LeadingFields
    \cup (IF m.version.user_agent # <<>> THEN {"user_agent"} ELSE {})
    \cup (IF m.missing < 2 THEN {"start_height"} ELSE {})
    \cup (IF m.missing < 1 THEN {"relay"} ELSE {})

\* json says of a field what it holds.
LEMMA ShownAgrees ==
  ASSUME NEW field \in LeadingFields \cup {"user_agent", "start_height"}, NEW value,
         field # "user_agent" => value \in Nat
  PROVE  Agrees(Shown(field, value), field, value)
<1>1. Exact \in Nat
  BY ClientsAssumption
<1>2. CASE field \in {"services", "addr_recv_services", "addr_trans_services"}
  <2>1. Shown(field, value) = Services(value)
    BY <1>2 DEF Shown
  <2>2. \A bit \in ServiceBits :
           (\E name \in {ServiceName(b) : b \in ServiceBits} : <<bit, name>> \in Services(value))
             <=> (value \div 2^bit) % 2 = 1
    <3> TAKE bit \in ServiceBits
    <3>1. ASSUME NEW name \in {ServiceName(b) : b \in ServiceBits}, <<bit, name>> \in Services(value)
          PROVE  (value \div 2^bit) % 2 = 1
      <4>1. PICK c \in {b \in ServiceBits : (value \div 2^b) % 2 = 1} :
              <<bit, name>> = <<c, ServiceName(c)>>
        BY <3>1 DEF Services
      <4> QED
        BY <4>1
    <3>2. ASSUME (value \div 2^bit) % 2 = 1
          PROVE  <<bit, ServiceName(bit)>> \in Services(value)
      BY <3>2 DEF Services
    <3> QED
      BY <3>1, <3>2
  <2> QED
    BY <1>2, <2>1, <2>2 DEF Agrees
<1>3. CASE field \in {"user_agent", "addr_recv_ip_address", "addr_trans_ip_address"}
  BY <1>3 DEF Agrees, Shown
<1>4. CASE field \notin {"services", "addr_recv_services", "addr_trans_services", "relay",
                         "user_agent", "addr_recv_ip_address", "addr_trans_ip_address"}
  <2>1. Shown(field, value) = Double(value) /\ value \in Nat
    BY <1>4 DEF Shown
  <2>2. Double(value) = value \/ (value > Exact /\ Double(value) \in {value - 1, value + 1})
    <3>1. value % 2 = 0 \/ value % 4 = 1 \/ value % 4 = 3
      BY <2>1
    <3> QED
      BY <1>1, <2>1, <3>1 DEF Double
  <2> QED
    BY <1>4, <2>1, <2>2 DEF Agrees
<1>5. field # "relay"
  BY DEF LeadingFields, Leading
<1> QED
  BY <1>2, <1>3, <1>4, <1>5

\* So it does of the yes or no at the end.
LEMMA RelayAgrees ==
  ASSUME NEW value
  PROVE  Agrees(Shown("relay", value), "relay", value)
<1>2. Agrees(value # 0, "relay", value) <=> (value # 0 <=> value # 0)
  BY DEF Agrees
<1>3. Shown("relay", value) = (value # 0)
  BY DEF Shown
<1> QED
  BY <1>2, <1>3

\* The fields as they are read from memory.
LEMMA VersionRead ==
  ASSUME NEW memory, NEW v, v = VersionFromRaw(memory)
  PROVE  /\ \A k \in 1 .. 10 : v[Leading[k]] = memory[k]
         /\ v["user_agent"] = SubSeq(memory, AgentAt + 1, AgentAt + memory[AgentAt])
         /\ v["start_height"] = memory[11 + memory[11] + 1]
         /\ v["relay"] = memory[11 + memory[11] + 2]
         /\ DOMAIN v = LeadingFields \cup {"user_agent", "start_height", "relay"}
<1> DEFINE bytes == memory[AgentAt]
           agent == SubSeq(memory, AgentAt + 1, AgentAt + bytes)
           Place(field) == CHOOSE k \in DOMAIN Leading : Leading[k] = field
           Fields == LeadingFields \cup {"user_agent", "start_height", "relay"}
<1>1. v = [field \in Fields |->
             CASE field = "user_agent"   -> agent
               [] field = "start_height" -> memory[AgentAt + bytes + 1]
               [] field = "relay"        -> memory[AgentAt + bytes + 2]
               [] OTHER -> memory[Place(field)]]
  BY DEF VersionFromRaw
<1>2. AgentAt = 11 /\ AgentAt + 1 = 12
  BY LeadingFacts
<1>3. \A k \in 1 .. 10 : Place(Leading[k]) = k
  <2> TAKE k \in 1 .. 10
  <2>1. \A j \in DOMAIN Leading : Leading[j] = Leading[k] => j = k
    BY LeadingFacts
  <2>2. k \in DOMAIN Leading
    BY LeadingFacts
  <2> QED
    BY <2>1, <2>2
<1>4. \A field \in LeadingFields : field \notin {"user_agent", "start_height", "relay"}
  BY DEF LeadingFields, Leading
<1> HIDE DEF agent, Place
<1>5. \A k \in 1 .. 10 : v[Leading[k]] = memory[k]
  <2> TAKE k \in 1 .. 10
  <2>1. Leading[k] \in LeadingFields
    BY LeadingFacts
  <2>2. v[Leading[k]] = memory[Place(Leading[k])]
    BY <1>1, <1>4, <2>1
  <2> QED
    BY <1>3, <2>2
<1> HIDE DEF bytes
<1>6. /\ v["user_agent"] = agent
      /\ v["start_height"] = memory[AgentAt + bytes + 1]
      /\ v["relay"] = memory[AgentAt + bytes + 2]
  BY <1>1
<1>7. DOMAIN v = Fields
  BY <1>1
<1> QED
  BY <1>2, <1>5, <1>6, <1>7 DEF bytes, agent

\* What is printed of a version, whatever lies in memory behind the payload.
LEMMA Printed ==
  ASSUME NEW m \in Message, HasVersion(m),
         NEW memory \in Seq(Nat), Len(Payload(m)) <= Len(memory),
         \A k \in 1 .. Len(Payload(m)) : memory[k] = Payload(m)[k]
  PROVE  /\ memory[AgentAt] = Len(m.version.user_agent)
         /\ \A field \in SentFields(m) :
              Agrees(VersionToJson(VersionFromRaw(memory))[field], field, m.version[field])
<1> DEFINE payload == Payload(m)
           version == m.version
           bytes == Len(version.user_agent)
           raw == VersionToRaw(version)
           v == VersionFromRaw(memory)
           shown == VersionToJson(v)
<1>1. /\ version \in Version /\ version.user_agent \in Seq(Nat) /\ bytes \in Nat
      /\ m.missing \in 0 .. 2
  BY MessageKinds DEF Version
<1>2. payload \in Seq(Nat) /\ Len(payload) \in Nat
  BY PayloadFacts
<1>4. /\ memory \in Seq(Nat) /\ Len(payload) <= Len(memory) /\ Len(memory) \in Nat
      /\ \A k \in 1 .. Len(payload) : memory[k] = payload[k]
  OBVIOUS
<1>5. /\ raw \in Seq(Nat) /\ Len(raw) = 13 + bytes
      /\ \A k \in 1 .. 10 : raw[k] = version[Leading[k]]
      /\ raw[11] = bytes
      /\ \A j \in 1 .. bytes : raw[11 + j] = version.user_agent[j]
      /\ raw[12 + bytes] = version.start_height /\ raw[13 + bytes] = version.relay
  BY <1>1, VersionRaw
<1>a. bytes \in Nat /\ m.missing \in 0 .. 2
  BY <1>1
<1>b. Len(raw) = 13 + bytes
  BY <1>5
<1>c. raw[11] = bytes /\ \A k \in 1 .. 10 : raw[k] = version[Leading[k]]
  BY <1>5
<1>6. Len(payload) = 13 + bytes - m.missing /\ \A k \in 1 .. Len(payload) : payload[k] = raw[k]
  <2>1. Len(payload) = Len(raw) - m.missing /\ \A k \in 1 .. Len(payload) : payload[k] = raw[k]
    BY PayloadFacts
  <2> HIDE DEF payload, raw, bytes, version
  <2> QED
    BY <2>1, <1>a, <1>b
<1> HIDE DEF payload, version, raw, bytes
<1>7. \A k \in 1 .. 11 + bytes : memory[k] = raw[k] /\ k \in 1 .. Len(memory)
  <2> TAKE k \in 1 .. 11 + bytes
  <2>1. k \in 1 .. Len(payload)
    BY <1>a, <1>2, <1>6
  <2>2. k \in 1 .. Len(memory)
    BY <1>2, <1>4, <2>1
  <2> QED
    BY <2>1, <2>2, <1>4, <1>6
<1>d. \A k \in 1 .. 11 : k \in 1 .. 11 + bytes
  BY <1>a
<1>e. \A k \in 1 .. 11 : memory[k] = raw[k]
  BY <1>d, <1>7
<1>8. memory[11] = bytes
  BY <1>e, <1>c
<1>9. /\ \A k \in 1 .. 10 : v[Leading[k]] = memory[k]
      /\ v["user_agent"] = SubSeq(memory, AgentAt + 1, AgentAt + bytes)
      /\ v["start_height"] = memory[12 + bytes]
      /\ v["relay"] = memory[13 + bytes]
      /\ DOMAIN v = LeadingFields \cup {"user_agent", "start_height", "relay"}
  <2>1. 11 + bytes + 1 = 12 + bytes /\ 11 + bytes + 2 = 13 + bytes
    BY <1>1
  <2> HIDE DEF v
  <2>2. v = VersionFromRaw(memory)
    BY DEF v
  <2>3. /\ \A k \in 1 .. 10 : v[Leading[k]] = memory[k]
        /\ v["user_agent"] = SubSeq(memory, AgentAt + 1, AgentAt + memory[AgentAt])
        /\ v["start_height"] = memory[11 + memory[11] + 1]
        /\ v["relay"] = memory[11 + memory[11] + 2]
        /\ DOMAIN v = LeadingFields \cup {"user_agent", "start_height", "relay"}
    BY <2>2, VersionRead
  <2>4. memory[AgentAt] = bytes
    BY <1>8, LeadingFacts
  <2> QED
    BY <1>8, <2>1, <2>3, <2>4
<1>10. \A field \in DOMAIN v : shown[field] = Shown(field, v[field])
  BY DEF VersionToJson
<1> HIDE DEF v, shown
<1>11. \A field \in LeadingFields : v[field] = version[field] /\ version[field] \in Nat
  <2> TAKE field \in LeadingFields
  <2>1. PICK k \in 1 .. 10 : Leading[k] = field
    BY LeadingFacts
  <2>2. v[Leading[k]] = version[Leading[k]]
    <3>1. k \in 1 .. 11
      OBVIOUS
    <3>2. v[Leading[k]] = memory[k]
      BY <1>9
    <3> QED
      BY <3>1, <3>2, <1>c, <1>e
  <2>3. version[Leading[k]] \in Nat
    BY <1>1, LeadingValue
  <2> QED
    BY <2>1, <2>2, <2>3
<1>12. v["user_agent"] = version.user_agent
  <2> DEFINE p == SubSeq(memory, AgentAt + 1, AgentAt + bytes)
  <2>1. AgentAt \in Nat /\ bytes \in Nat /\ AgentAt + bytes <= Len(memory)
    BY <1>a, <1>2, <1>4, <1>6, LeadingFacts
  <2>2. p \in Seq(Nat) /\ Len(p) = bytes /\ \A k \in 1 .. bytes : p[k] = memory[AgentAt + k]
    BY <1>4, <2>1, Slice
  <2> HIDE DEF p
  <2>3. \A k \in 1 .. bytes : memory[AgentAt + k] = version.user_agent[k]
    <3> TAKE k \in 1 .. bytes
    <3>1. 11 + k \in 1 .. 11 + bytes /\ AgentAt + k = 11 + k
      BY <1>a, LeadingFacts
    <3> QED
      BY <3>1, <1>5, <1>7
  <2>4. p = version.user_agent
    BY <1>1, <2>2, <2>3, SeqEqual DEF bytes
  <2> QED
    BY <1>9, <2>4 DEF p
<1>13. m.missing < 2 => v["start_height"] = version.start_height
  <2>1. ASSUME m.missing < 2 PROVE 12 + bytes \in 1 .. Len(payload)
    BY <2>1, <1>1, <1>6
  <2> QED
    BY <2>1, <1>4, <1>5, <1>6, <1>9
<1>14. m.missing < 1 => v["relay"] = version.relay
  <2>1. ASSUME m.missing < 1 PROVE 13 + bytes \in 1 .. Len(payload)
    BY <2>1, <1>1, <1>6
  <2> QED
    BY <2>1, <1>4, <1>5, <1>6, <1>9
<1>15. version.start_height \in Nat /\ version.relay \in Nat
  BY <1>1 DEF Version
<1>16. ASSUME m.missing < 1 PROVE Agrees(shown["relay"], "relay", version.relay)
  <2>1. shown["relay"] = Shown("relay", version.relay)
    BY <1>16, <1>9, <1>10, <1>14
  <2> QED
    BY <2>1, <1>15, RelayAgrees
<1>17. ASSUME NEW field \in SentFields(m)
       PROVE  Agrees(shown[field], field, version[field])
  <2>1. CASE field \in LeadingFields
    <3>1. shown[field] = Shown(field, version[field]) /\ version[field] \in Nat
      BY <2>1, <1>9, <1>10, <1>11
    <3> QED
      BY <2>1, <3>1, ShownAgrees
  <2>2. CASE field = "user_agent"
    <3>1. shown["user_agent"] = Shown("user_agent", version["user_agent"])
      BY <1>9, <1>10, <1>12
    <3> QED
      BY <2>2, <3>1, ShownAgrees
  <2>3. CASE field = "start_height" /\ m.missing < 2
    <3>1. shown["start_height"] = Shown("start_height", version["start_height"])
      BY <2>3, <1>9, <1>10, <1>13
    <3> QED
      BY <2>3, <3>1, <1>15, ShownAgrees
  <2>4. CASE field = "relay" /\ m.missing < 1
    BY <2>4, <1>16
  <2> QED
    BY <2>1, <2>2, <2>3, <2>4 DEF SentFields
<1>18. \A field \in SentFields(m) : Agrees(shown[field], field, version[field])
  BY <1>17
<1>19. memory[AgentAt] = bytes
  BY <1>8, LeadingFacts
<1> QED
  BY <1>18, <1>19 DEF shown, v, version, bytes

\* The payload comes first in that memory.
LEMMA Remembered ==
  ASSUME NEW payload \in Seq(Nat), NEW junk \in {0, 1},
         NEW memory, memory = payload \o [k \in 1 .. (AgentAt + 3) |-> junk]
  PROVE  /\ memory \in Seq(Nat) /\ Len(payload) <= Len(memory)
         /\ \A k \in 1 .. Len(payload) : memory[k] = payload[k]
<1> DEFINE beyond == [k \in 1 .. (AgentAt + 3) |-> junk]
<1>1. beyond \in Seq(Nat)
  <2>1. AgentAt + 3 \in Nat
    BY LeadingFacts
  <2> DEFINE n == AgentAt + 3
  <2> HIDE DEF n
  <2>2. [k \in 1 .. n |-> junk] \in Seq(Nat)
    BY <2>1 DEF n
  <2> QED
    BY <2>2 DEF n
<1> HIDE DEF beyond
<1>2. /\ payload \o beyond \in Seq(Nat) /\ Len(payload) \in Nat /\ Len(beyond) \in Nat
      /\ Len(payload \o beyond) = Len(payload) + Len(beyond)
      /\ \A k \in 1 .. Len(payload) : (payload \o beyond)[k] = payload[k]
  BY <1>1, Joined
<1> DEFINE joined == payload \o beyond
<1>3. memory = joined
  BY DEF beyond
<1> HIDE DEF joined
<1>4. Len(payload) <= Len(joined)
  <2>1. Len(joined) = Len(payload) + Len(beyond) /\ Len(payload) \in Nat /\ Len(beyond) \in Nat
    BY <1>2 DEF joined
  <2> QED
    BY <2>1
<1>5. joined \in Seq(Nat) /\ \A k \in 1 .. Len(payload) : joined[k] = payload[k]
  BY <1>2 DEF joined
<1> QED
  BY <1>3, <1>4, <1>5

\* A set of numbers has a smallest one.
LEMMA SmallestNumber ==
  ASSUME NEW S, S \subseteq Nat, S # {}
  PROVE  Min(S) \in S
<1>1. PICK x \in S : \A y \in S : ~(<<y, x>> \in OpToRel(<, Nat))
  BY NatLessThanWellFounded, WFMin
<1>2. \A y \in S : ~(y < x)
  BY <1>1 DEF OpToRel
<1>3. \A y \in S : x <= y
  BY <1>2
<1> QED
  BY <1>3 DEF Min

\* The smaller of two numbers is not above either of them.
LEMMA SmallerOfTwo ==
  ASSUME NEW a \in Int, NEW b \in Int
  PROVE  Min({a, b}) <= a /\ Min({a, b}) <= b /\ Min({a, b}) \in Int
<1>1. \E x \in {a, b} : \A y \in {a, b} : x <= y
  OBVIOUS
<1>2. Min({a, b}) \in {a, b} /\ \A y \in {a, b} : Min({a, b}) <= y
  BY <1>1 DEF Min
<1> QED
  BY <1>2

-----------------------------------------------------------------------------
(* The invariant.                                                          *)

\* What may come from a node in answer to a call.
Token == {"header", "text", "[", "]", "{", "}", "null", "error", "none", "number",
          "string", "space", "chunk"}

First == said[1]

\* The length of the first message of the node.
FirstLen == Len(RawOf(First))

\* What the node says: for "btk node" its first message comes first.
NodeSays ==
  job.client = "node" =>
    /\ First \in Message /\ answer \in Seq(Unit)
    /\ FirstLen <= Len(answer)
    /\ \A k \in 1 .. FirstLen : answer[k] = RawOf(First)[k]

RpcSays == job.client = "rpc" => answer = said /\ said \in Seq(Token)

\* The node answers only what was written, and a call only when it is whole.
Answered ==
  /\ pc \in {"connect", "write"} => request = <<>>
  /\ request = <<>> => sent = 0
  /\ job.client = "rpc" /\ sent > 0 => RequestIsWhole(request, job.data)

\* Which client is where, and how much it has read by then.
Places ==
  /\ job.client = "node" => pc \in {"connect", "write", "header", "payload", "respond"}
  /\ job.client = "rpc" => pc \in {"connect", "write", "read", "parse"}
  /\ pc = "header" => total < MinSize
  /\ pc \in {"payload", "respond"} => total \in MinSize .. FirstLen
  /\ job.client = "rpc" => total < room

Counts == sent \in 0 .. Len(answer) /\ total \in 0 .. sent /\ room \in Nat

Clients == job.client \in {"node", "rpc"}

NInv == /\ Clients /\ NodeSays /\ RpcSays /\ Answered /\ Places /\ Counts
        /\ PrintedIsFirstMessage /\ ResultIsWholeAnswer /\ CrashHasCause

\* An object that is accepted stands whole in what has arrived, with nothing
\* behind it but white space.
LEMMA ObjectFound ==
  ASSUME NEW s \in Seq(Token), NEW t \in 0 .. Len(s), NEW method, NEW object,
         object = ParseResponse(SubSeq(s, 1, t)), Accepts(method, object)
  PROVE  \E k \in 1 .. (t - 3) :
           /\ SubSeq(s, k, k + 3) = RpcObject("null", ResultType(method))
           /\ \A j \in (k + 4) .. t : s[j] = "space"
           /\ object[3] = s[k + 2]
<1> DEFINE text == SubSeq(s, 1, t)
           b == Min(Brace(text))
           d == b - 1
           rest == SubSeq(text, b, Len(text))
<1>1. text \in Seq(Token) /\ Len(text) = t /\ \A k \in 1 .. t : text[k] = s[k]
  BY Prefix
<1>2. Brace(text) # {}
  BY DEF ParseResponse, Accepts
<1>n. t \in Nat
  OBVIOUS
<1>0. DOMAIN text = 1 .. t
  BY <1>1
<1> HIDE DEF text
<1>3. b \in 1 .. t /\ text[b] = "{"
  <2>1. Brace(text) \subseteq 1 .. t /\ \A k \in Brace(text) : text[k] = "{"
    BY <1>0 DEF Brace
  <2>3. Brace(text) \subseteq 1 .. t
    BY <2>1
  <2> HIDE DEF b, d, rest
  <2>4. \A x \in 1 .. t : x \in Nat
    OBVIOUS
  <2>2. Brace(text) \subseteq Nat
    BY <2>3, <2>4, Zenon
  <2> USE DEF b
  <2> QED
    BY <1>2, <2>1, <2>2, SmallestNumber
<1>b. b \in 1 .. t
  BY <1>3
<1> HIDE DEF b
<1>4. d \in Nat /\ t - d \in Nat /\ d + (t - d) = t /\ d + 1 = b
  BY <1>n, <1>b
<1>t. text \in Seq(Token)
  BY <1>1
<1>l. d + (t - d) <= Len(text)
  BY <1>1, <1>4
<1>5. rest = SubSeq(text, d + 1, d + (t - d))
  BY <1>1, <1>4
<1> HIDE DEF d, rest
<1>6. rest \in Seq(Token) /\ Len(rest) = t - d /\ \A k \in 1 .. t - d : rest[k] = text[d + k]
  BY <1>4, <1>5, <1>t, <1>l, Slice
<1>7. /\ Len(rest) >= 4 /\ rest[4] = "}" /\ object = SubSeq(rest, 1, 4)
      /\ \A k \in 5 .. Len(rest) : rest[k] = "space"
  <2>1. object # <<>> /\ object = ParseResponse(text)
    BY DEF Accepts, text
  <2>2. /\ Len(rest) >= ObjectSize /\ rest[ObjectSize] = "}" /\ object = SubSeq(rest, 1, ObjectSize)
        /\ \A k \in (ObjectSize + 1) .. Len(rest) : rest[k] = "space"
    BY <1>2, <2>1 DEF ParseResponse, rest, b
  <2>3. ObjectSize = 4 /\ ObjectSize + 1 = 5
    BY DEF ObjectSize
  <2> QED
    BY <2>2, <2>3
<1>8. t - d >= 4 /\ \A k \in 1 .. t - d : rest[k] = s[d + k]
  <2>1. \A k \in 1 .. t - d : d + k \in 1 .. t
    BY <1>4
  <2> QED
    BY <1>1, <1>6, <1>7, <2>1
<1>9. object[2] = rest[2] /\ object[3] = rest[3]
  <2> DEFINE n == 4
  <2>1. n \in 0 .. Len(rest)
    <3>1. Len(rest) \in Nat /\ Len(rest) >= 4
      BY <1>4, <1>6, <1>7
    <3> QED
      BY <3>1
  <2>2. rest \in Seq(Token) /\ object = SubSeq(rest, 1, n)
    BY <1>6, <1>7
  <2> HIDE DEF n
  <2>3. \A k \in 1 .. n : object[k] = rest[k]
    BY <2>1, <2>2, Prefix
  <2> QED
    BY <2>3 DEF n
<1>10. /\ s[d + 1] = "{" /\ s[d + 2] = "null" /\ s[d + 3] = ResultType(method) /\ s[d + 4] = "}"
       /\ object[3] = s[d + 3]
  <2>1. 1 \in 1 .. t - d /\ 2 \in 1 .. t - d /\ 3 \in 1 .. t - d /\ 4 \in 1 .. t - d
    BY <1>4, <1>8
  <2>2. rest[1] = s[d + 1] /\ rest[2] = s[d + 2] /\ rest[3] = s[d + 3] /\ rest[4] = s[d + 4]
    BY <1>8, <2>1
  <2>3. s[d + 1] = "{"
    BY <1>1, <1>3, <1>4
  <2>4. object[2] = "null" /\ object[3] = ResultType(method)
    BY DEF Accepts
  <2> QED
    BY <1>7, <1>9, <2>2, <2>3, <2>4
<1>11. SubSeq(s, d + 1, d + 4) = RpcObject("null", ResultType(method))
  <2> DEFINE n == 4
             p == SubSeq(s, d + 1, d + n)
             o == RpcObject("null", ResultType(method))
  <2>1. n \in Nat /\ d + n <= Len(s)
    BY <1>4, <1>8
  <2> HIDE DEF n
  <2>2. p \in Seq(Token) /\ Len(p) = n /\ \A k \in 1 .. n : p[k] = s[d + k]
    BY <1>4, <2>1, Slice
  <2> HIDE DEF p
  <2>3. "{" \in Token /\ "null" \in Token /\ ResultType(method) \in Token /\ "}" \in Token
    BY DEF Token, ResultType
  <2>4. /\ o \in Seq(Token) /\ Len(o) = 4
        /\ o[1] = "{" /\ o[2] = "null" /\ o[3] = ResultType(method) /\ o[4] = "}"
    BY <2>3, Quadruple DEF RpcObject
  <2> HIDE DEF o
  <2>5. \A k \in 1 .. n : p[k] = o[k]
    <3> TAKE k \in 1 .. n
    <3>1. k = 1 \/ k = 2 \/ k = 3 \/ k = 4
      BY DEF n
    <3> QED
      BY <3>1, <2>2, <2>4, <1>10
  <2>6. Len(p) = Len(o)
    BY <2>2, <2>4 DEF n
  <2>7. p \in Seq(Token) /\ o \in Seq(Token) /\ \A k \in 1 .. Len(p) : p[k] = o[k]
    BY <2>2, <2>4, <2>5
  <2>8. p = o
    BY <2>6, <2>7, SeqEqual
  <2> QED
    BY <2>8 DEF p, o, n
<1>12. \A j \in (d + 5) .. t : s[j] = "space"
  <2> TAKE j \in (d + 5) .. t
  <2>1. j - d \in 5 .. t - d /\ j - d \in 1 .. t - d /\ d + (j - d) = j
    BY <1>4
  <2> QED
    BY <2>1, <1>6, <1>7, <1>8
<1>13. d + 1 \in 1 .. t - 3 /\ (d + 1) + 3 = d + 4 /\ (d + 1) + 4 = d + 5 /\ (d + 1) + 2 = d + 3
  BY <1>4, <1>8
<1> QED
  <2> DEFINE k == d + 1
  <2>1. k \in 1 .. t - 3 /\ k + 3 = d + 4 /\ k + 4 = d + 5 /\ k + 2 = d + 3
    BY <1>13
  <2>2. SubSeq(s, k, k + 3) = RpcObject("null", ResultType(method))
    BY <1>11, <2>1
  <2> HIDE DEF k
  <2> QED
    BY <1>10, <1>12, <2>1, <2>2

\* Of what an answer to a call is made.
LEMMA Tokens ==
  /\ \A x \in Token : <<x>> \in Seq(Token)
  /\ <<>> \in Seq(Token)
  /\ {"header", "text", "[", "]", "{", "}", "space", "chunk"} \subseteq Token
  /\ {"null", "error", "none"} \subseteq Token
  /\ {"number", "string", "none"} \subseteq Token
<1>1. (\A x \in Token : <<x>> \in Seq(Token)) /\ <<>> \in Seq(Token)
  OBVIOUS
<1>2. /\ {"header", "text", "[", "]", "{", "}", "space", "chunk"} \subseteq Token
      /\ {"null", "error", "none"} \subseteq Token
      /\ {"number", "string", "none"} \subseteq Token
  BY DEF Token
<1> QED
  BY <1>1, <1>2

\* An object of an answer is a row of tokens.
LEMMA ObjectTokens ==
  ASSUME NEW e \in Token, NEW r \in Token
  PROVE  RpcObject(e, r) \in Seq(Token)
<1>1. "{" \in Token /\ "}" \in Token
  BY Tokens
<1>2. <<"{", e, r, "}">> \in Seq(Token)
  BY <1>1, Quadruple
<1> QED
  BY <1>2 DEF RpcObject

\* An answer to a call is a row of tokens.
LEMMA RpcTokens ==
  ASSUME NEW a \in RpcAnswer
  PROVE  a \in Seq(Token)
<1> DEFINE Objects == {RpcObject(e, r) : e \in {"null", "error", "none"},
                                         r \in {"number", "string", "none"}}
           o == RpcObject("null", "string")
           Listed == <<"[">> \o o \o <<"]">>
           Bodies == Objects \cup { <<"text">>, Listed }
           Trailers == { <<>>, <<"space">>, <<"chunk">> }
<1>0. RpcAnswer = {<<"header">> \o body \o trailer : body \in Bodies, trailer \in Trailers}
  BY DEF RpcAnswer
<1> HIDE DEF Bodies, Trailers
<1>1. PICK body \in Bodies, trailer \in Trailers : a = <<"header">> \o body \o trailer
  BY <1>0
<1>2. trailer = <<>> \/ trailer = <<"space">> \/ trailer = <<"chunk">>
  BY DEF Trailers
<1>3. <<"header">> \in Seq(Token) /\ trailer \in Seq(Token)
  <2>1. "header" \in Token /\ "space" \in Token /\ "chunk" \in Token
    BY Tokens
  <2>2. /\ <<"header">> \in Seq(Token) /\ <<"space">> \in Seq(Token)
        /\ <<"chunk">> \in Seq(Token) /\ <<>> \in Seq(Token)
    BY <2>1, Tokens
  <2> QED
    BY <1>2, <2>2
<1>4. body \in Objects \/ body = <<"text">> \/ body = Listed
  BY DEF Bodies
<1>5. Listed \in Seq(Token)
  <2>1. o \in Seq(Token)
    BY Tokens, ObjectTokens
  <2>2. <<"[">> \in Seq(Token) /\ <<"]">> \in Seq(Token)
    BY Tokens
  <2> HIDE DEF o
  <2>3. <<"[">> \o o \in Seq(Token)
    BY <2>1, <2>2, Joined
  <2> QED
    BY <2>2, <2>3, Joined
<1> HIDE DEF Listed
<1>6. body \in Seq(Token)
  <2>1. CASE body \in Objects
    <3>1. PICK e \in {"null", "error", "none"}, r \in {"number", "string", "none"} :
            body = RpcObject(e, r)
      BY <2>1
    <3>2. e \in Token /\ r \in Token
      BY Tokens
    <3> QED
      BY <3>1, <3>2, ObjectTokens
  <2>2. CASE body = <<"text">>
    BY <2>2, Tokens
  <2> QED
    BY <1>4, <1>5, <2>1, <2>2
<1>7. <<"header">> \o body \in Seq(Token)
  BY <1>3, <1>6, Joined
<1>8. (<<"header">> \o body) \o trailer \in Seq(Token)
  BY <1>3, <1>7, Joined
<1> QED
  BY <1>1, <1>8

\* What the client is told at its end.
Ended == PrintedIsFirstMessage /\ ResultIsWholeAnswer /\ CrashHasCause

\* The invariant holds at the start.
LEMMA Begins == Init => NInv
<1> SUFFICES ASSUME Init PROVE NInv
  OBVIOUS
<1>1. /\ request = <<>> /\ sent = 0 /\ total = 0 /\ room = InitRoom /\ pc = "connect"
      /\ outcome = "running"
  BY DEF Init
<1>2. InitRoom \in Nat /\ InitRoom > 0
  BY ClientsAssumption
<1>3. job.client \in {"node", "rpc"}
  <2> DEFINE N == [client : {"node"}, port : {"8333", "18333"}]
             R == [client : {"rpc"}, method : Methods, host : Lengths, auth : Lengths, data : {2}]
  <2>1. job \in N \/ job \in R
    BY DEF Init
  <2> QED
    BY <2>1
<1>4. job.client = "node" => /\ First \in Message /\ answer \in Seq(Unit)
                             /\ FirstLen <= Len(answer)
                             /\ \A k \in 1 .. FirstLen : answer[k] = RawOf(First)[k]
  <2> SUFFICES ASSUME job.client = "node"
               PROVE  /\ First \in Message /\ answer \in Seq(Unit)
                      /\ FirstLen <= Len(answer)
                      /\ \A k \in 1 .. FirstLen : answer[k] = RawOf(First)[k]
    OBVIOUS
  <2>1. /\ said \in {<<m>> : m \in Message} \cup {<<m, Follower>> : m \in Message}
        /\ answer = UnitsOf(said)
    BY DEF Init
  <2>2. CASE said \in {<<m>> : m \in Message}
    <3>1. PICK m \in Message : said = <<m>>
      BY <2>2
    <3>2. First = m /\ answer = RawOf(m)
      BY <2>1, <3>1 DEF UnitsOf, First
    <3>3. RawOf(m) \in Seq(Unit)
      BY RawFacts
    <3>4. Len(RawOf(m)) \in Nat
      BY <3>3
    <3> QED
      BY <3>2, <3>3, <3>4 DEF FirstLen
  <2>3. CASE said \in {<<m, Follower>> : m \in Message}
    <3>1. PICK m \in Message : said = <<m, Follower>>
      BY <2>3
    <3>2. First = m /\ said[2] = Follower /\ Len(said) = 2
      BY <3>1 DEF First
    <3> DEFINE a == RawOf(m)
               z == RawOf(Follower)
    <3>3. answer = a \o z
      BY <2>1, <3>2 DEF UnitsOf, First
    <3>4. Follower \in Message
      <4>1. Follower \in [command : {"version", "verack", "inv"}, missing : {0},
                          damaged : {FALSE}]
        BY DEF Follower
      <4> QED
        BY <4>1 DEF Message
    <3>5. a \in Seq(Unit) /\ z \in Seq(Unit)
      BY <3>4, RawFacts
    <3> HIDE DEF a, z
    <3>6. /\ answer \in Seq(Unit) /\ Len(answer) = Len(a) + Len(z)
          /\ Len(a) \in Nat /\ Len(z) \in Nat /\ \A k \in 1 .. Len(a) : answer[k] = a[k]
      BY <3>3, <3>5, Joined
    <3>7. Len(a) <= Len(answer)
      BY <3>6
    <3> QED
      BY <3>2, <3>6, <3>7 DEF FirstLen, a
  <2> QED
    BY <2>1, <2>2, <2>3
<1>5. job.client = "rpc" => answer = said /\ said \in Seq(Token)
  BY RpcTokens DEF Init
<1>6. Len(answer) \in Nat
  BY <1>3, <1>4, <1>5
<1>7. Answered /\ Places /\ Counts
  BY <1>1, <1>2, <1>6 DEF Answered, Places, Counts
<1>8. PrintedIsFirstMessage /\ ResultIsWholeAnswer /\ CrashHasCause
  BY <1>1 DEF PrintedIsFirstMessage, ResultIsWholeAnswer, CrashHasCause, At, Running
<1> QED
  BY <1>3, <1>4, <1>5, <1>7, <1>8 DEF NInv, Clients, NodeSays, RpcSays

\* A step that leaves the client running, or ends it with an error.
LEMMA Quiet ==
  ASSUME Clients', Places', outcome' \notin {"printed", "result", "crashed"}
  PROVE  Ended'
<1>1. PrintedIsFirstMessage' /\ CrashHasCause'
  BY DEF PrintedIsFirstMessage, CrashHasCause
<1>2. (At("parse") => total < room)'
  BY DEF Clients, Places, At
<1>3. ResultIsWholeAnswer'
  BY <1>2 DEF ResultIsWholeAnswer
<1> QED
  BY <1>1, <1>3 DEF Ended

\* What the node says does not change.
LEMMA Says ==
  ASSUME NInv, UNCHANGED <<job, said, answer>>
  PROVE  Clients' /\ NodeSays' /\ RpcSays' /\ (FirstLen' = FirstLen)
BY DEF NInv, Clients, NodeSays, RpcSays, First, FirstLen

\* The lengths a client reads up to.
LEMMA Sizes ==
  ASSUME NInv
  PROVE  /\ Len(answer) \in Nat /\ sent \in Nat /\ total \in Nat /\ room \in Nat
         /\ job.client = "node" =>
              FirstLen \in Nat /\ MinSize <= FirstLen /\ MessageLen(answer) = FirstLen
<1>1. Len(answer) \in Nat
  BY DEF NInv, Clients, NodeSays, RpcSays
<1>2. sent \in Nat /\ total \in Nat /\ room \in Nat
  BY <1>1 DEF NInv, Counts
<1>3. ASSUME job.client = "node"
      PROVE  FirstLen \in Nat /\ MinSize <= FirstLen /\ MessageLen(answer) = FirstLen
  <2>1. First \in Message /\ \A k \in 1 .. FirstLen : answer[k] = RawOf(First)[k]
    BY <1>3 DEF NInv, NodeSays
  <2>2. Len(Payload(First)) \in Nat
    BY <2>1, PayloadFacts
  <2>3. FirstLen = 4 + Len(Payload(First)) /\ RawOf(First)[3] = Len(Payload(First))
    BY <2>1, RawFacts DEF FirstLen
  <2>4. 3 \in 1 .. FirstLen
    BY <2>2, <2>3
  <2>5. answer[3] = Len(Payload(First))
    BY <2>1, <2>3, <2>4
  <2> QED
    BY <2>2, <2>3, <2>5 DEF MessageLen, PayloadLen, MinSize
<1> QED
  BY <1>1, <1>2, <1>3

\* What btk_node_main does with a message that is whole.
LEMMA RespondStep ==
  ASSUME NInv, Respond
  PROVE  Ended'
<1> DEFINE raw == SubSeq(answer, 1, total)
           m == MessageFromRaw(raw)
           payload == Payload(First)
<1>1. /\ At("respond") /\ pc = "respond" /\ outcome = "running"
      /\ UNCHANGED <<job, said, answer, request, sent, peer, total, room>>
  BY DEF Respond, At, Running
<1>2. job.client = "node"
  BY <1>1 DEF NInv, Clients, Places
<1>3. /\ First \in Message /\ answer \in Seq(Unit) /\ FirstLen <= Len(answer)
      /\ \A k \in 1 .. FirstLen : answer[k] = RawOf(First)[k]
  BY <1>2 DEF NInv, NodeSays
<1>4. total \in 0 .. Len(answer) /\ total <= FirstLen
  BY <1>1, Sizes DEF NInv, Counts, Places
<1>5. Clients' /\ NodeSays' /\ RpcSays' /\ First' = First
  BY <1>1, Says DEF First
<1>6. Places' \/ pc' # pc
  BY <1>1, <1>5, Says DEF NInv, Places
<1>7. pc' = pc
  BY DEF Respond, Ends, PrintVersion
<1>8. CASE outcome' = "failed"
  BY <1>5, <1>6, <1>7, <1>8, Quiet
<1>9. outcome' = "failed" \/ (IsComplete(raw) /\ IsValid(m) /\ outcome' \in {"printed", "crashed"})
  BY DEF Respond, Ends, PrintVersion
<1>10. CASE IsComplete(raw) /\ IsValid(m) /\ outcome' \in {"printed", "crashed"}
  <2>1. total = FirstLen /\ raw = RawOf(First)
    BY <1>3, <1>4, <1>10, Whole DEF FirstLen
  <2>2. /\ m.command = First.command /\ m.length = Len(payload) /\ m.payload = payload
        /\ ~First.damaged
    BY <1>3, <1>10, <2>1, Understood
  <2> HIDE DEF m, raw
  <2>3. payload \in Seq(Nat) /\ Len(payload) \in Nat /\ (~HasVersion(First) => payload = <<>>)
    BY <1>3, PayloadFacts
  <2>4. ASSUME outcome' = "crashed", Unset(m)
        PROVE  First.command = "verack" \/ (First.command = "version" /\ payload = <<>>)
    <3>2. payload \in Seq(Nat)
      BY <2>3
    <3>3. Len(payload) = 0 => payload = <<>>
      BY <3>2
    <3>1. m.length = 0 => payload = <<>>
      BY <2>2, <3>3
    <3> QED
      BY <2>2, <2>4, <3>1 DEF Unset
  <2>5. CASE outcome' = "crashed" /\ Unset(m)
    <3>1. CrashHasCause'
      BY <1>1, <1>5, <1>7, <2>1, <2>2, <2>4, <2>5 DEF CrashHasCause, FirstLen, First
    <3>2. PrintedIsFirstMessage'
      BY <2>5 DEF PrintedIsFirstMessage
    <3>3. ResultIsWholeAnswer'
      BY <1>1, <1>7, <2>5 DEF ResultIsWholeAnswer, At
    <3> QED
      BY <3>1, <3>2, <3>3 DEF Ended
  <2>6. CASE ~Unset(m) \/ outcome' # "crashed"
    <3>1. ~Unset(m) /\ m.command = "version" /\ PrintVersion(m.payload)
      BY <1>10, <2>6 DEF Respond, Ends, m, raw
    <3>2. HasVersion(First)
      BY <2>2, <2>3, <3>1 DEF Unset
    <3> DEFINE junked(junk) == payload \o [k \in 1 .. (AgentAt + 3) |-> junk]
               agent == First.version.user_agent
    <3>3. PICK junk \in {0, 1} :
            \/ /\ outcome' = "printed"
               /\ \/ result' = VersionToJson(VersionFromRaw(junked(junk)))
                  \/ /\ junked(junk)[AgentAt] = 0
                     /\ result' = [VersionToJson(VersionFromRaw(junked(junk)))
                                     EXCEPT !.user_agent = <<junk>>]
            \/ /\ junked(junk)[AgentAt] = 0 \/ Len(payload) < AgentAt + junked(junk)[AgentAt] + 2
               /\ outcome' = "crashed"
      BY <1>10, <2>2, <3>1 DEF PrintVersion, Ends
    <3> DEFINE memory == junked(junk)
    <3>4. /\ memory \in Seq(Nat) /\ Len(payload) <= Len(memory)
          /\ \A k \in 1 .. Len(payload) : memory[k] = payload[k]
      BY <2>3, Remembered
    <3> HIDE DEF memory
    <3>5. /\ memory[AgentAt] = Len(agent)
          /\ \A field \in SentFields(First) :
               Agrees(VersionToJson(VersionFromRaw(memory))[field], field, First.version[field])
      BY <1>3, <3>2, <3>4, Printed
    <3>6. CASE outcome' = "printed"
      <4> DEFINE shown == VersionToJson(VersionFromRaw(memory))
      <4>1. \/ result' = shown
            \/ memory[AgentAt] = 0 /\ result' = [shown EXCEPT !.user_agent = <<junk>>]
        BY <3>3, <3>6 DEF memory
      <4>2. ASSUME NEW field \in SentFields(First)
            PROVE  Agrees(result'[field], field, First.version[field])
        <5>1. Agrees(shown[field], field, First.version[field])
          BY <3>5
        <5>2. CASE result' = shown
          BY <5>1, <5>2
        <5>3. CASE memory[AgentAt] = 0 /\ result' = [shown EXCEPT !.user_agent = <<junk>>]
          <6>1. First.version.user_agent = <<>>
            <7>1. First.version \in Version
              BY <1>3, <3>2, MessageKinds
            <7>2. agent \in Seq(Nat)
              BY <7>1 DEF Version
            <7>3. Len(agent) = 0
              BY <3>5, <5>3
            <7> HIDE DEF agent
            <7>4. agent = <<>>
              BY <7>2, <7>3
            <7> QED
              BY <7>4 DEF agent
          <6>2. field # "user_agent"
            <7>1. "user_agent" \notin LeadingFields
              BY DEF LeadingFields, Leading
            <7> QED
              BY <6>1, <7>1 DEF SentFields
          <6>3. field \in DOMAIN shown
            BY <6>2 DEF SentFields, VersionToJson, VersionFromRaw
          <6> HIDE DEF shown
          <6>4. result'[field] = shown[field]
            BY <5>3, <6>2, <6>3
          <6> QED
            BY <5>1, <6>4
        <5> QED
          BY <4>1, <5>2, <5>3
      <4>3. First.command = "version" /\ ~First.damaged /\ total = Len(RawOf(First))
        BY <2>1, <2>2, <3>1 DEF FirstLen
      <4>4. PrintedIsFirstMessage'
        BY <1>1, <1>5, <4>2, <4>3 DEF PrintedIsFirstMessage, SentFields, First
      <4>5. CrashHasCause'
        BY <3>6 DEF CrashHasCause
      <4>6. ResultIsWholeAnswer'
        BY <1>1, <1>7, <3>6 DEF ResultIsWholeAnswer, At
      <4> QED
        BY <4>4, <4>5, <4>6 DEF Ended
    <3>7. CASE outcome' = "crashed"
      <4>1. agent = <<>> \/ First.missing > 0
        <5>1. First.version \in Version /\ First.missing \in 0 .. 2
          BY <1>3, <3>2, MessageKinds
        <5>2. agent \in Seq(Nat)
          BY <5>1 DEF Version
        <5>3. LET full == VersionToRaw(First.version)
              IN  Len(full) = 13 + Len(agent) /\ Len(payload) = Len(full) - First.missing
          BY <1>3, <3>2, PayloadFacts
        <5>8. Len(agent) \in Nat
          BY <5>2
        <5>9. First.missing \in 0 .. 2
          BY <5>1
        <5>4. Len(agent) \in Nat /\ Len(payload) = 13 + Len(agent) - First.missing
          BY <5>3, <5>8, <5>9
        <5>5. memory[AgentAt] = 0 \/ Len(payload) < AgentAt + memory[AgentAt] + 2
          BY <3>3, <3>7 DEF memory
        <5>6. Len(agent) = 0 \/ Len(payload) < 13 + Len(agent)
          BY <3>5, <5>4, <5>5, LeadingFacts
        <5>7. Len(agent) = 0 => agent = <<>>
          BY <5>2
        <5> QED
          BY <5>1, <5>4, <5>6, <5>7
      <4>2. First.command = "version"
        BY <2>2, <3>1
      <4>3. CrashHasCause'
        BY <1>1, <1>5, <1>7, <2>1, <2>2, <4>1, <4>2 DEF CrashHasCause, FirstLen, First
      <4>4. PrintedIsFirstMessage'
        BY <3>7 DEF PrintedIsFirstMessage
      <4>5. ResultIsWholeAnswer'
        BY <1>1, <1>7, <3>7 DEF ResultIsWholeAnswer, At
      <4> QED
        BY <4>3, <4>4, <4>5 DEF Ended
    <3> QED
      BY <1>10, <3>6, <3>7
  <2> QED
    BY <2>5, <2>6
<1> QED
  BY <1>8, <1>9, <1>10

\* What the caller of a call of JSON-RPC is given.
LEMMA ParseStep ==
  ASSUME NInv, Parse
  PROVE  Ended'
<1> DEFINE object == ParseResponse(SubSeq(answer, 1, total))
<1>1. /\ pc = "parse" /\ outcome = "running" /\ pc' = pc
      /\ UNCHANGED <<job, said, answer, request, sent, peer, total, room>>
      /\ \/ Accepts(job.method, object) /\ result' = object /\ outcome' = "result"
         \/ outcome' = "failed"
  BY DEF Parse, At, Running, Ends
<1>2. job.client = "rpc" /\ answer = said /\ said \in Seq(Token)
  BY <1>1 DEF NInv, Clients, Places, RpcSays
<1>3. CASE outcome' = "failed"
  <2>1. Clients' /\ Places'
    BY <1>1, <1>2, Says DEF NInv, Places
  <2> QED
    BY <1>3, <2>1, Quiet
<1>4. CASE Accepts(job.method, object) /\ result' = object /\ outcome' = "result"
  <2>1. total \in 0 .. Len(said) /\ total <= sent /\ total \in Nat
    BY <1>2, Sizes DEF NInv, Counts
  <2>2. \E k \in 1 .. (total - 3) :
          /\ SubSeq(said, k, k + 3) = RpcObject("null", ResultType(job.method))
          /\ \A j \in (k + 4) .. total : said[j] = "space"
          /\ object[3] = said[k + 2]
    BY <1>2, <1>4, <2>1, ObjectFound
  <2>3. total > 0
    BY <2>1, <2>2
  <2>4. RequestIsWhole(request, job.data)
    BY <1>2, <2>1, <2>3, Sizes DEF NInv, Answered
  <2>5. ResultIsWholeAnswer'
    BY <1>1, <1>4, <2>2, <2>4 DEF ResultIsWholeAnswer, At, Running
  <2>6. PrintedIsFirstMessage' /\ CrashHasCause'
    BY <1>4 DEF PrintedIsFirstMessage, CrashHasCause
  <2> QED
    BY <2>5, <2>6 DEF Ended
<1> QED
  BY <1>1, <1>3, <1>4

\* Every step keeps the invariant.
LEMMA Steps ==
  ASSUME NInv, [Next]_vars
  PROVE  NInv'
<1>s. /\ Len(answer) \in Nat /\ sent \in Nat /\ total \in Nat /\ room \in Nat
      /\ job.client = "node" =>
           FirstLen \in Nat /\ MinSize <= FirstLen /\ MessageLen(answer) = FirstLen
  BY Sizes
<1>c. sent \in 0 .. Len(answer) /\ total \in 0 .. sent
  BY DEF NInv, Counts
<1>i. Clients /\ Answered /\ Places
  BY DEF NInv
<1>m. MinSize \in Nat
  BY DEF MinSize
<1>q. ASSUME Clients', NodeSays', RpcSays', Answered', Places', Counts', Ended'
      PROVE  NInv'
  BY <1>q DEF NInv, Ended
<1>g. ASSUME NEW asked \in Int, NEW k, Gets(asked, k)
      PROVE  /\ total + k \in 0 .. sent /\ k <= asked /\ total + k \in Nat /\ k \in Nat /\ k > 0
             /\ sent > 0
  <2>1. sent - total \in Int
    BY <1>s
  <2>2. /\ Min({asked, sent - total}) <= asked /\ Min({asked, sent - total}) <= sent - total
        /\ Min({asked, sent - total}) \in Int
    BY <2>1, SmallerOfTwo
  <2>3. k \in 1 .. Min({asked, sent - total})
    BY <1>g DEF Gets
  <2> DEFINE least == Min({asked, sent - total})
  <2> HIDE DEF least
  <2>4. least \in Int /\ least <= asked /\ least <= sent - total /\ k \in 1 .. least
    BY <2>2, <2>3 DEF least
  <2> QED
    BY <2>4, <1>s, <1>c
<1>1. CASE Connect
  <2>1. /\ pc = "connect" /\ outcome = "running"
        /\ UNCHANGED <<job, said, answer, request, sent, peer, total, room, result>>
        /\ \/ pc' = "write" /\ outcome' = "running"
           \/ pc' = pc /\ outcome' \in {"failed", "crashed"}
    BY <1>1 DEF Connect, At, Running, Goes, Ends
  <2>2. Clients' /\ NodeSays' /\ RpcSays'
    BY <2>1, Says
  <2>3. Answered' /\ Places' /\ Counts'
    BY <2>1, <1>i, <1>c, <1>s DEF Answered, Places, Counts, Clients
  <2>4. CASE outcome' = "crashed"
    <3>1. CrashHasCause'
      BY <2>1, <2>4 DEF CrashHasCause
    <3>2. PrintedIsFirstMessage' /\ ResultIsWholeAnswer'
      BY <2>1, <2>4 DEF PrintedIsFirstMessage, ResultIsWholeAnswer, At
    <3> QED
      BY <1>q, <2>2, <2>3, <3>1, <3>2 DEF Ended
  <2>5. CASE outcome' # "crashed"
    <3>1. Ended'
      BY <2>1, <2>2, <2>3, <2>5, Quiet
    <3> QED
      BY <1>q, <2>2, <2>3, <3>1
  <2> QED
    BY <2>4, <2>5
<1>2. CASE Write
  <2>1. /\ pc = "write" /\ outcome = "running"
        /\ UNCHANGED <<job, said, answer, sent, peer, total, room, result>>
        /\ \/ /\ pc' = IF job.client = "node" THEN "header" ELSE "read"
              /\ outcome' = "running"
           \/ pc' = pc /\ outcome' = "failed" /\ request' = request
    BY <1>2 DEF Write, At, Running, Goes, Ends
  <2>2. Clients' /\ NodeSays' /\ RpcSays'
    BY <2>1, Says
  <2>3. sent = 0 /\ total = 0
    BY <2>1, <1>i, <1>c, <1>s DEF Answered
  <2>4. Answered' /\ Counts'
    BY <2>1, <2>3, <1>i, <1>c, <1>s DEF Answered, Counts, Clients
  <2>5. Places'
    BY <2>1, <2>3, <1>i, <1>s DEF Places, Clients, MinSize
  <2>6. Ended'
    BY <2>1, <2>2, <2>5, Quiet
  <2> QED
    BY <1>q, <2>2, <2>4, <2>5, <2>6
<1>3. CASE ReadHeader
  <2>1. /\ pc = "header" /\ outcome = "running"
        /\ UNCHANGED <<job, said, answer, request, sent, peer, room, result>>
        /\ \/ \E k \in 1 .. MinSize :
                /\ Gets(MinSize - total, k)
                /\ total' = total + k
                /\ pc' = IF total' = MinSize THEN "payload" ELSE "header"
                /\ outcome' = outcome
           \/ pc' = pc /\ outcome' = "failed" /\ total' = total
    BY <1>3 DEF ReadHeader, At, Running, Goes, Ends
  <2>2. Clients' /\ NodeSays' /\ RpcSays' /\ FirstLen' = FirstLen
    BY <2>1, Says
  <2>3. job.client = "node"
    BY <2>1, <1>i DEF Places, Clients
  <2>4. total' \in 0 .. sent /\ total' <= MinSize /\ total' \in Nat
        /\ pc' \in {"header", "payload"} /\ (pc' = "header" => total' < MinSize)
        /\ (pc' = "payload" => total' = MinSize)
    <3>1. CASE total' = total /\ pc' = pc
      <4>1. total < MinSize /\ total \in Nat /\ MinSize \in Nat /\ total \in 0 .. sent
        BY <2>1, <1>c, <1>s, <1>i, <1>m DEF Places
      <4>2. pc' = "header"
        BY <3>1, <2>1
      <4> QED
        BY <3>1, <4>1, <4>2
    <3>2. CASE \E k \in 1 .. MinSize :
                /\ Gets(MinSize - total, k)
                /\ total' = total + k
                /\ pc' = IF total' = MinSize THEN "payload" ELSE "header"
      <4>1. PICK k \in 1 .. MinSize :
                /\ Gets(MinSize - total, k)
                /\ total' = total + k
                /\ pc' = IF total' = MinSize THEN "payload" ELSE "header"
        BY <3>2
      <4>2. MinSize - total \in Int
        BY <1>m, <1>s
      <4>3. total + k \in 0 .. sent /\ k <= MinSize - total /\ total + k \in Nat /\ sent > 0
        BY <4>1, <4>2, <1>g
      <4>4. total + k <= MinSize
        BY <4>3, <1>m, <1>s
      <4>5. /\ total' \in 0 .. sent /\ total' <= MinSize /\ total' \in Nat
            /\ (total' # MinSize => total' < MinSize)
        BY <4>1, <4>3, <4>4, <1>m
      <4> QED
        BY <4>1, <4>5
    <3> QED
      BY <2>1, <3>1, <3>2
  <2>5. Answered' /\ Counts'
    BY <2>1, <2>3, <2>4, <1>i, <1>c, <1>s DEF Answered, Counts
  <2>6. Places'
    BY <2>1, <2>2, <2>3, <2>4, <1>s, <1>m DEF Places
  <2>7. Ended'
    BY <2>1, <2>2, <2>6, Quiet
  <2> QED
    BY <1>q, <2>2, <2>5, <2>6, <2>7
<1>4. CASE ReadPayload
  <2>1. /\ pc = "payload" /\ outcome = "running" /\ outcome' = outcome
        /\ UNCHANGED <<job, said, answer, request, sent, peer, room, result>>
        /\ \/ \E k \in 1 .. Len(answer) :
                /\ Gets(MessageLen(answer) - total, k)
                /\ total' = total + k
                /\ pc' = IF total' = MessageLen(answer) THEN "respond" ELSE "payload"
           \/ pc' = "respond" /\ total' = total
    BY <1>4 DEF ReadPayload, At, Running, Goes
  <2>2. Clients' /\ NodeSays' /\ RpcSays' /\ FirstLen' = FirstLen
    BY <2>1, Says
  <2>3. job.client = "node" /\ total \in MinSize .. FirstLen
    BY <2>1, <1>i DEF Places, Clients
  <2>4. total' \in 0 .. sent /\ total' \in MinSize .. FirstLen /\ pc' \in {"payload", "respond"}
    <3>1. CASE total' = total /\ pc' = "respond"
      BY <3>1, <2>3, <1>c
    <3>2. CASE \E k \in 1 .. Len(answer) :
                /\ Gets(MessageLen(answer) - total, k)
                /\ total' = total + k
                /\ pc' = IF total' = MessageLen(answer) THEN "respond" ELSE "payload"
      <4>1. PICK k \in 1 .. Len(answer) :
                /\ Gets(MessageLen(answer) - total, k)
                /\ total' = total + k
                /\ pc' = IF total' = MessageLen(answer) THEN "respond" ELSE "payload"
        BY <3>2
      <4>2. FirstLen - total \in Int /\ MessageLen(answer) = FirstLen
        BY <2>3, <1>s
      <4>3. total + k \in 0 .. sent /\ k <= FirstLen - total /\ total + k \in Nat
            /\ k \in Nat
        BY <4>1, <4>2, <1>g
      <4> QED
        BY <4>1, <4>3, <2>3, <1>m, <1>s
    <3> QED
      BY <2>1, <3>1, <3>2
  <2>5. Answered' /\ Counts'
    BY <2>1, <2>3, <2>4, <1>i, <1>c, <1>s DEF Answered, Counts
  <2>6. Places'
    BY <2>1, <2>2, <2>3, <2>4 DEF Places
  <2>7. Ended'
    BY <2>1, <2>2, <2>6, Quiet
  <2> QED
    BY <1>q, <2>2, <2>5, <2>6, <2>7
<1>5. CASE Respond
  <2>1. /\ pc = "respond" /\ pc' = pc
        /\ UNCHANGED <<job, said, answer, request, sent, peer, total, room>>
    BY <1>5 DEF Respond, At, Ends, PrintVersion
  <2>2. Clients' /\ NodeSays' /\ RpcSays' /\ FirstLen' = FirstLen
    BY <2>1, Says
  <2>3. Answered' /\ Places' /\ Counts'
    BY <2>1, <2>2, <1>i, <1>c, <1>s DEF Answered, Places, Counts
  <2>4. Ended'
    BY <1>5, RespondStep
  <2> QED
    BY <1>q, <2>2, <2>3, <2>4
<1>6. CASE ReadAll
  <2>1. /\ pc = "read" /\ outcome = "running"
        /\ UNCHANGED <<job, said, answer, request, sent, peer, result>>
        /\ \/ \E k \in 1 .. room :
                /\ Gets(room - total, k)
                /\ total' = total + k
                /\ room' = Grown(total', room)
                /\ pc' = pc /\ outcome' = outcome
           \/ /\ pc' \in {"read", "parse"} /\ outcome' \in {"running", "failed"}
              /\ total' = total /\ room' = room
    BY <1>6 DEF ReadAll, At, Running, Goes, Ends
  <2>2. Clients' /\ NodeSays' /\ RpcSays' /\ FirstLen' = FirstLen
    BY <2>1, Says
  <2>3. job.client = "rpc" /\ total < room
    BY <2>1, <1>i DEF Places, Clients
  <2>4. total' \in 0 .. sent /\ total' < room' /\ room' \in Nat
    <3>1. CASE total' = total /\ room' = room
      BY <3>1, <2>3, <1>c, <1>s
    <3>2. CASE \E k \in 1 .. room :
                /\ Gets(room - total, k)
                /\ total' = total + k
                /\ room' = Grown(total', room)
      <4>1. PICK k \in 1 .. room :
                /\ Gets(room - total, k)
                /\ total' = total + k
                /\ room' = Grown(total', room)
        BY <3>2
      <4>2. room - total \in Int
        BY <1>s
      <4>3. total + k \in 0 .. sent /\ k <= room - total /\ total + k \in Nat /\ k \in Nat
        BY <4>1, <4>2, <1>g
      <4> QED
        BY <4>1, <4>3, <2>3, <1>s DEF Grown
    <3> QED
      BY <2>1, <3>1, <3>2
  <2>5. Answered' /\ Counts'
    BY <2>1, <2>3, <2>4, <1>i, <1>c, <1>s DEF Answered, Counts
  <2>6. Places'
    BY <2>1, <2>2, <2>3, <2>4 DEF Places
  <2>7. Ended'
    BY <2>1, <2>2, <2>6, Quiet
  <2> QED
    BY <1>q, <2>2, <2>5, <2>6, <2>7
<1>7. CASE Parse
  <2>1. /\ pc = "parse" /\ pc' = pc
        /\ UNCHANGED <<job, said, answer, request, sent, peer, total, room>>
    BY <1>7 DEF Parse, At, Ends
  <2>2. Clients' /\ NodeSays' /\ RpcSays' /\ FirstLen' = FirstLen
    BY <2>1, Says
  <2>3. Answered' /\ Places' /\ Counts'
    BY <2>1, <2>2, <1>i, <1>c, <1>s DEF Answered, Places, Counts
  <2>4. Ended'
    BY <1>7, ParseStep
  <2> QED
    BY <1>q, <2>2, <2>3, <2>4
<1>8. CASE Send
  <2>1. /\ outcome = "running" /\ request # <<>>
        /\ (job.client = "rpc" => RequestIsWhole(request, job.data))
        /\ sent' \in (sent + 1) .. Len(answer)
        /\ UNCHANGED <<job, said, answer, request, peer, total, room, result, pc, outcome>>
    BY <1>8 DEF Send, Answers, Running
  <2>2. Clients' /\ NodeSays' /\ RpcSays' /\ FirstLen' = FirstLen
    BY <2>1, Says
  <2>3. Places'
    BY <2>1, <2>2, <1>i DEF Places
  <2>4. Counts'
    BY <2>1, <1>c, <1>s DEF Counts
  <2>5. Answered'
    BY <2>1, <1>i DEF Answered
  <2>6. Ended'
    BY <2>1, <2>2, <2>3, Quiet
  <2> QED
    BY <1>q, <2>2, <2>3, <2>4, <2>5, <2>6
<1>9. CASE Leave
  <2>1. /\ outcome = "running"
        /\ UNCHANGED <<job, said, answer, request, sent, total, room, result, pc, outcome>>
    BY <1>9 DEF Leave, Running
  <2>2. Clients' /\ NodeSays' /\ RpcSays' /\ FirstLen' = FirstLen
    BY <2>1, Says
  <2>3. Places' /\ Counts' /\ Answered'
    BY <2>1, <2>2, <1>i, <1>c, <1>s DEF Places, Counts, Answered
  <2>4. Ended'
    BY <2>1, <2>2, <2>3, Quiet
  <2> QED
    BY <1>q, <2>2, <2>3, <2>4
<1>10. CASE UNCHANGED vars
  <2>1. UNCHANGED <<job, said, answer, request, sent, total, room, result, pc, outcome>>
    BY <1>10 DEF vars
  <2>2. Clients' /\ NodeSays' /\ RpcSays' /\ FirstLen' = FirstLen
    BY <2>1, Says
  <2>3. Places' /\ Counts' /\ Answered'
    BY <2>1, <2>2, <1>i, <1>c, <1>s DEF Places, Counts, Answered
  <2>4. PrintedIsFirstMessage' /\ ResultIsWholeAnswer' /\ CrashHasCause'
    BY <2>1 DEF NInv, PrintedIsFirstMessage, ResultIsWholeAnswer, CrashHasCause, At, Running
  <2> QED
    BY <1>q, <2>2, <2>3, <2>4 DEF Ended
<1> QED
  BY <1>1, <1>2, <1>3, <1>4, <1>5, <1>6, <1>7, <1>8, <1>9, <1>10 DEF Next, Client

(***************************************************************************)
(* The invariant of a client: whatever the node says, in whatever pieces.  *)
(***************************************************************************)
THEOREM ClientInvariant == Spec => []NInv
<1>1. Init => NInv
  BY Begins
<1>2. NInv /\ [Next]_vars => NInv'
  BY Steps
<1> QED
  BY <1>1, <1>2, PTL DEF Spec

(***************************************************************************)
(* What "btk node" prints is the first message of the node, as it was sent *)
(* (node.c lines 153-199, btk_node.c lines 81-107).                        *)
(***************************************************************************)
THEOREM PrintsFirstMessage == Spec => []PrintedIsFirstMessage
<1>1. NInv => PrintedIsFirstMessage
  BY DEF NInv
<1> QED
  BY <1>1, ClientInvariant, PTL

(***************************************************************************)
(* The caller of a JSON-RPC call is given the result of an answer that has *)
(* arrived whole, and the buffer has room for the zeros that end it        *)
(* (jsonrpc.c lines 302-376, node.c lines 130-148).                        *)
(***************************************************************************)
THEOREM ReturnsWholeAnswer == Spec => []ResultIsWholeAnswer
<1>1. NInv => ResultIsWholeAnswer
  BY DEF NInv
<1> QED
  BY <1>1, ClientInvariant, PTL

(***************************************************************************)
(* The client crashes of the listed causes only (node.c line 60,           *)
(* btk_node.c lines 89-107, version.c lines 118-154).                      *)
(***************************************************************************)
THEOREM CrashesHaveCauses == Spec => []CrashHasCause
<1>1. NInv => CrashHasCause
  BY DEF NInv
<1> QED
  BY <1>1, ClientInvariant, PTL
=============================================================================
