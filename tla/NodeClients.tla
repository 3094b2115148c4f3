----------------------------- MODULE NodeClients -----------------------------
(***************************************************************************)
(* A client of a bitcoin node over a TCP connection: "btk node"            *)
(* (ctrl_mods/btk_node.c), which reads one message of the bitcoin          *)
(* protocol, or one call of JSON-RPC (mods/jsonrpc.c), which reads until   *)
(* the node closes the connection.  Both read through mods/node.c.         *)
(*                                                                         *)
(* The node may answer in pieces of any size, may send more messages after *)
(* the first, may close or break the connection at any time, and may say   *)
(* nothing for ever: the client sets no time limit.                        *)
(***************************************************************************)
EXTENDS NodeMessages

CONSTANTS
  Versions,  \* what a node may say of itself
  Missing,   \* how many of the last units of a version an older node leaves out
  Lengths,   \* lengths of the host and authorization lines of a request
  InitRoom   \* BUFSIZ as the size of the first buffer of node_read

\* A version as a node may report it: numbers, and the characters of its name.
Version == [version : Nat, services : Nat, timestamp : Nat,
            addr_recv_services : Nat, addr_recv_ip_address : Nat, addr_recv_port : Nat,
            addr_trans_services : Nat, addr_trans_ip_address : Nat, addr_trans_port : Nat,
            nonce : Nat, user_agent : Seq(Nat), start_height : Nat, relay : Nat]

ASSUME ClientsAssumption ==
  /\ Versions \subseteq Version
  /\ Exact \in Nat
  /\ Bufsiz \in Nat \ {0}
  /\ Missing \subseteq 0 .. 2
  /\ Lengths \subseteq Nat \ {0}
  /\ InitRoom \in Nat \ {0}

VARIABLES
  job,      \* the client, and what the user asked it
  said,     \* what the node has to say: its messages, or tokens of its answer
  answer,   \* all of it as units
  request,  \* what the client has written
  sent,     \* number of units of the answer that have arrived
  peer,     \* the connection as the node leaves it: "open", "closed", "broken"
  total,    \* read_total
  room,     \* buf_size of node_read
  result,   \* what was printed, or given to the caller
  pc,
  outcome

vars == <<job, said, answer, request, sent, peer, total, room, result, pc, outcome>>

Nothing == <<>>

-----------------------------------------------------------------------------
(* What the node may say.  A message may be damaged on its way.            *)

Message == [command : {"version"}, version : Versions, missing : Missing,
            damaged : BOOLEAN]
             \cup [command : {"version", "verack", "inv"}, missing : {0},
                   damaged : {FALSE}]

Payload(m) ==
  IF "version" \notin DOMAIN m THEN <<>>
  ELSE LET raw == VersionToRaw(m.version)
       IN  SubSeq(raw, 1, Len(raw) - m.missing)

RawOf(m) ==
  LET message == MessageNew(TRUE, m.command, Payload(m))
  IN  MessageToRaw(IF m.damaged THEN [message EXCEPT !.checksum = Append(@, 0)]
                   ELSE message)

Follower == [command |-> "verack", missing |-> 0, damaged |-> FALSE]

\* A proxy or a password that is wrong answers with a text without an object.
RpcAnswer ==
  { <<"header">> \o body \o trailer :
      body \in {RpcObject(e, r) : e \in {"null", "error", "none"},
                                  r \in {"number", "string", "none"}}
                 \cup { <<"text">>, <<"[">> \o RpcObject("null", "string") \o <<"]">> },
      trailer \in { <<>>, <<"space">>, <<"chunk">> } }

UnitsOf(messages) ==
  IF Len(messages) = 1 THEN RawOf(messages[1])
  ELSE RawOf(messages[1]) \o RawOf(messages[2])

Init ==
  /\ job \in [client : {"node"}, port : {"8333", "18333"}]
            \cup [client : {"rpc"}, method : Methods, host : Lengths, auth : Lengths,
                  data : {2}]
  /\ IF job.client = "node"
       THEN /\ said \in {<<m>> : m \in Message} \cup {<<m, Follower>> : m \in Message}
            /\ answer = UnitsOf(said)
       ELSE /\ said \in RpcAnswer
            /\ answer = said
  /\ request = <<>>
  /\ sent = 0
  /\ peer = "open"
  /\ total = 0
  /\ room = InitRoom
  /\ result = Nothing
  /\ pc = "connect"
  /\ outcome = "running"

Running == outcome = "running"
At(s)   == Running /\ pc = s
Goes(s) == pc' = s /\ UNCHANGED outcome

\* "crashed": an assertion fails, or a pointer nobody has set is used.
Ends(how) == outcome' = how /\ UNCHANGED pc

-----------------------------------------------------------------------------
(* The node.                                                               *)

Answers == request # <<>> /\ (job.client = "rpc" => RequestIsWhole(request, job.data))

Send ==
  /\ Running
  /\ Answers
  /\ peer = "open"
  /\ sent' \in (sent + 1) .. Len(answer)
  /\ UNCHANGED <<job, said, answer, request, peer, total, room, result, pc, outcome>>

Leave ==
  /\ Running
  /\ pc # "connect"
  /\ peer = "open"
  /\ peer' \in {"closed", "broken"}
  /\ UNCHANGED <<job, said, answer, request, sent, total, room, result, pc, outcome>>

-----------------------------------------------------------------------------
(* node_connect and node_write.                                            *)

(***************************************************************************)
(* The errors of getaddrinfo are below zero in some C libraries, and only   *)
(* one above zero is seen: the address of a name nobody knows is then a    *)
(* pointer that was never set.                                             *)
(***************************************************************************)
Connect ==
  /\ At("connect")
  /\ \/ Goes("write")
     \/ Ends("failed")
     \/ Ends("crashed")
  /\ UNCHANGED <<job, said, answer, request, sent, peer, total, room, result>>

\* --testnet chooses the port only: nothing in this command sets the network.
RequestOf(j) ==
  IF j.client = "node"
    THEN MessageToRaw(MessageNew(TRUE, "version", VersionToRaw(VersionNew(TRUE, 1))))
    ELSE BuildRequest(j.host, j.auth, j.data)

Write ==
  /\ At("write")
  /\ \/ /\ request' = RequestOf(job)
        /\ Goes(IF job.client = "node" THEN "header" ELSE "read")
     \/ /\ peer # "open"
        /\ Ends("failed")
        /\ UNCHANGED request
  /\ UNCHANGED <<job, said, answer, sent, peer, total, room, result>>

-----------------------------------------------------------------------------
(* read: some of what has arrived, at most what was asked for; the end of  *)
(* the connection once all has been read; an error when it is broken.      *)

Gets(asked, k) == k \in 1 .. Min({asked, sent - total})
AtEnd == peer = "closed" /\ total = sent
IsBroken == peer = "broken"

\* Mutant of MessageLen: one unit more is waited for.
MessageLenMore(raw) == MinSize + PayloadLen(raw) + 1

\* message_len of node_read_message
MessageLen(raw) == MinSize + PayloadLen(raw)

\* Without a whole header the payload's length is whatever memory holds: the
\* second loop gets nothing any more, and the message is incomplete.
ReadHeader ==
  /\ At("header")
  /\ \/ \E k \in 1 .. MinSize :
          /\ Gets(MinSize - total, k)
          /\ total' = total + k
          /\ Goes(IF total' = MinSize THEN "payload" ELSE "header")
     \/ /\ AtEnd \/ IsBroken
        /\ Ends("failed")
        /\ UNCHANGED total
  /\ UNCHANGED <<job, said, answer, request, sent, peer, room, result>>

\* An error of read is not told from the end.
ReadPayload ==
  /\ At("payload")
  /\ LET len == MessageLen(answer)
     IN  \/ \E k \in 1 .. Len(answer) :
              /\ Gets(len - total, k)
              /\ total' = total + k
              /\ Goes(IF total' = len THEN "respond" ELSE "payload")
         \/ /\ total >= len \/ AtEnd \/ IsBroken
            /\ Goes("respond")
            /\ UNCHANGED total
  /\ UNCHANGED <<job, said, answer, request, sent, peer, room, result>>

\* btk_node_main prints the version that memory holds, to the end of the
\* payload and beyond it: the junk there is the same all over.  The user agent of
\* a version without one is what malloc left: no text, some text or no pointer.
PrintVersion(payload) ==
  \E junk \in {0, 1} :
    LET memory  == payload \o [k \in 1 .. (AgentAt + 3) |-> junk]
        shown   == VersionToJson(VersionFromRaw(memory))
        noAgent == memory[AgentAt] = 0
    IN  \/ /\ ~noAgent
           /\ result' = shown
           /\ Ends("printed")
        \/ /\ noAgent
           /\ \/ /\ result' = [shown EXCEPT !.user_agent = <<junk>>]
                 /\ Ends("printed")
              \/ Ends("failed") /\ UNCHANGED result
        \/ /\ noAgent \/ Len(payload) < AgentAt + memory[AgentAt] + 2
           /\ Ends("crashed")
           /\ UNCHANGED result

\* Mutant of Unset: a message of another kind is not refused.
UnsetOthers(m) == m.command # "version" \/ m.length = 0

\* The json of a verack, and the payload of an empty version, are never set.
Unset(m) == m.command = "verack" \/ (m.command = "version" /\ m.length = 0)

\* btk_node_response and the rest of btk_node_main
Respond ==
  /\ At("respond")
  /\ LET raw == SubSeq(answer, 1, total)
         m   == MessageFromRaw(raw)
     IN  CASE ~IsComplete(raw) -> Ends("failed") /\ UNCHANGED result
           [] IsComplete(raw) /\ ~IsValid(m) -> Ends("failed") /\ UNCHANGED result
           [] OTHER ->
                IF Unset(m) THEN Ends("crashed") /\ UNCHANGED result
                ELSE IF m.command = "version" THEN PrintVersion(m.payload)
                ELSE Ends("failed") /\ UNCHANGED result
  /\ UNCHANGED <<job, said, answer, request, sent, peer, total, room>>

\* Mutant of Grown: a full buffer is seen one unit too late.
GrownLate(read, size) == IF read > size THEN 2 * size ELSE size

\* node_read doubles a buffer that is full.
Grown(read, size) == IF read = size THEN 2 * size ELSE size

\* The buffer is ended by zeros when the connection ends.
ReadAll ==
  /\ At("read")
  /\ \/ \E k \in 1 .. room :
          /\ Gets(room - total, k)
          /\ total' = total + k
          /\ room' = Grown(total', room)
          /\ UNCHANGED <<pc, outcome>>
     \/ /\ AtEnd \/ room = total
        /\ IF total = 0 THEN Ends("failed") ELSE Goes("parse")
        /\ UNCHANGED <<total, room>>
     \/ /\ IsBroken
        /\ Ends("failed")
        /\ UNCHANGED <<total, room>>
  /\ UNCHANGED <<job, said, answer, request, sent, peer, result>>

Parse ==
  /\ At("parse")
  /\ LET object == ParseResponse(SubSeq(answer, 1, total))
     IN  IF Accepts(job.method, object)
           THEN result' = object /\ Ends("result")
           ELSE Ends("failed") /\ UNCHANGED result
  /\ UNCHANGED <<job, said, answer, request, sent, peer, total, room>>

Client == Connect \/ Write \/ ReadHeader \/ ReadPayload \/ Respond \/ ReadAll \/ Parse

Next == Client \/ Send \/ Leave

\* Nothing is assumed of the node; the client goes on while it can.
Spec == Init /\ [][Next]_vars /\ WF_vars(Client)

-----------------------------------------------------------------------------
(* Properties.                                                             *)

\* What json says of a field is what the node said of it, but for the bits a
\* double has no room for.
Agrees(shown, field, value) ==
  CASE field \in {"services", "addr_recv_services", "addr_trans_services"} ->
         \A bit \in ServiceBits :
           (\E name \in {ServiceName(b) : b \in ServiceBits} : <<bit, name>> \in shown)
             <=> (value \div 2^bit) % 2 = 1
    [] field = "relay" -> shown <=> value # 0
    [] field \in {"user_agent", "addr_recv_ip_address", "addr_trans_ip_address"} ->
         shown = value
    [] OTHER -> shown = value \/ (value > Exact /\ shown \in {value - 1, value + 1})

(***************************************************************************)
(* What "btk node" prints is the first message of the node, in pieces      *)
(* though it came and whatever followed it: nothing of the next message    *)
(* was read, the checksum was right, and all fields the node sent are      *)
(* shown as it sent them.  What is shown for a user agent it did not send  *)
(* is not claimed (node.c lines 153-199, btk_node.c lines 81-107).         *)
(***************************************************************************)
PrintedIsFirstMessage ==
  outcome = "printed" =>
    LET m == said[1]
        sentFields == LeadingFields
                        \cup (IF m.version.user_agent # <<>> THEN {"user_agent"} ELSE {})
                        \cup (IF m.missing < 2 THEN {"start_height"} ELSE {})
                        \cup (IF m.missing < 1 THEN {"relay"} ELSE {})
    IN  /\ m.command = "version"
        /\ ~m.damaged
        /\ total = Len(RawOf(m))
        /\ \A field \in sentFields : Agrees(result[field], field, m.version[field])

(***************************************************************************)
(* A JSON-RPC call gives its caller a result only when all of the object   *)
(* the node sent has arrived, with a null error and a result of the type   *)
(* the method has; an answer that was cut off is never one, and there is   *)
(* room for the zeros that end it (jsonrpc.c, lines 302-376, node.c, lines *)
(* 130-148).                                                               *)
(***************************************************************************)
ResultIsWholeAnswer ==
  /\ At("parse") => total < room
  /\ outcome = "result" =>
       /\ RequestIsWhole(request, job.data)
       /\ \E k \in 1 .. (total - 3) :
            /\ SubSeq(said, k, k + 3) = RpcObject("null", ResultType(job.method))
            /\ \A j \in (k + 4) .. total : said[j] = "space"
            /\ result[3] = said[k + 2]

(***************************************************************************)
(* The client crashes only on a host name nobody knows, a verack for an    *)
(* answer, a version without payload, without user agent or cut off before *)
(* its end; never because an answer came in pieces, was damaged or was     *)
(* broken off (node.c line 60, btk_node.c lines 89-107, version.c lines    *)
(* 118-154).                                                               *)
(***************************************************************************)
CrashHasCause ==
  outcome = "crashed" =>
    \/ pc = "connect"
    \/ /\ pc = "respond"
       /\ total = Len(RawOf(said[1]))
       /\ ~said[1].damaged
       /\ \/ said[1].command = "verack"
          \/ said[1].command = "version" /\ Payload(said[1]) = <<>>
          \/ said[1].command = "version" /\ said[1].version.user_agent = <<>>
          \/ said[1].missing > 0

FirstAnswered == job.client = "node" /\ sent >= Len(RawOf(said[1]))

(***************************************************************************)
(* A client whose node has sent its first message, or has closed or broken *)
(* the connection, comes to an end.  A node that stays and says nothing    *)
(* keeps it waiting for ever.                                              *)
(***************************************************************************)
ClientEnds == (peer # "open" \/ FirstAnswered) ~> (outcome # "running")
=============================================================================
