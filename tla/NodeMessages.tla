---------------------------- MODULE NodeMessages ----------------------------
(***************************************************************************)
(* What btk writes to a bitcoin node and how it understands the answer:    *)
(* the messages of the bitcoin protocol (mods/message.c,                   *)
(* mods/commands/version.c) and the requests and answers of JSON-RPC       *)
(* (mods/jsonrpc.c).                                                       *)
(*                                                                         *)
(* A field of a message is one unit of its raw form, each character of the *)
(* user agent is one, and a token of a JSON text is one.  A checksum is    *)
(* the text it is the checksum of.                                         *)
(***************************************************************************)
EXTENDS Integers, SequencesExt, FiniteSetsExt

CONSTANTS
  Exact,     \* 2^53: the integers up to it are exact in a double
  Bufsiz     \* BUFSIZ

-----------------------------------------------------------------------------
(* version.c                                                               *)

\* The fields before the user agent, in the order of their raw form.
Leading == << "version", "services", "timestamp", "addr_recv_services",
              "addr_recv_ip_address", "addr_recv_port", "addr_trans_services",
              "addr_trans_ip_address", "addr_trans_port", "nonce" >>

LeadingFields == {Leading[k] : k \in DOMAIN Leading}

AgentAt == Len(Leading) + 1   \* where the length of the user agent is

Port(main) == IF main THEN 8333 ELSE 18333

VersionNew(main, now) ==
  [version |-> 70015, services |-> 0, timestamp |-> now,
   addr_recv_services |-> 0, addr_recv_ip_address |-> 1, addr_recv_port |-> Port(main),
   addr_trans_services |-> 0, addr_trans_ip_address |-> 1, addr_trans_port |-> Port(main),
   nonce |-> 0, user_agent |-> <<1>>, start_height |-> 0, relay |-> 0]

VersionToRaw(v) ==
  [k \in DOMAIN Leading |-> v[Leading[k]]]
    \o <<Len(v.user_agent)>> \o v.user_agent \o <<v.start_height, v.relay>>

\* The function reads as many units as the fields take, however long its input.
VersionFromRaw(memory) ==
  LET bytes == memory[AgentAt]
  IN  [field \in LeadingFields \cup {"user_agent", "start_height", "relay"} |->
         CASE field = "user_agent"   -> SubSeq(memory, AgentAt + 1, AgentAt + bytes)
           [] field = "start_height" -> memory[AgentAt + bytes + 1]
           [] field = "relay"        -> memory[AgentAt + bytes + 2]
           [] OTHER -> memory[CHOOSE k \in DOMAIN Leading : Leading[k] = field]]

ServiceName(bit) ==
  CASE bit = 0  -> "NODE_NETWORK"
    [] bit = 1  -> "NODE_GETUTXO"
    [] bit = 2  -> "NODE_BLOOM"
    [] bit = 3  -> "NODE_WITNESS"
    [] bit = 4  -> "NODE_XTHIN"
    [] bit = 6  -> "NODE_COMPACT_FILTERS"
    [] bit = 10 -> "NODE_NETWORK_LIMITED"
    [] OTHER    -> "UNKNOWN"

ServiceBits == 0 .. 10   \* bound: of 64

Services(word) ==
  {<<bit, ServiceName(bit)>> : bit \in {b \in ServiceBits : (word \div 2^b) % 2 = 1}}

\* A number of cJSON is a double: above 2^53 the nearest even one is kept.
Double(n) ==
  CASE n <= Exact \/ n % 2 = 0 -> n
    [] n > Exact /\ n % 4 = 1  -> n - 1
    [] n > Exact /\ n % 4 = 3  -> n + 1

Shown(field, value) ==
  CASE field \in {"services", "addr_recv_services", "addr_trans_services"} -> Services(value)
    [] field \in {"addr_recv_ip_address", "addr_trans_ip_address", "user_agent"} -> value
    [] field = "relay" -> value # 0
    [] OTHER -> Double(value)

VersionToJson(v) == [field \in DOMAIN v |-> Shown(field, v[field])]

-----------------------------------------------------------------------------
(* message.c                                                               *)

MinSize == 4   \* MESSAGE_MIN_SIZE: magic, command, length, checksum

Magic(main) == IF main THEN "mainnet" ELSE "testnet"

MessageNew(main, command, payload) ==
  [magic |-> Magic(main), command |-> command, length |-> Len(payload),
   checksum |-> payload, payload |-> payload]

MessageToRaw(m) == << m.magic, m.command, m.length, m.checksum >> \o m.payload

PayloadLen(raw) == raw[3]

MessageFromRaw(raw) ==
  [magic |-> raw[1], command |-> raw[2], length |-> raw[3], checksum |-> raw[4],
   payload |-> SubSeq(raw, MinSize + 1, MinSize + raw[3])]

\* message_is_complete
IsComplete(raw) == Len(raw) >= MinSize /\ Len(raw) >= MinSize + PayloadLen(raw)

\* Mutant of IsValid: the checksum of the peer is not compared.
IsValidAlways(m) == TRUE

\* message_is_valid: the magic number is not looked at.
IsValid(m) == m.length = 0 \/ m.checksum = m.payload

-----------------------------------------------------------------------------
(* jsonrpc.c                                                               *)

Methods == {"getblockcount", "getblockhash", "getblock", "getrawtransaction"}

\* The type jsonrpc_get_... asks of the result.
ResultType(method) == IF method = "getblockcount" THEN "number" ELSE "string"

(***************************************************************************)
(* jsonrpc_build_request: each strncat adds what still fits.  The length   *)
(* of a header line is that of what the user chose; the Content-length is  *)
(* that of the data before anything is cut off.                            *)
(***************************************************************************)
BuildRequest(host, auth, data) ==
  LET Line(name, size) == [k \in 1 .. size |-> name]
      whole == <<"start">> \o Line("host", host) \o Line("auth", auth)
                 \o <<"type", "length", "empty">> \o Line("data", data) \o <<"end">>
  IN  SubSeq(whole, 1, Min({Bufsiz - 1, Len(whole)}))

\* The node answers a request only when all of its data are there.
RequestIsWhole(request, data) ==
  Cardinality({k \in DOMAIN request : request[k] = "data"}) = data

\* An object of an answer: "{", error, result, "}".
RpcObject(error, result) == << "{", error, result, "}" >>

ObjectSize == 4

Brace(text) == {k \in DOMAIN text : text[k] = "{"}

\* Mutant of ParseResponse: an unfinished object is closed by the reader.
ParseUnfinished(text) ==
  IF Brace(text) = {} THEN <<>>
  ELSE LET rest == SubSeq(text, Min(Brace(text)), Len(text))
       IN  IF Len(rest) >= ObjectSize - 1
             THEN SubSeq(rest, 1, 3) ELSE <<>>

(***************************************************************************)
(* jsonrpc_parse_response: from the first brace on, the text must be one   *)
(* JSON object and nothing more but white space.                           *)
(***************************************************************************)
ParseResponse(text) ==
  IF Brace(text) = {} THEN <<>>
  ELSE LET rest == SubSeq(text, Min(Brace(text)), Len(text))
       IN  IF /\ Len(rest) >= ObjectSize
              /\ rest[ObjectSize] = "}"
              /\ \A k \in (ObjectSize + 1) .. Len(rest) : rest[k] = "space"
             THEN SubSeq(rest, 1, ObjectSize) ELSE <<>>

\* jsonrpc_has_error (the key must be there and null), then the type of the
\* result as jsonrpc_get_... tests it.
Accepts(method, object) ==
  /\ object # <<>>
  /\ object[2] = "null"
  /\ object[3] = ResultType(method)
=============================================================================
