-------------------------- MODULE BlockQueue_proofs --------------------------
(***************************************************************************)
(* The safety properties of BlockQueue, proved for every LastBlock,        *)
(* BlockCount and Cap and for every content of fresh memory; two of them   *)
(* need that fresh memory does not look FINAL.                             *)
(***************************************************************************)
EXTENDS BlockQueue, TLAPS

StatusOf(b) == IF b = BlockCount THEN FINAL ELSE READY

\* How far the head of the list is from the first block.
Behind == IF head = NULL THEN 0 ELSE head - First

(***************************************************************************)
(* Every node, whatever the two threads are doing: nodes before i are      *)
(* complete, nodes after i do not exist, each is linked to the next one as *)
(* soon as that exists, and those before the head are the freed ones.      *)
(***************************************************************************)
NodeInv(b) ==
  /\ b > i => node[b] = NoNode
  /\ b < i => /\ node[b].mem \in {"live", "freed"}
              /\ node[b].block = b
              /\ node[b].status = StatusOf(b)
  /\ node[b].mem = "none" => node[b] = NoNode
  /\ node[b].mem = "raw" => /\ node[b].block = NULL
                            /\ FINAL \notin Fresh => node[b].status # FINAL
  /\ node[b].mem \in {"live", "freed"} /\ node[b].status # EMPTY =>
       node[b].block = b /\ node[b].status = StatusOf(b)
  /\ node[b].block \in {NULL, b}
  /\ node[b].block # NULL => tail >= b
  /\ node[b].next = IF b + 1 \in Blocks /\ node[b + 1].mem # "none"
                      THEN b + 1 ELSE NULL
  /\ node[b].mem = "freed" <=> head # NULL /\ b < head
  /\ node[b].mem # "none" => head # NULL

ListInv ==
  /\ i >= First
  /\ i > First => i <= BlockCount + 1
  /\ head # NULL => head <= i /\ node[head].mem \in {"raw", "live"}
  /\ \A b \in Blocks : NodeInv(b)

\* The node and the tail the download thread is working on.
DownloadInv ==
  /\ dpc \in {"unborn", "alloc"} /\ i \in Blocks => node[i] = NoNode
  /\ dpc \in {"unborn", "alloc", "clear"} =>
       tail = IF i = First THEN NULL ELSE i - 1
  /\ dpc = "clear" => i \in Blocks /\ node[i].mem = "raw"
  /\ dpc \in {"fetch", "inc_load", "inc_store", "fill"} =>
       i \in Blocks /\ tail = i /\ node[i] = Cleared
  /\ dpc = "publish" =>
       i \in Blocks /\ tail = i /\ node[i] = [Cleared EXCEPT !.block = i]
  /\ dpc = "throttle" =>
       /\ i \in Blocks
       /\ tail = i
       /\ node[i].mem = "live"
       /\ node[i].block = i
       /\ node[i].status = StatusOf(i)
  /\ dpc \notin {"clear", "cancelled"} /\ tail # NULL =>
       node[tail].mem = "live" /\ node[tail].next = NULL

\* What has been applied, and what the process thread knows of its block.
ProcessInv ==
  /\ stored = LastBlock + applied
  /\ ppc \in {"unborn", "wait", "load_status", "load_block", "apply"} =>
       applied = Behind
  /\ ppc \in {"load_status", "load_block", "apply", "dec_load", "dec_store",
              "wait_next", "returned"} => head # NULL
  /\ ppc \in {"dec_load", "dec_store", "wait_next", "returned"} =>
       applied = Behind + 1
  /\ ppc \in {"load_block", "apply"} /\ pStatus = FINAL /\ FINAL \notin Fresh =>
       head = BlockCount
  /\ ppc = "apply" => pBlock = head /\ node[head].block = head
  /\ ppc = "returned" /\ FINAL \notin Fresh => head = BlockCount

\* bc_len and the two counts that Drift compares it with.
CounterInv ==
  /\ incs \in {i - First, i - First + 1}
  /\ incs = i - First => len <= Cap - 1
  /\ dpc \in {"unborn", "alloc", "clear", "fetch", "inc_load", "inc_store"} =>
       incs = i - First
  /\ dpc \in {"fill", "publish", "throttle"} => incs = i - First + 1
  /\ dpc = "inc_store" => dLen <= Cap - 1
  /\ ppc = "dec_store" => pLen <= Cap
  /\ len <= Cap
  /\ decs \in {Behind, Behind + 1}
  /\ ppc \in {"unborn", "wait", "load_status", "load_block", "apply", "dec_load",
              "dec_store", "returned"} => decs = Behind
  /\ ppc = "wait_next" => decs = Behind + 1

\* Which threads exist, and who has cancelled whom.
ThreadInv ==
  /\ dpc = "unborn" <=> main = "create_download"
  /\ ppc = "unborn" <=> main \in {"create_download", "create_process"}
  /\ main \in {"join_process", "joined"} => dpc \in {"returned", "cancelled"}
  /\ dpc = "cancelled" => cancelD
  /\ ppc = "cancelled" => cancelP
  /\ cancelD => ppc \in {"leave", "failed", "cancelled"}
  /\ cancelP => /\ dpc \in {"leave", "failed", "cancelled"}
                 /\ main \notin {"create_download", "create_process"}
  /\ outcome = "complete" => main = "joined" /\ ppc \in {"returned", "cancelled"}

IInv == /\ TypeOK
        /\ ListInv
        /\ DownloadInv
        /\ ProcessInv
        /\ CounterInv
        /\ ThreadInv

-----------------------------------------------------------------------------
(* The initial state satisfies every part.                                 *)

LEMMA InitIInv == Init => IInv
<1> SUFFICES ASSUME Init PROVE IInv
  OBVIOUS
<1> USE QueueAssumption DEF Init, First, Blocks, NULL, EMPTY
<1>1. TypeOK
  <2>1. NoNode \in Node
    BY DEF Node, NoNode
  <2>2. node \in [Blocks -> Node]
    BY <2>1
  <2>3. dpc \in DownloadPc /\ ppc \in ProcessPc
    BY DEF DownloadPc, ProcessPc
  <2>4. /\ i \in Nat /\ len \in Int
        /\ head \in Blocks \cup {NULL} /\ tail \in Blocks \cup {NULL}
    OBVIOUS
  <2>5. main \in {"create_download", "create_process", "join_download",
                  "join_process", "joined"}
    OBVIOUS
  <2> QED
    BY <2>2, <2>3, <2>4, <2>5 DEF TypeOK
<1>2. ListInv
  BY DEF ListInv, NodeInv, NoNode
<1>3. DownloadInv /\ ProcessInv /\ CounterInv /\ ThreadInv
  BY DEF DownloadInv, ProcessInv, CounterInv, ThreadInv, Behind
<1> QED
  BY <1>1, <1>2, <1>3 DEF IInv

-----------------------------------------------------------------------------
(* Every step preserves every part.                                        *)

\* A node that is changed as the code changes it is a node.
LEMMA NodeTypes ==
  ASSUME NEW e \in Node, NEW c \in Blocks \cup {NULL}, NEW s \in Nat
  PROVE  /\ Raw(s) \in Node
         /\ Cleared \in Node
         /\ [e EXCEPT !.next = c] \in Node
         /\ [e EXCEPT !.block = c] \in Node
         /\ [e EXCEPT !.status = s] \in Node
         /\ [e EXCEPT !.mem = "freed"] \in Node
BY DEF Node, Raw, Cleared, EMPTY

\* The facts about the constants and about where the threads stand that the
\* arithmetic below needs.
LEMMA Numbers ==
  ASSUME TypeOK
  PROVE  /\ NULL = 0 /\ NULL \notin Blocks
         /\ Blocks = First .. BlockCount
         /\ First = LastBlock + 1
         /\ LastBlock \in Nat /\ BlockCount \in Nat
         /\ Cap \in Nat /\ Cap > 1
         /\ i \in Nat /\ stored \in Nat /\ applied \in Nat
         /\ incs \in Nat /\ decs \in Nat
         /\ len \in Int /\ dLen \in Int /\ pLen \in Int
         /\ head \in Blocks \cup {NULL} /\ tail \in Blocks \cup {NULL}
         /\ node \in [Blocks -> Node]
BY QueueAssumption DEF TypeOK, NULL, Blocks, First

\* A new node is the first one, or it goes behind an existing tail.
LEMMA AllocFacts ==
  ASSUME IInv, AllocNode
  PROVE  /\ i \in Blocks /\ node[i] = NoNode /\ head # i
         /\ i = First => head = NULL /\ head' = i
         /\ i # First => /\ tail \in Blocks /\ tail = i - 1
                         /\ head # NULL /\ head' = head
         /\ Behind' = Behind
<1>1. TypeOK /\ ListInv /\ DownloadInv
  BY DEF IInv
<1>2. i \in Blocks /\ node[i] = NoNode
  BY <1>1, Numbers DEF AllocNode, MoreBlocks, DownloadAt, ListInv, DownloadInv
<1>3. head # i
  BY <1>1, <1>2, Numbers DEF ListInv, NoNode
<1>4. i = First => head = NULL /\ head' = i
  BY <1>1, <1>3, Numbers DEF ListInv, AllocNode
<1>5. i # First => tail \in Blocks /\ tail = i - 1 /\ head # NULL /\ head' = head
  <2> SUFFICES ASSUME i # First PROVE tail \in Blocks /\ tail = i - 1 /\ head # NULL
                                      /\ head' = head
    OBVIOUS
  <2>1. tail = i - 1 /\ head' = head
    BY <1>1 DEF AllocNode, DownloadAt, DownloadInv
  <2>2. tail \in Blocks
    BY <2>1, <1>1, <1>2, Numbers DEF ListInv
  <2>3. NodeInv(tail)
    BY <2>2, <1>1 DEF ListInv
  <2> QED
    BY <2>1, <2>2, <2>3, <1>2, Numbers, <1>1 DEF NodeInv
<1> QED
  BY <1>2, <1>3, <1>4, <1>5, Numbers, <1>1 DEF Behind

\* The head moves one node on, and never past the node being appended.
LEMMA AdvanceFacts ==
  ASSUME IInv, Advance
  PROVE  /\ head \in Blocks /\ head < i
         /\ head' = head + 1 /\ head' \in Blocks
         /\ node[head'].mem # "none"
         /\ Behind' = Behind + 1
<1>1. TypeOK /\ ListInv /\ ProcessInv
  BY DEF IInv
<1>2. head \in Blocks
  BY <1>1, Numbers DEF Advance, ProcessAt, ProcessInv
<1>3. NodeInv(head)
  BY <1>1, <1>2 DEF ListInv
<1>4. head' = head + 1 /\ head' \in Blocks /\ node[head'].mem # "none"
  BY <1>1, <1>2, <1>3, Numbers DEF Advance, NextLinked, NodeInv
<1>5. NodeInv(head')
  BY <1>1, <1>4 DEF ListInv
<1>6. head < i
  BY <1>1, <1>2, <1>4, <1>5, Numbers DEF NodeInv, NoNode
<1> QED
  BY <1>1, <1>2, <1>4, <1>6, Numbers DEF Behind

LEMMA TypeStep == IInv /\ [Next]_vars => TypeOK'
<1> SUFFICES ASSUME IInv, [Next]_vars PROVE TypeOK'
  OBVIOUS
<1> USE DEF mainVars, downloadVars, processVars, sharedVars, cancelVars, MainAt,
            DownloadAt, ProcessAt, Running
<1>1. TypeOK /\ ListInv /\ DownloadInv
  BY DEF IInv
<1>2. NULL \in Nat /\ Blocks \subseteq Nat /\ EMPTY \in Nat /\ READY \in Nat
      /\ FINAL \in Nat /\ Fresh \subseteq Nat
  BY QueueAssumption DEF NULL, Blocks, First, EMPTY, READY, FINAL
<1>3. /\ DownloadEnds \subseteq DownloadPc
      /\ {"alloc", "clear", "fetch", "inc_load", "inc_store", "fill", "publish",
          "throttle", "error", "leave", "failed", "returned", "cancelled"}
            \subseteq DownloadPc
      /\ {"wait", "load_status", "load_block", "apply", "dec_load", "dec_store",
          "wait_next", "error", "leave", "failed", "returned", "cancelled"}
            \subseteq ProcessPc
  BY DEF DownloadPc, ProcessPc, DownloadEnds, ProcessEnds
<1>4. node' \in [Blocks -> Node]
  <2>1. CASE UNCHANGED node
    BY <2>1, <1>1 DEF TypeOK
  <2>2. CASE AllocNode
    <3>1. i \in Blocks
      BY <2>2, AllocFacts
    <3>2. PICK s \in Fresh :
            node' = IF i = First THEN [node EXCEPT ![i] = Raw(s)]
                    ELSE [node EXCEPT ![i] = Raw(s), ![tail].next = i]
      BY <2>2 DEF AllocNode
    <3>3. node \in [Blocks -> Node] /\ s \in Nat /\ Node # {}
      BY <1>1, <1>2, <3>1 DEF TypeOK
    <3>4. Raw(s) \in Node /\ \A e \in Node : [e EXCEPT !.next = i] \in Node
      BY <3>1, <3>3, NodeTypes
    <3> QED
      BY <3>1, <3>2, <3>3, <3>4
  <2>3. CASE ClearNode
    BY <2>3, <1>1, <1>2, NodeTypes DEF ClearNode, TypeOK
  <2>4. CASE FillNode
    BY <2>4, <1>1, <1>2, NodeTypes DEF FillNode, TypeOK, DownloadInv
  <2>5. CASE PublishNode
    BY <2>5, <1>1, <1>2, NodeTypes DEF PublishNode, TypeOK
  <2>6. CASE Advance
    BY <2>6, <1>1, <1>2, NodeTypes DEF Advance, TypeOK
  <2>7. UNCHANGED node \/ AllocNode \/ ClearNode \/ FillNode \/ PublishNode
        \/ Advance
    BY DEF vars, Next, Main, CreateDownload, CreateProcess, CreateFails,
       JoinDownload, JoinProcess, Download, DownloadGoes, FetchBlock, IncLoad, IncStore, Throttle,
       DownloadReturns, DownloadFails, CancelProcess, DownloadLeaves, Process,
       ProcessGoes, SeeNode, LoadStatus, LoadBlock, ApplyBlock, DecLoad, DecStore,
       ProcessFails, CancelDownload, ProcessLeaves, Cancellation, DownloadCancelled,
       ProcessCancelled
  <2> QED
    BY <2>1, <2>2, <2>3, <2>4, <2>5, <2>6, <2>7
<1>5. CASE UNCHANGED vars
  BY <1>1, <1>5 DEF TypeOK, vars
<1>6. CASE Main
  BY <1>1, <1>3, <1>4, <1>6 DEF TypeOK, Main, CreateDownload, CreateProcess,
     CreateFails, JoinDownload, JoinProcess
<1>7. CASE AllocNode
  BY <1>1, <1>2, <1>3, <1>4, <1>7, QueueAssumption
     DEF TypeOK, AllocNode, MoreBlocks, Blocks, First
<1>8. CASE ClearNode
  BY <1>1, <1>2, <1>3, <1>4, <1>8 DEF TypeOK, ClearNode, DownloadInv
<1>9. CASE FetchBlock \/ IncLoad \/ IncStore \/ FillNode \/ PublishNode \/ Throttle
  BY <1>1, <1>2, <1>3, <1>4, <1>9 DEF TypeOK, FetchBlock, DownloadGoes, IncLoad,
     IncStore, FillNode, PublishNode, Throttle
<1>10. CASE DownloadReturns \/ DownloadFails \/ CancelProcess \/ DownloadLeaves
  BY <1>1, <1>2, <1>3, <1>4, <1>10 DEF TypeOK, DownloadReturns, DownloadFails,
     DownloadGoes, CancelProcess, DownloadLeaves
<1>11. CASE SeeNode \/ LoadStatus \/ LoadBlock \/ ApplyBlock
  <2>1. ppc \in {"load_status", "load_block"} => head \in Blocks
    BY <1>1 DEF TypeOK, IInv, ProcessInv
  <2>2. head \in Blocks => node[head].status \in Nat
                           /\ node[head].block \in Blocks \cup {NULL}
    BY <1>1 DEF TypeOK, Node
  <2> QED
    BY <1>1, <1>2, <1>3, <1>4, <1>11, <2>1, <2>2 DEF TypeOK, SeeNode, ProcessGoes,
       LoadStatus, LoadBlock, ApplyBlock
<1>12. CASE DecLoad \/ DecStore
  BY <1>1, <1>3, <1>4, <1>12 DEF TypeOK, DecLoad, DecStore
<1>13. CASE Advance
  <2>1. head \in Blocks /\ ppc' = "wait"
    BY <1>1, <1>13 DEF TypeOK, IInv, ProcessInv, Advance
  <2>2. head' \in Blocks \cup {NULL}
    BY <1>1, <1>13, <2>1 DEF TypeOK, Node, Advance
  <2> QED
    BY <1>1, <1>3, <1>4, <1>13, <2>2 DEF TypeOK, Advance
<1>14. CASE ProcessFails \/ CancelDownload \/ ProcessLeaves
  BY <1>1, <1>3, <1>4, <1>14 DEF TypeOK, ProcessFails, ProcessGoes, CancelDownload,
     ProcessLeaves
<1>15. CASE Cancellation
  BY <1>1, <1>3, <1>4, <1>15 DEF TypeOK, Cancellation, DownloadCancelled,
     ProcessCancelled, DownloadGoes, ProcessGoes
<1> QED
  BY <1>5, <1>6, <1>7, <1>8, <1>9, <1>10, <1>11, <1>12, <1>14, <1>15, <1>13
     DEF Next, Download, Process

LEMMA ThreadStep == IInv /\ [Next]_vars => ThreadInv'
<1> SUFFICES ASSUME IInv, [Next]_vars PROVE ThreadInv'
  OBVIOUS
<1> USE DEF ThreadInv, mainVars, downloadVars, processVars, sharedVars, cancelVars,
            MainAt, DownloadAt, ProcessAt, Running, DownloadGoes, ProcessGoes
<1>1. ThreadInv
  BY DEF IInv
<1>2. CASE UNCHANGED vars
  BY <1>1, <1>2 DEF vars
<1>3. CASE Main
  BY <1>1, <1>3 DEF Main, CreateDownload, CreateProcess, CreateFails, JoinDownload,
     JoinProcess, DownloadEnds, ProcessEnds
<1>4. CASE AllocNode \/ ClearNode \/ FetchBlock \/ IncLoad \/ IncStore \/ FillNode
  BY <1>1, <1>4 DEF AllocNode, ClearNode, FetchBlock, IncLoad, IncStore, FillNode
<1>5. CASE PublishNode \/ Throttle \/ DownloadReturns \/ DownloadFails
           \/ CancelProcess \/ DownloadLeaves
  BY <1>1, <1>5 DEF PublishNode, Throttle, DownloadReturns, DownloadFails,
     CancelProcess, DownloadLeaves
<1>6. CASE SeeNode \/ LoadStatus \/ LoadBlock \/ ApplyBlock \/ DecLoad
  BY <1>1, <1>6 DEF SeeNode, LoadStatus, LoadBlock, ApplyBlock, DecLoad
<1>7. CASE DecStore \/ Advance \/ ProcessFails \/ CancelDownload \/ ProcessLeaves
  BY <1>1, <1>7 DEF DecStore, Advance, ProcessFails, CancelDownload, ProcessLeaves
<1>8. CASE Cancellation
  BY <1>1, <1>8 DEF Cancellation, DownloadCancelled, ProcessCancelled, DownloadEnds,
     ProcessEnds
<1> QED
  BY <1>2, <1>3, <1>4, <1>5, <1>6, <1>7, <1>8 DEF Next, Download, Process

LEMMA DownloadStep == IInv /\ [Next]_vars => DownloadInv'
<1> SUFFICES ASSUME IInv, [Next]_vars PROVE DownloadInv'
  OBVIOUS
<1> USE DEF mainVars, downloadVars, processVars, sharedVars, cancelVars,
            MainAt, DownloadAt, ProcessAt, Running, DownloadGoes, ProcessGoes
<1>1. TypeOK /\ ListInv /\ DownloadInv /\ ThreadInv
  BY DEF IInv
<1>2. /\ NULL \notin Blocks
      /\ NULL = 0
      /\ Blocks = First .. BlockCount
      /\ First \in Nat /\ First > 0 /\ BlockCount \in Nat
      /\ i \in Nat
  BY <1>1, QueueAssumption DEF NULL, Blocks, First, TypeOK
<1>3. node \in [Blocks -> Node]
  BY <1>1 DEF TypeOK
<1>4. CASE UNCHANGED <<dpc, i, tail, node>>
  BY <1>1, <1>4 DEF DownloadInv
<1>5. CASE Main \/ SeeNode \/ LoadStatus \/ LoadBlock \/ ApplyBlock \/ DecLoad
           \/ DecStore \/ ProcessFails \/ CancelDownload \/ ProcessLeaves
           \/ ProcessCancelled \/ UNCHANGED vars
  <2>1. CASE CreateDownload
    BY <2>1, <1>1 DEF CreateDownload, DownloadInv, ThreadInv
  <2>2. CASE ~CreateDownload
    BY <2>2, <1>5, <1>4 DEF Main, CreateProcess, CreateFails, JoinDownload,
       JoinProcess, SeeNode, LoadStatus, LoadBlock, ApplyBlock, DecLoad, DecStore, ProcessFails,
       CancelDownload, ProcessLeaves, ProcessCancelled, vars
  <2> QED
    BY <2>1, <2>2
<1>6. CASE AllocNode
  BY <1>6, <1>1, <1>2, <1>3 DEF AllocNode, MoreBlocks, DownloadInv, ListInv, Raw
<1>7. CASE ClearNode
  BY <1>7, <1>1, <1>2, <1>3 DEF ClearNode, DownloadInv, Cleared
<1>8. CASE FetchBlock \/ IncLoad \/ IncStore
  BY <1>8, <1>1 DEF FetchBlock, IncLoad, IncStore, DownloadInv
<1>9. CASE FillNode
  BY <1>9, <1>1, <1>2, <1>3 DEF FillNode, DownloadInv, Cleared
<1>10. CASE PublishNode
  BY <1>10, <1>1, <1>2, <1>3 DEF PublishNode, DownloadInv, StatusOf, Cleared
<1>11. CASE Throttle
  BY <1>11, <1>1, <1>2, <1>3 DEF Throttle, DownloadInv, ListInv, NodeInv
<1>12. CASE DownloadReturns \/ DownloadFails \/ CancelProcess \/ DownloadLeaves
            \/ DownloadCancelled
  BY <1>12, <1>1 DEF DownloadReturns, DownloadFails, CancelProcess, DownloadLeaves,
     DownloadCancelled, DownloadInv
<1>13. CASE Advance
  <2>1. head \in Blocks /\ head # i
    BY <1>13, <1>2, AdvanceFacts
  <2>3. \A b \in Blocks \ {head} : node'[b] = node[b]
    BY <1>13, <1>3, <2>1 DEF Advance
  <2>4. dpc \notin {"clear", "cancelled"} => head # tail
    BY <1>13, <1>1, <1>2, <2>1 DEF Advance, NextLinked, DownloadInv
  <2>5. UNCHANGED <<dpc, i, tail>>
    BY <1>13 DEF Advance
  <2>6. i \in Blocks => node'[i] = node[i]
    BY <2>1, <2>3
  <2>7. dpc \notin {"clear", "cancelled"} /\ tail # NULL => node'[tail] = node[tail]
    BY <2>3, <2>4, <1>1 DEF TypeOK
  <2> QED
    BY <2>5, <2>6, <2>7, <1>1 DEF DownloadInv, StatusOf
<1> QED
  BY <1>5, <1>6, <1>7, <1>8, <1>9, <1>10, <1>11, <1>12, <1>13
     DEF Next, Download, Process, Cancellation

LEMMA ProcessStep == IInv /\ [Next]_vars => ProcessInv'
<1> SUFFICES ASSUME IInv, [Next]_vars PROVE ProcessInv'
  OBVIOUS
<1> USE DEF ProcessInv, Behind, mainVars, downloadVars, processVars, sharedVars,
            cancelVars, MainAt, DownloadAt, ProcessAt, Running, DownloadGoes,
            ProcessGoes
<1>1. TypeOK /\ ListInv /\ DownloadInv /\ ProcessInv
  BY DEF IInv
<1>2. /\ NULL = 0
      /\ First = LastBlock + 1
      /\ LastBlock \in Nat /\ BlockCount \in Nat
      /\ i \in Nat /\ stored \in Nat /\ applied \in Nat
      /\ head \in Blocks \cup {NULL}
      /\ Blocks = First .. BlockCount
      /\ node \in [Blocks -> Node]
  BY <1>1, Numbers
<1>3. CASE UNCHANGED <<processVars, node>>
  BY <1>1, <1>3
<1>4. CASE CreateProcess
  BY <1>4, <1>1 DEF CreateProcess, IInv, ThreadInv
<1>5. CASE AllocNode
  <2>1. head \in Blocks => node'[head].block = node[head].block
    <3> SUFFICES ASSUME head \in Blocks PROVE node'[head].block = node[head].block
      OBVIOUS
    <3>1. i # First /\ head # i /\ tail \in Blocks
      BY <1>5, <1>2, AllocFacts
    <3>2. node[head] \in Node
      BY <1>2
    <3>3. node'[head] = node[head] \/ node'[head] = [node[head] EXCEPT !.next = i]
      BY <3>1, <1>2, <1>5 DEF AllocNode
    <3> QED
      BY <3>2, <3>3 DEF Node
  <2>2. head # NULL => head' = head
    BY <1>5, AllocFacts
  <2>3. Behind' = Behind /\ UNCHANGED <<ppc, stored, applied, pStatus, pBlock>>
    BY <1>5, AllocFacts DEF AllocNode
  <2> QED
    BY <2>1, <2>2, <2>3, <1>1, <1>2
<1>6. CASE ClearNode
  <2>1. ppc = "apply" => head # i
    BY <1>6, <1>1, <1>2 DEF ClearNode, DownloadInv, ListInv, NodeInv
  <2>2. head # NULL /\ head # i => node'[head] = node[head]
    BY <1>6, <1>2 DEF ClearNode
  <2> QED
    BY <2>1, <2>2, <1>6, <1>1, <1>2 DEF ClearNode
<1>7. CASE FillNode \/ PublishNode
  <2>1. tail = i /\ i \in Blocks /\ node[i] \in Node
    BY <1>7, <1>1, <1>2 DEF FillNode, PublishNode, DownloadInv
  <2>2. \A b \in Blocks \ {i} : node'[b] = node[b]
    BY <2>1, <1>7, <1>2 DEF FillNode, PublishNode
  <2>3. node'[i].block \in {node[i].block, i}
    BY <2>1, <1>7, <1>2 DEF FillNode, PublishNode, Node
  <2>4. head # NULL => node'[head].block \in {node[head].block, head}
    BY <2>2, <2>3, <1>2
  <2> QED
    BY <2>4, <1>7, <1>1, <1>2 DEF FillNode, PublishNode
<1>8. CASE Download /\ UNCHANGED node
  <2> QED
    BY <1>8, <1>3, <1>5 DEF Download, ClearNode, FillNode, PublishNode, FetchBlock,
       IncLoad, IncStore, Throttle, DownloadReturns, DownloadFails, CancelProcess,
       DownloadLeaves
<1>9. CASE SeeNode
  BY <1>9, <1>1 DEF SeeNode
<1>10. CASE LoadStatus
  <2>1. head \in Blocks
    BY <1>10, <1>1, <1>2 DEF LoadStatus
  <2>2. NodeInv(head) /\ node[head].mem \in {"raw", "live"}
    BY <2>1, <1>1, <1>2 DEF ListInv
  <2>3. node[head].status = FINAL /\ FINAL \notin Fresh => head = BlockCount
    BY <2>2 DEF NodeInv, StatusOf, FINAL, READY, EMPTY
  <2> QED
    BY <2>1, <2>3, <1>10, <1>1 DEF LoadStatus
<1>11. CASE LoadBlock
  BY <1>11, <1>1, <1>2 DEF LoadBlock, ListInv, NodeInv
<1>12. CASE ApplyBlock
  BY <1>12, <1>1, <1>2 DEF ApplyBlock
<1>13. CASE DecLoad \/ DecStore \/ ProcessFails \/ CancelDownload \/ ProcessLeaves
            \/ ProcessCancelled
  BY <1>13, <1>1 DEF DecLoad, DecStore, ProcessFails, CancelDownload, ProcessLeaves,
     ProcessCancelled
<1>14. CASE Advance
  <2>1. Behind' = Behind + 1
    BY <1>14, AdvanceFacts
  <2>2. ppc = "wait_next" /\ ppc' = "wait" /\ UNCHANGED <<applied, stored>>
    BY <1>14 DEF Advance
  <2> QED
    BY <2>1, <2>2, <1>1
<1> QED
  BY <1>3, <1>4, <1>5, <1>6, <1>7, <1>8, <1>9, <1>10, <1>11, <1>12, <1>13, <1>14
     DEF Download, FetchBlock, IncLoad, IncStore, Throttle, DownloadReturns,
     DownloadFails, CancelProcess, DownloadLeaves, Next, Process, Cancellation,
     Main, CreateDownload, CreateFails, JoinDownload,
     JoinProcess, DownloadCancelled, vars

\* The numbers the counters are compared with.
LEMMA CountersAre ==
  ASSUME TypeOK
  PROVE  /\ First \in Nat /\ Cap \in Nat /\ i \in Nat /\ incs \in Nat /\ decs \in Nat
         /\ len \in Int /\ dLen \in Int /\ pLen \in Int /\ Behind \in Int
<1>1. /\ Cap \in Nat /\ i \in Nat /\ incs \in Nat /\ decs \in Nat
      /\ len \in Int /\ dLen \in Int /\ pLen \in Int
      /\ First = LastBlock + 1 /\ LastBlock \in Nat /\ BlockCount \in Nat
      /\ Blocks = First .. BlockCount /\ NULL = 0
      /\ head \in Blocks \cup {NULL}
  BY Numbers
<1>2. First \in Nat
  BY <1>1
<1>3. head \in Int
  BY <1>1, <1>2
<1>4. Behind \in Int
  BY <1>2, <1>3 DEF Behind
<1> QED
  BY <1>1, <1>2, <1>4

LEMMA CounterStep == IInv /\ [Next]_vars => CounterInv'
<1> SUFFICES ASSUME IInv, [Next]_vars PROVE CounterInv'
  OBVIOUS
<1>2. /\ First \in Nat /\ Cap \in Nat /\ i \in Nat /\ incs \in Nat /\ decs \in Nat
      /\ len \in Int /\ dLen \in Int /\ pLen \in Int /\ Behind \in Int
  BY CountersAre DEF IInv
<1> USE DEF CounterInv, mainVars, downloadVars, processVars, sharedVars, cancelVars,
            MainAt, DownloadAt, ProcessAt, Running, DownloadGoes, ProcessGoes
<1>1. TypeOK /\ CounterInv /\ ThreadInv
  BY DEF IInv
<1>3. UNCHANGED head => Behind' = Behind
  BY DEF Behind
<1>4. CASE UNCHANGED vars
  BY <1>1, <1>3, <1>4 DEF vars
<1>5. CASE Main
  BY <1>1, <1>3, <1>5 DEF Main, CreateDownload, CreateProcess, CreateFails,
     JoinDownload, JoinProcess, ThreadInv
<1>6. CASE AllocNode
  <2>1. Behind' = Behind
    BY <1>6, AllocFacts
  <2> QED
    BY <2>1, <1>1, <1>6 DEF AllocNode
<1>7. CASE ClearNode \/ FetchBlock \/ FillNode \/ PublishNode
  BY <1>1, <1>3, <1>7 DEF ClearNode, FetchBlock, FillNode, PublishNode
<1>8. CASE IncLoad \/ IncStore
  BY <1>1, <1>2, <1>3, <1>8 DEF IncLoad, IncStore
<1>9. CASE Throttle
  BY <1>1, <1>2, <1>3, <1>9 DEF Throttle, QueueFull
<1>10. CASE DownloadReturns \/ DownloadFails \/ CancelProcess \/ DownloadLeaves
            \/ DownloadCancelled
  BY <1>1, <1>3, <1>10 DEF DownloadReturns, DownloadFails, CancelProcess,
     DownloadLeaves, DownloadCancelled
<1>11. CASE SeeNode \/ LoadStatus \/ LoadBlock \/ ApplyBlock
  BY <1>1, <1>3, <1>11 DEF SeeNode, LoadStatus, LoadBlock, ApplyBlock
<1>12. CASE DecLoad \/ DecStore
  BY <1>1, <1>2, <1>3, <1>12 DEF DecLoad, DecStore
<1>13. CASE Advance
  <2>1. Behind' = Behind + 1
    BY <1>13, AdvanceFacts
  <2> QED
    BY <2>1, <1>1, <1>2, <1>13 DEF Advance
<1>14. CASE ProcessFails \/ CancelDownload \/ ProcessLeaves \/ ProcessCancelled
  BY <1>1, <1>3, <1>14 DEF ProcessFails, CancelDownload, ProcessLeaves,
     ProcessCancelled
<1> QED
  BY <1>4, <1>5, <1>6, <1>7, <1>8, <1>9, <1>10, <1>11, <1>12, <1>13, <1>14
     DEF Next, Download, Process, Cancellation

LEMMA ListStep == IInv /\ [Next]_vars => ListInv'
<1> SUFFICES ASSUME IInv, [Next]_vars PROVE ListInv'
  OBVIOUS
<1> USE DEF mainVars, downloadVars, processVars, sharedVars, cancelVars,
            MainAt, DownloadAt, ProcessAt, Running, DownloadGoes, ProcessGoes
<1>1. TypeOK /\ ListInv /\ DownloadInv
  BY DEF IInv
<1>2. /\ NULL = 0 /\ NULL \notin Blocks
      /\ Blocks = First .. BlockCount
      /\ First \in Nat /\ BlockCount \in Nat /\ i \in Nat
      /\ head \in Blocks \cup {NULL} /\ tail \in Blocks \cup {NULL}
      /\ node \in [Blocks -> Node]
  BY <1>1, Numbers
<1>3. \A b \in Blocks : NodeInv(b) /\ node[b] \in Node /\ b \in Nat
  BY <1>1, <1>2 DEF ListInv
<1>4. CASE UNCHANGED <<i, head, tail, node>>
  BY <1>1, <1>4 DEF ListInv, NodeInv
<1>5. CASE AllocNode
  <2>1. PICK s \in Fresh :
          node' = IF i = First THEN [node EXCEPT ![i] = Raw(s)]
                  ELSE [node EXCEPT ![i] = Raw(s), ![tail].next = i]
    BY <1>5 DEF AllocNode
  <2>2. i \in Blocks /\ node[i] = NoNode /\ head # i /\ UNCHANGED <<i, tail>>
        /\ (i # First => tail = i - 1 /\ tail \in Blocks)
    BY <1>5, AllocFacts DEF AllocNode
  <2>3. node'[i] = Raw(s)
    BY <2>1, <2>2, <1>2
  <2>4. \A b \in Blocks \ {i} :
          node'[b] = IF b = i - 1 THEN [node[b] EXCEPT !.next = i] ELSE node[b]
    BY <2>1, <2>2, <1>2
  <2>5. \A b \in Blocks \ {i} : /\ node'[b].mem = node[b].mem
                               /\ node'[b].block = node[b].block
                               /\ node'[b].status = node[b].status
    BY <2>4, <1>3 DEF Node
  <2>6. head' \in Blocks /\ head' <= i
        /\ (head' = head \/ (head = NULL /\ head' = First /\ i = First))
    <3>1. CASE i = First
      BY <3>1, <2>2, <1>5, AllocFacts, <1>2
    <3>2. CASE i # First
      <4>1. head # NULL /\ head' = head
        BY <3>2, <1>5, AllocFacts
      <4>2. head <= i
        BY <4>1, <1>1 DEF ListInv
      <4> QED
        BY <4>1, <4>2, <1>2
    <3> QED
      BY <3>1, <3>2
  <2>7. s \in Nat /\ s \in Fresh
    BY QueueAssumption
  <2>8. ASSUME NEW b \in Blocks PROVE NodeInv(b)'
    <3>1. CASE b = i
      <4>1. b + 1 \in Blocks => node'[b + 1].mem = "none"
        BY <3>1, <2>5, <1>2, <1>3 DEF NodeInv, NoNode
      <4> QED
        BY <3>1, <4>1, <2>2, <2>3, <2>6, <2>7, <1>2 DEF NodeInv, Raw
    <3>2. CASE b # i
      <4>1. node'[b].next = IF b + 1 \in Blocks /\ node'[b + 1].mem # "none"
                              THEN b + 1 ELSE NULL
        <5>1. CASE b = i - 1
          <6>1. node'[b].next = i
            BY <5>1, <3>2, <2>4, <1>3 DEF Node
          <6>2. b + 1 = i /\ node'[i].mem = "raw"
            BY <5>1, <2>3, <1>2 DEF Raw
          <6> QED
            BY <6>1, <6>2, <2>2
        <5>2. CASE b # i - 1
          <6>1. node'[b] = node[b]
            BY <5>2, <3>2, <2>4
          <6>2. b + 1 \in Blocks => node'[b + 1].mem = node[b + 1].mem
            BY <5>2, <2>5, <1>2
          <6> QED
            BY <6>1, <6>2, <1>3 DEF NodeInv
        <5> QED
          BY <5>1, <5>2
      <4>2. b > i => node'[b] = node[b]
        <5> SUFFICES ASSUME b > i PROVE node'[b] = node[b]
          OBVIOUS
        <5>1. b # i /\ b # i - 1
          BY <1>2, <1>3
        <5> QED
          BY <5>1, <2>4
      <4>3. node'[b].mem = "none" => node'[b] = NoNode
        <5>1. b < i => node'[b].mem # "none"
          BY <2>5, <1>3, <3>2 DEF NodeInv
        <5> QED
          BY <5>1, <4>2, <3>2, <1>2, <1>3 DEF NodeInv
      <4>4. node'[b].mem = "freed" <=> head' # NULL /\ b < head'
        BY <2>5, <2>6, <3>2, <1>2, <1>3 DEF NodeInv
      <4> QED
        BY <4>1, <4>2, <4>3, <4>4, <3>2, <2>2, <2>5, <2>6, <1>2, <1>3 DEF NodeInv
    <3> QED
      BY <3>1, <3>2
  <2>9. node'[head'].mem \in {"raw", "live"}
    BY <2>2, <2>3, <2>5, <2>6, <1>1, <1>2 DEF ListInv, Raw
  <2> QED
    BY <2>2, <2>6, <2>8, <2>9, <1>1, <1>2 DEF ListInv
\* The last three changes of the node being appended leave its links alone.
<1>6. CASE (ClearNode /\ outcome' = "running") \/ FillNode \/ PublishNode
  <2>1. i \in Blocks /\ UNCHANGED <<i, head>>
    BY <1>6, <1>1 DEF ClearNode, FillNode, PublishNode, DownloadInv
  <2>2. \A b \in Blocks \ {i} : node'[b] = node[b]
    BY <2>1, <1>6, <1>1, <1>2 DEF ClearNode, FillNode, PublishNode, DownloadInv
  <2>3. tail' = i /\ (tail = i \/ tail = NULL \/ tail = i - 1)
    <3>1. CASE ClearNode /\ outcome' = "running"
      BY <3>1, <1>1 DEF ClearNode, DownloadInv
    <3>2. CASE FillNode \/ PublishNode
      BY <3>2, <1>1 DEF FillNode, PublishNode, DownloadInv
    <3> QED
      BY <3>1, <3>2, <1>6
  <2>4. /\ node[i].mem \in {"raw", "live"}
        /\ node'[i].mem = "live"
        /\ node'[i].next = NULL
        /\ \/ node'[i].status = EMPTY
           \/ node'[i].status = StatusOf(i) /\ node'[i].block = i
        /\ node'[i].block \in {NULL, i}
    <3>1. CASE ClearNode /\ outcome' = "running"
      <4>1. node[i].mem = "raw" /\ node'[i] = Cleared
        BY <3>1, <2>1, <1>1, <1>2 DEF ClearNode, DownloadInv
      <4> QED
        BY <4>1 DEF Cleared
    <3>2. CASE FillNode
      <4>1. node[i] = Cleared /\ node'[i] = [Cleared EXCEPT !.block = i]
        BY <3>2, <2>1, <1>1, <1>2 DEF FillNode, DownloadInv
      <4> QED
        BY <4>1 DEF Cleared
    <3>3. CASE PublishNode
      <4>1. node[i] = [Cleared EXCEPT !.block = i]
            /\ node'[i] = [node[i] EXCEPT !.status = StatusOf(i)]
        BY <3>3, <2>1, <1>1, <1>2 DEF PublishNode, DownloadInv, StatusOf
      <4> QED
        BY <4>1 DEF Cleared
    <3> QED
      BY <3>1, <3>2, <3>3, <1>6
  <2>5. ASSUME NEW b \in Blocks PROVE NodeInv(b)'
    <3>1. b + 1 \in Blocks =>
            (node'[b + 1].mem # "none" <=> node[b + 1].mem # "none")
      BY <2>1, <2>2, <2>4
    <3>2. CASE b = i
      BY <3>1, <3>2, <2>1, <2>3, <2>4, <1>2, <1>3 DEF NodeInv, NoNode
    <3>3. CASE b # i
      <4>1. node'[b] = node[b]
        BY <3>3, <2>2
      <4>2. tail >= b => tail' >= b
        BY <2>3, <1>2, <1>3, <2>1
      <4> QED
        BY <4>1, <4>2, <3>1, <3>3, <2>1, <1>3 DEF NodeInv
    <3> QED
      BY <3>2, <3>3
  <2>6. head # NULL => node'[head].mem \in {"raw", "live"}
    BY <2>1, <2>2, <2>4, <1>1, <1>2 DEF ListInv
  <2> QED
    BY <2>1, <2>5, <2>6, <1>1 DEF ListInv
<1>7. CASE Throttle
  <2>1. i \in Blocks /\ i' = i + 1 /\ UNCHANGED <<head, tail, node>>
    BY <1>7, <1>1 DEF Throttle, DownloadInv
  <2>2. node[i].mem = "live" /\ node[i].block = i /\ node[i].status = StatusOf(i)
    BY <1>7, <1>1 DEF Throttle, DownloadInv
  <2>3. ASSUME NEW b \in Blocks PROVE NodeInv(b)'
    <3>1. CASE b = i
      BY <3>1, <2>1, <2>2, <1>2, <1>3 DEF NodeInv
    <3>2. CASE b # i
      <4>1. (b > i' => b > i) /\ (b < i' => b < i)
        BY <3>2, <2>1, <1>2, <1>3
      <4> QED
        BY <4>1, <2>1, <1>3 DEF NodeInv
    <3> QED
      BY <3>1, <3>2
  <2> QED
    BY <2>1, <2>3, <1>1, <1>2 DEF ListInv
<1>8. CASE Advance
  <2>1. /\ head \in Blocks /\ head < i /\ head' = head + 1 /\ head' \in Blocks
        /\ node[head'].mem # "none"
    BY <1>8, AdvanceFacts
  <2>2. UNCHANGED <<i, tail>> /\ node' = [node EXCEPT ![head].mem = "freed"]
    BY <1>8 DEF Advance
  <2>3. \A b \in Blocks \ {head} : node'[b] = node[b]
    BY <2>1, <2>2, <1>2
  <2>4. /\ node'[head].mem = "freed"
        /\ node'[head].status = node[head].status
        /\ node'[head].block = node[head].block
        /\ node'[head].next = node[head].next
    BY <2>1, <2>2, <1>2, <1>3 DEF Node
  <2>5. node[head].mem # "none"
    BY <2>1, <1>1, <1>2 DEF ListInv
  <2>6. ASSUME NEW b \in Blocks PROVE NodeInv(b)'
    <3>1. b + 1 \in Blocks =>
            (node'[b + 1].mem # "none" <=> node[b + 1].mem # "none")
      BY <2>3, <2>4, <2>5
    <3>2. CASE b = head
      BY <3>1, <3>2, <2>1, <2>2, <2>4, <2>5, <1>2, <1>3 DEF NodeInv
    <3>3. CASE b # head
      <4>1. node'[b] = node[b]
        BY <3>3, <2>3
      <4>2. b < head' <=> b < head
        BY <3>3, <2>1, <1>2, <1>3
      <4> QED
        BY <4>1, <4>2, <3>1, <2>1, <2>2, <1>2, <1>3 DEF NodeInv
    <3> QED
      BY <3>2, <3>3
  <2>7. node'[head'].mem \in {"raw", "live"}
    <3>1. node'[head'] = node[head'] /\ ~(head' < head)
      BY <2>1, <2>3, <1>2
    <3>2. node[head'].mem # "freed"
      BY <3>1, <2>1, <1>3 DEF NodeInv
    <3> QED
      BY <3>1, <3>2, <2>1, <1>3 DEF Node
  <2> QED
    BY <2>1, <2>2, <2>6, <2>7, <1>1, <1>2 DEF ListInv
<1> QED
  BY <1>4, <1>5, <1>6, <1>7, <1>8
     DEF Next, Main, CreateDownload, CreateProcess, CreateFails, JoinDownload,
     JoinProcess, Download, ClearNode, FetchBlock, IncLoad, IncStore, DownloadReturns,
     DownloadFails, CancelProcess, DownloadLeaves, Process, SeeNode, LoadStatus,
     LoadBlock, ApplyBlock, DecLoad, DecStore, ProcessFails, CancelDownload,
     ProcessLeaves, Cancellation, DownloadCancelled, ProcessCancelled, vars

-----------------------------------------------------------------------------
(* Theorems.                                                               *)

(***************************************************************************)
(* The inductive invariant holds in every state of the two threads of      *)
(* btk_balance.c:197-251.                                                  *)
(***************************************************************************)
THEOREM Invariant == Spec => []IInv
<1>1. IInv /\ [Next]_vars => IInv'
  BY TypeStep, ListStep, DownloadStep, ProcessStep, CounterStep, ThreadStep DEF IInv
<1> QED
  BY InitIInv, <1>1, PTL DEF Spec

(***************************************************************************)
(* Every variable has its type: in particular bc_head and bc_tail only     *)
(* ever hold NULL or a node of this run.                                   *)
(***************************************************************************)
THEOREM TypeCorrect == Spec => []TypeOK
<1>1. IInv => TypeOK
  BY DEF IInv
<1> QED
  BY Invariant, <1>1, PTL

(***************************************************************************)
(* The process thread never frees the node the download thread appends to, *)
(* outside of the window between btk_balance.c:358 and 364.                *)
(***************************************************************************)
THEOREM TailSafe == Spec => []TailFreedOnlyInWindow
<1>1. IInv => TailFreedOnlyInWindow
  BY DEF IInv, DownloadInv, TailFreedOnlyInWindow
<1> QED
  BY Invariant, <1>1, PTL

(***************************************************************************)
(* The list is bounded by the cap and by the increments of bc_len that     *)
(* were lost, however many blocks there are.                               *)
(***************************************************************************)
THEOREM Bounded == Spec => []QueueBounded
<1>1. IInv => QueueBounded
  <2> SUFFICES ASSUME IInv PROVE QueueBounded
    OBVIOUS
  <2>1. TypeOK /\ ListInv /\ CounterInv
    BY DEF IInv
  <2>2. /\ First \in Nat /\ Cap \in Nat /\ i \in Nat /\ incs \in Nat /\ decs \in Nat
        /\ len \in Int /\ head \in Blocks \cup {NULL} /\ Blocks = First .. BlockCount
        /\ BlockCount \in Nat
    BY <2>1, Numbers
  <2>3. ASSUME NEW b \in Held, NEW c \in Held PROVE c - b <= Cap - Drift
    <3>1. /\ b \in Blocks /\ NodeInv(b) /\ node[b].mem \in {"raw", "live"}
          /\ c \in Blocks /\ NodeInv(c) /\ node[c].mem \in {"raw", "live"}
      BY <2>1 DEF Held, ListInv
    <3>2. head # NULL /\ b >= head /\ c <= i
      BY <3>1, <2>2 DEF NodeInv, NoNode, NULL
    <3>3. decs <= head - First + 1
      BY <3>2, <2>1, <2>2 DEF CounterInv, Behind
    <3>4. c - First + len - incs + 1 <= Cap
      BY <3>1, <3>2, <2>1, <2>2 DEF CounterInv
    <3> QED
      BY <3>1, <3>2, <3>3, <3>4, <2>2 DEF Drift
  <2> QED
    BY <2>1, <2>3 DEF QueueBounded, CounterInv
<1> QED
  BY Invariant, <1>1, PTL

(***************************************************************************)
(* With the code's cap of 100, the threads cannot stall before ninety-nine *)
(* decrements of bc_len have been overwritten.                             *)
(***************************************************************************)
THEOREM StallFree ==
  ASSUME FINAL \notin Fresh PROVE Spec => []StallNeedsDrift
<1>1. IInv => StallNeedsDrift
  <2> SUFFICES ASSUME IInv, Stalled PROVE Drift >= Cap - 1
    BY DEF StallNeedsDrift
  <2>1. TypeOK /\ ListInv /\ DownloadInv /\ ProcessInv /\ CounterInv
    BY DEF IInv
  <2>2. /\ First \in Nat /\ Cap \in Nat /\ i \in Nat /\ incs \in Nat /\ decs \in Nat
        /\ len \in Int /\ Blocks = First .. BlockCount /\ BlockCount \in Nat
        /\ head \in Blocks \cup {NULL}
    BY <2>1, Numbers
  <2>3. /\ i \in Blocks /\ node[i].mem = "live"
        /\ incs = i - First + 1 /\ len >= Cap
    BY <2>1 DEF Stalled, QueueFull, DownloadInv, CounterInv
  <2>4. CASE ppc = "wait_next" /\ node[head].next = NULL
    <3>1. head \in Blocks /\ NodeInv(head) /\ head <= i
      BY <2>4, <2>1, <2>2 DEF ProcessInv, ListInv
    <3>2. ~(head < i)
      <4> SUFFICES ASSUME head < i PROVE FALSE
        OBVIOUS
      <4>1. head + 1 \in Blocks /\ head + 1 <= i
        BY <3>1, <2>2, <2>3
      <4>2. node[head + 1].mem # "none"
        BY <4>1, <2>1, <2>3, <2>2 DEF ListInv, NodeInv
      <4> QED
        BY <4>1, <4>2, <3>1, <2>4, <2>2 DEF NodeInv, NULL
    <3>3. decs = head - First + 1
      BY <2>4, <3>1, <2>1, <2>2 DEF CounterInv, Behind, NULL
    <3> QED
      BY <3>1, <3>2, <3>3, <2>2, <2>3 DEF Drift
  <2>5. CASE ppc = "returned"
    <3>1. head = BlockCount /\ head \in Blocks /\ head <= i
      BY <2>5, <2>1, <2>2 DEF ProcessInv, ListInv
    <3>2. decs = head - First
      BY <2>5, <3>1, <2>1, <2>2 DEF CounterInv, Behind, NULL
    <3> QED
      BY <3>1, <3>2, <2>2, <2>3 DEF Drift
  <2> QED
    BY <2>4, <2>5 DEF Stalled, NextLinked
<1> QED
  BY Invariant, <1>1, PTL

(***************************************************************************)
(* "Complete" is printed (btk_balance.c:250) only after every block of the *)
(* run was applied, or after each thread cancelled the other.              *)
(***************************************************************************)
THEOREM CompleteSafe ==
  ASSUME FINAL \notin Fresh PROVE Spec => []CompleteMeansApplied
<1>1. IInv => CompleteMeansApplied
  <2> SUFFICES ASSUME IInv, outcome = "complete"
               PROVE stored = BlockCount \/ (dpc = "cancelled" /\ ppc = "cancelled")
    BY DEF CompleteMeansApplied
  <2>1. TypeOK /\ ProcessInv /\ ThreadInv
    BY DEF IInv
  <2>2. dpc \in {"returned", "cancelled"} /\ ppc \in {"returned", "cancelled"}
    BY <2>1 DEF ThreadInv
  <2>3. CASE ppc = "returned"
    <3>1. head = BlockCount /\ head # NULL /\ applied = Behind + 1
          /\ stored = LastBlock + applied
      BY <2>3, <2>1 DEF ProcessInv
    <3>2. stored = LastBlock + (head - First + 1)
      BY <3>1 DEF Behind
    <3> QED
      BY <3>1, <3>2, <2>1, Numbers
  <2>4. CASE ppc = "cancelled"
    BY <2>4, <2>2, <2>1 DEF ThreadInv
  <2> QED
    BY <2>2, <2>3, <2>4
<1> QED
  BY Invariant, <1>1, PTL

-----------------------------------------------------------------------------
(* BlockQueue implements BlockFeed: FillNode is Fetch, ApplyBlock is Apply,*)
(* the end of the program is Stop, and every other step is a stutter.      *)

\* The block of the tail changes only when the download thread fills it in.
LEMMA TailBlock ==
  ASSUME IInv, [Next]_vars, ~FillNode, ~ClearNode
  PROVE  tail' = tail /\ (tail # NULL => node'[tail].block = node[tail].block)
<1> USE DEF mainVars, downloadVars, processVars, sharedVars, cancelVars,
            DownloadGoes, ProcessGoes
<1>1. TypeOK /\ DownloadInv
  BY DEF IInv
<1>2. /\ node \in [Blocks -> Node]
      /\ tail # NULL => tail \in Blocks /\ node[tail] \in Node
  BY <1>1, Numbers
<1>3. CASE UNCHANGED <<tail, node>>
  BY <1>3
<1>4. CASE AllocNode
  <2>1. tail' = tail /\ i \in Blocks
    BY <1>4, AllocFacts DEF AllocNode
  <2>2. i # tail
    BY <1>4, <2>1, <1>1, Numbers DEF AllocNode, DownloadAt, DownloadInv
  <2>3. tail # NULL => \/ node'[tail] = node[tail]
                       \/ node'[tail] = [node[tail] EXCEPT !.next = i]
    BY <1>4, <1>2, <2>2 DEF AllocNode
  <2> QED
    BY <2>1, <2>3, <1>2 DEF Node
<1>5. CASE PublishNode
  <2>1. tail' = tail /\ (tail # NULL =>
          \E s : node'[tail] = [node[tail] EXCEPT !.status = s])
    BY <1>5, <1>2 DEF PublishNode
  <2> QED
    BY <2>1, <1>2 DEF Node
<1>6. CASE Advance
  <2>1. tail' = tail
    BY <1>6 DEF Advance
  <2>2. tail # NULL => \/ node'[tail] = node[tail]
                       \/ node'[tail] = [node[tail] EXCEPT !.mem = "freed"]
    BY <1>6, <1>2 DEF Advance
  <2> QED
    BY <2>1, <2>2, <1>2 DEF Node
<1> QED
  BY <1>3, <1>4, <1>5, <1>6
     DEF Next, Main, CreateDownload, CreateProcess, CreateFails, JoinDownload,
     JoinProcess, Download, FetchBlock, IncLoad, IncStore, Throttle, DownloadReturns,
     DownloadFails, CancelProcess, DownloadLeaves, Process, SeeNode, LoadStatus,
     LoadBlock, ApplyBlock, DecLoad, DecStore, ProcessFails, CancelDownload,
     ProcessLeaves, Cancellation, DownloadCancelled, ProcessCancelled, vars

\* The first tail: nothing was downloaded as long as there is none.
LEMMA ClearFetched ==
  ASSUME IInv, ClearNode PROVE Fetched' = Fetched
<1>1. TypeOK /\ ListInv /\ DownloadInv
  BY DEF IInv
<1>2. /\ i \in Blocks /\ tail = (IF i = First THEN NULL ELSE i - 1)
      /\ NULL \notin Blocks /\ Blocks = First .. BlockCount /\ First = LastBlock + 1
      /\ LastBlock \in Nat /\ BlockCount \in Nat /\ node \in [Blocks -> Node]
      /\ NULL = 0
  BY <1>1, Numbers DEF ClearNode, DownloadAt, DownloadInv
<1>3. CASE UNCHANGED <<tail, node>>
  BY <1>3 DEF Fetched
<1>4. CASE tail' = i /\ node' = [node EXCEPT ![i] = Cleared]
  <2>1. Fetched' = i - LastBlock - 1
    BY <1>2, <1>4 DEF Fetched, Cleared
  <2>2. CASE i = First
    BY <2>1, <2>2, <1>2 DEF Fetched
  <2>3. CASE i # First
    <3>1. tail \in Blocks /\ tail = i - 1 /\ tail < i
      BY <2>3, <1>2
    <3>2. node[tail].block = tail
      BY <3>1, <1>1 DEF ListInv, NodeInv
    <3> QED
      BY <2>1, <3>1, <3>2, <1>2 DEF Fetched
  <2> QED
    BY <2>2, <2>3
<1> QED
  BY <1>3, <1>4 DEF ClearNode

LEMMA FillFetches == ASSUME IInv, FillNode PROVE Feed!Fetch
<1>1. TypeOK /\ DownloadInv
  BY DEF IInv
<1>2. /\ i \in Blocks /\ tail = i /\ node[i] = Cleared
      /\ NULL \notin Blocks /\ Blocks = First .. BlockCount /\ First = LastBlock + 1
      /\ LastBlock \in Nat /\ BlockCount \in Nat /\ node \in [Blocks -> Node]
  BY <1>1, Numbers DEF FillNode, DownloadAt, DownloadInv
<1>3. Fetched = i - LastBlock - 1
  BY <1>2 DEF Fetched, Cleared
<1>4. tail' = i /\ node'[i].block = i
  BY <1>2 DEF FillNode, Node
<1>5. Fetched' = i - LastBlock
  BY <1>2, <1>4 DEF Fetched
<1>6. outcome = "running" /\ UNCHANGED <<applied, stored, outcome>>
  BY DEF FillNode, DownloadAt, Running, processVars, mainVars
<1> QED
  BY <1>2, <1>3, <1>5, <1>6 DEF Feed!Fetch

LEMMA ApplyApplies == ASSUME IInv, ApplyBlock PROVE Feed!Apply
<1>1. TypeOK /\ ListInv /\ ProcessInv
  BY DEF IInv
<1>2. /\ head \in Blocks /\ pBlock = head /\ node[head].block = head
      /\ applied = head - First
  BY <1>1, Numbers DEF ApplyBlock, ProcessAt, ProcessInv, Behind
<1>3. /\ NULL = 0 /\ Blocks = First .. BlockCount /\ First = LastBlock + 1
      /\ LastBlock \in Nat /\ BlockCount \in Nat /\ tail \in Blocks \cup {NULL}
  BY <1>1, Numbers
<1>4. tail >= head
  BY <1>1, <1>2, <1>3 DEF ListInv, NodeInv
<1>5. Fetched \in Int /\ Fetched >= head - LastBlock
  BY <1>2, <1>3, <1>4 DEF Fetched
<1>6. /\ applied' = applied + 1 /\ stored' = pBlock
      /\ outcome = "running" /\ UNCHANGED <<tail, node, outcome>>
  BY DEF ApplyBlock, ProcessAt, Running, downloadVars, sharedVars, mainVars
<1>7. Fetched' = Fetched
  BY <1>6 DEF Fetched
<1>8. applied \in Int /\ applied + 1 = head - LastBlock
  BY <1>2, <1>3
<1>9. applied < Fetched /\ stored' = LastBlock + applied + 1
  BY <1>2, <1>3, <1>5, <1>6, <1>8
<1> QED
  BY <1>6, <1>7, <1>9 DEF Feed!Apply

(***************************************************************************)
(* However the threads of btk_balance.c:293-548 interleave, the blocks are *)
(* applied in order, each once, after their download, and none after the   *)
(* program has ended.                                                      *)
(***************************************************************************)
THEOREM Refinement == Spec => ImplementsFeed
<1>1. Init => Feed!FeedInit
  BY DEF Init, Feed!FeedInit, Fetched
<1>2. IInv /\ [Next]_vars => [Feed!FeedNext]_(Feed!feedVars)
  <2> SUFFICES ASSUME IInv, [Next]_vars PROVE [Feed!FeedNext]_(Feed!feedVars)
    OBVIOUS
  <2> USE DEF mainVars, downloadVars, processVars, sharedVars, cancelVars,
              DownloadGoes, ProcessGoes
  <2>1. CASE FillNode
    BY <2>1, FillFetches DEF Feed!FeedNext
  <2>2. CASE ApplyBlock
    BY <2>2, ApplyApplies DEF Feed!FeedNext
  <2>3. CASE ~FillNode /\ ~ApplyBlock
    <3>1. Fetched' = Fetched
      BY <2>3, TailBlock, ClearFetched DEF Fetched
    <3>2. UNCHANGED <<applied, stored>>
      BY <2>3 DEF Next, Main, CreateDownload, CreateProcess, CreateFails, JoinDownload,
         JoinProcess, Download, AllocNode, ClearNode, FetchBlock, IncLoad, IncStore,
         PublishNode, Throttle, DownloadReturns, DownloadFails, CancelProcess,
         DownloadLeaves, Process, SeeNode, LoadStatus, LoadBlock, DecLoad, DecStore,
         Advance, ProcessFails, CancelDownload, ProcessLeaves, Cancellation,
         DownloadCancelled, ProcessCancelled, vars
    <3>3. UNCHANGED outcome \/ (outcome = "running" /\ outcome' # "running")
      BY <2>3 DEF Running, MainAt, DownloadAt, ProcessAt,
         Next, Main, CreateDownload, CreateProcess, CreateFails, JoinDownload,
         JoinProcess, Download, AllocNode, ClearNode, FetchBlock, IncLoad, IncStore,
         PublishNode, Throttle, DownloadReturns, DownloadFails, CancelProcess,
         DownloadLeaves, Process, SeeNode, LoadStatus, LoadBlock, DecLoad, DecStore,
         Advance, ProcessFails, CancelDownload, ProcessLeaves, Cancellation,
         DownloadCancelled, ProcessCancelled, vars
    <3> QED
      BY <3>1, <3>2, <3>3 DEF Feed!FeedNext, Feed!Stop, Feed!feedVars
  <2> QED
    BY <2>1, <2>2, <2>3
<1> QED
  BY <1>1, <1>2, Invariant, PTL DEF Spec, ImplementsFeed, Feed!FeedSpec
=============================================================================
