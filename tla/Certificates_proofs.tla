----------------------- MODULE Certificates_proofs -----------------------
(***************************************************************************)
(* Proofs about Certificates, for any nodes, directories and bounds.       *)
(***************************************************************************)
EXTENDS Certificates, TLAPS

\* A CA held open: what LoadCA found in two files.
CA == [is : {"ca"}, cert : Content, key : {Key(i) : i \in 1..MaxPairs}]

\* A file to be written: its data, or the file it is copied from.
Write == [to : Path, from : {<<>>} \cup Path, data : Content]

Operation == [writes : Seq(Write), load : Kind \cup {"none"}]

\* Types, of the parts of the state TypeOK leaves open too.
Types == /\ TypeOK
         /\ file \in [Path -> Content]
         /\ ws \in [Kind -> {Nothing} \cup CA]
         /\ op \in Operation

USE CertificateBounds

-----------------------------------------------------------------------------
\* What the manager generates is a content.
LEMMA Generated ==
    /\ Nothing \in Content /\ Torn \in Content
    /\ \A i \in 1..MaxPairs : Key(i) \in Content /\ Cert(i, i, "ca", "ca", {}) \in Content
    /\ \A i, j \in 1..MaxPairs : Cert(i, j, "server", "relay", {}) \in Content
    /\ \A i \in 1..MaxPairs, n \in Node : Cert(i, 0, "client", n, {n}) \in Content
  <1>1. Nothing \in Content /\ Torn \in Content
    BY DEF Content
  <1>2. ASSUME NEW i \in 1..MaxPairs
        PROVE  Key(i) \in Content /\ Cert(i, i, "ca", "ca", {}) \in Content
    <2>1. Key(i) \in {Key(x) : x \in 1..MaxPairs} /\ Cert(i, i, "ca", "ca", {}) \in CACerts
      BY DEF CACerts
    <2> QED  BY <2>1 DEF Content
  <1>3. ASSUME NEW i \in 1..MaxPairs, NEW j \in 1..MaxPairs
        PROVE  Cert(i, j, "server", "relay", {}) \in Content
    <2>1. Cert(i, j, "server", "relay", {}) \in RelayCerts
      BY DEF RelayCerts
    <2> QED  BY <2>1 DEF Content
  <1>4. ASSUME NEW i \in 1..MaxPairs, NEW n \in Node
        PROVE  Cert(i, 0, "client", n, {n}) \in Content
    <2>1. Cert(i, 0, "client", n, {n}) \in AgentCerts
      BY DEF AgentCerts
    <2> QED  BY <2>1 DEF Content
  <1> QED  BY <1>1, <1>2, <1>3, <1>4

\* The kinds of content do not overlap.
LEMMA KeyIsKey ==
    ASSUME NEW c \in Content, c.is = "key"
    PROVE  \E i \in 1..MaxPairs : c = Key(i)
  BY DEF Content, CACerts, RelayCerts, AgentCerts, Nothing, Torn, Key, Cert

\* The places the manager writes to.
LEMMA Paths ==
    /\ \A k \in Kind : CACert[k] \in Path /\ CAKey[k] \in Path
    /\ ServerCert \in Path /\ ServerKey \in Path
    /\ \A n \in Node : ClientCert(n) \in Path
    /\ \A f \in {"relay.crt", "relay.key", "agent-ca.crt"} : RelayDir(f) \in Path
    /\ \A d \in Dest : AgentDirCert(d) \in Path /\ AgentDirCA(d) \in Path
  BY DEF Path, OnManager, Deployed

\* No other place is one of a CA's.
LEMMA CAPaths ==
    /\ \A k \in Kind : CACert[k] # CAKey[k]
    /\ \A j, k \in Kind : j # k => CACert[k] # CACert[j] /\ CAKey[k] # CAKey[j] /\ CACert[k] # CAKey[j]
    /\ \A k \in Kind : /\ ServerCert \notin {CACert[k], CAKey[k]} /\ ServerKey \notin {CACert[k], CAKey[k]}
                       /\ \A n \in Node : ClientCert(n) \notin {CACert[k], CAKey[k]}
                       /\ \A p \in Deployed : p \notin {CACert[k], CAKey[k]}
  <1>1. \A k \in Kind : /\ CACert[k] = <<"ca", IF k = "agent" THEN "agent-ca.crt" ELSE "relay-ca.crt">>
                       /\ CAKey[k] = <<"ca", IF k = "agent" THEN "agent-ca.key" ELSE "relay-ca.key">>
    BY DEF CACert, CAKey
  <1>2. \A j, k \in Kind : j # k => CACert[k] # CACert[j] /\ CAKey[k] # CAKey[j] /\ CACert[k] # CAKey[j]
    BY <1>1 DEF Kind
  <1>3. \A k \in Kind : CACert[k] # CAKey[k]
    BY <1>1 DEF Kind
  <1>4. ASSUME NEW k \in Kind
        PROVE  /\ ServerCert \notin {CACert[k], CAKey[k]} /\ ServerKey \notin {CACert[k], CAKey[k]}
               /\ \A n \in Node : ClientCert(n) \notin {CACert[k], CAKey[k]}
    BY <1>1 DEF ServerCert, ServerKey, ClientCert
  <1>5. ASSUME NEW k \in Kind, NEW p \in Deployed
        PROVE  p \notin {CACert[k], CAKey[k]}
    <2>1. \A f \in {"relay.crt", "relay.key", "agent-ca.crt"} : RelayDir(f)[1] = "relay"
      BY DEF RelayDir
    <2>2. \A d \in Dest : AgentDirCert(d)[1] = "agent cert" /\ AgentDirCA(d)[1] = "agent relay-ca.crt"
      BY DEF AgentDirCert, AgentDirCA
    <2>3. p[1] \in {"relay", "agent cert", "agent relay-ca.crt"}
      BY <2>1, <2>2 DEF Deployed
    <2>4. CACert[k][1] = "ca" /\ CAKey[k][1] = "ca"
      BY <1>1
    <2> QED  BY <2>3, <2>4
  <1> QED  BY <1>2, <1>3, <1>4, <1>5

\* LoadCA returns a CA or nothing.
LEMMA Loaded ==
    ASSUME NEW f \in [Path -> Content], NEW k \in Kind
    PROVE  LoadCA(f, CACert[k], CAKey[k]) \in {Nothing} \cup CA
  BY KeyIsKey, Paths DEF LoadCA, CA

-----------------------------------------------------------------------------
\* Starting an operation: what it will write has the right form.
LEMMA StartTypes ==
    ASSUME Types,
           \/ \E k \in Kind : CreateWorkspace(k)
           \/ \E csr \in CSR, n \in Node : IssueAgent(csr, n)
           \/ IssueRelay
           \/ \E cert \in KeyName \cup {ServerCert}, key \in KeyName, ca \in CAFile : ExportRelay(cert, key, ca)
           \/ \E cert \in KeyName \cup {ClientCert(n) : n \in Node}, ca \in CAFile, d \in Dest :
                 ExportAgent(cert, ca, d)
    PROVE  Types'
  <1>0. /\ UNCHANGED <<file, ws, cut, relay>>
        /\ pairs \in 0..MaxPairs /\ caPairs \subseteq 1..pairs
    BY DEF Types, TypeOK, CreateWorkspace, IssueAgent, IssueRelay, ExportRelay, ExportAgent
  <1> SUFFICES /\ pairs' \in 0..MaxPairs /\ caPairs' \subseteq 1..pairs'
               /\ op' \in Operation
    BY <1>0 DEF Types, TypeOK
  <1>1. /\ \A p \in Path, c \in Content : Put(p, c) \in Write
        /\ \A p, q \in Path : Copy(p, q) \in Write
    BY Generated DEF Put, Copy, Write
  <1>2. \A s \in Seq(Write) : [Idle EXCEPT !.writes = s] \in Operation
    BY DEF Idle, Operation
  <1>3. ASSUME NEW k \in Kind, CreateWorkspace(k)
        PROVE  /\ pairs' \in 0..MaxPairs /\ caPairs' \subseteq 1..pairs'
               /\ op' \in Operation
    <2>1. pairs' \in 1..MaxPairs /\ caPairs' \subseteq 1..pairs'
      BY <1>0, <1>3 DEF CreateWorkspace
    <2>2. Put(CACert[k], Cert(pairs', pairs', "ca", "ca", {})) \in Write /\ Put(CAKey[k], Key(pairs')) \in Write
      BY <1>1, <2>1, Paths, Generated
    <2>3. CreateCAWrites(k, pairs') \in Seq(Write)
      BY <2>2 DEF CreateCAWrites
    <2> QED  BY <1>3, <2>1, <2>3 DEF CreateWorkspace, Operation
  <1>4. ASSUME NEW csr \in CSR, NEW n \in Node, IssueAgent(csr, n)
        PROVE  /\ UNCHANGED <<pairs, caPairs>>
               /\ op' \in Operation
    <2> DEFINE i == ws["agent"].key.pair
    <2>1. i \in 1..MaxPairs
      BY <1>4 DEF IssueAgent, CanSign, Types, CA, Key, Kind
    <2>2. csr.cn = n /\ csr.uris = {n}
      BY <1>4 DEF IssueAgent, ValidateAgentCSR
    <2> HIDE DEF i
    <2>3. Put(ClientCert(n), Cert(i, 0, "client", n, {n})) \in Write
      BY <1>1, <2>1, Paths, Generated
    <2>4. <<Put(ClientCert(n), Cert(i, 0, "client", n, {n}))>> \in Seq(Write)
      BY <2>3
    <2> QED  BY <1>4, <1>2, <2>2, <2>4 DEF IssueAgent, i
  <1>5. ASSUME IssueRelay
        PROVE  /\ pairs' \in 0..MaxPairs /\ caPairs' \subseteq 1..pairs'
               /\ op' \in Operation
    <2> DEFINE i == ws["relay"].key.pair
    <2>1. i \in 1..MaxPairs
      BY <1>5 DEF IssueRelay, CanSign, Types, CA, Key, Kind
    <2>2. pairs' \in 1..MaxPairs /\ caPairs' \subseteq 1..pairs'
      BY <1>0, <1>5 DEF IssueRelay
    <2> HIDE DEF i
    <2>3. /\ Put(ServerCert, Cert(i, pairs', "server", "relay", {})) \in Write
          /\ Put(ServerKey, Key(pairs')) \in Write
      BY <1>1, <2>1, <2>2, Paths, Generated
    <2>4. <<Put(ServerCert, Cert(i, pairs', "server", "relay", {})), Put(ServerKey, Key(pairs'))>> \in Seq(Write)
      BY <2>3
    <2>5. op' = [Idle EXCEPT !.writes = <<Put(ServerCert, Cert(i, pairs', "server", "relay", {})),
                                          Put(ServerKey, Key(pairs'))>>]
      BY <1>5 DEF IssueRelay, i
    <2>6. op' \in Operation
      BY <1>2, <2>4, <2>5
    <2> QED  BY <2>2, <2>6
  <1>6. ASSUME NEW cert \in KeyName \cup {ServerCert}, NEW key \in KeyName, NEW ca \in CAFile, ExportRelay(cert, key, ca)
        PROVE  /\ UNCHANGED <<pairs, caPairs>>
               /\ op' \in Operation
    <2>1. cert \in Path /\ key \in Path /\ ca \in Path
      BY Paths DEF KeyName, CAFile
    <2>2. /\ Copy(cert, RelayDir("relay.crt")) \in Write
          /\ Copy(key, RelayDir("relay.key")) \in Write
          /\ Copy(ca, RelayDir("agent-ca.crt")) \in Write
      BY <1>1, <2>1, Paths
    <2>3. <<Copy(cert, RelayDir("relay.crt")), Copy(key, RelayDir("relay.key")),
            Copy(ca, RelayDir("agent-ca.crt"))>> \in Seq(Write)
      BY <2>2
    <2> QED  BY <1>6, <1>2, <2>3 DEF ExportRelay
  <1>7. ASSUME NEW cert \in KeyName \cup {ClientCert(n) : n \in Node}, NEW ca \in CAFile, NEW d \in Dest,
               ExportAgent(cert, ca, d)
        PROVE  /\ UNCHANGED <<pairs, caPairs>>
               /\ op' \in Operation
    <2>1. cert \in Path /\ ca \in Path
      BY Paths DEF KeyName, CAFile
    <2>2. Copy(cert, AgentDirCert(d)) \in Write /\ Copy(ca, AgentDirCA(d)) \in Write
      BY <1>1, <2>1, Paths
    <2>3. <<Copy(cert, AgentDirCert(d)), Copy(ca, AgentDirCA(d))>> \in Seq(Write)
      BY <2>2
    <2> QED  BY <1>7, <1>2, <2>3 DEF ExportAgent
  <1> QED  BY <1>0, <1>3, <1>4, <1>5, <1>6, <1>7

\* The other steps: a write, a failure, opening, the relay.
LEMMA StepTypes ==
    ASSUME Types,
           \/ \E k \in Kind : OpenWorkspace(k)
           \/ WriteNext \/ CopyFails
           \/ \E ended \in BOOLEAN : Interrupt(ended)
           \/ NewWSSServer \/ RelayStops \/ UNCHANGED vars
    PROVE  Types'
  <1>0. UNCHANGED <<pairs, caPairs>> /\ Idle \in Operation
    BY DEF OpenWorkspace, WriteNext, CopyFails, Interrupt, NewWSSServer, RelayStops, vars, Idle, Operation
  <1> SUFFICES /\ file' \in [Path -> Content]
               /\ ws' \in [Kind -> {Nothing} \cup CA]
               /\ op' \in Operation
               /\ relay' \in Content
    BY <1>0 DEF Types, TypeOK, CA
  <1>1. ASSUME NEW k \in Kind, OpenWorkspace(k)
        PROVE  /\ UNCHANGED <<file, op, relay>>
               /\ ws' \in [Kind -> {Nothing} \cup CA]
    <2>1. PICK j \in openCAPaths(k) : ws' = [ws EXCEPT ![k] = LoadCA(file, CACert[j], CAKey[j])]
      BY <1>1 DEF OpenWorkspace
    <2>2. j \in Kind
      BY DEF openCAPaths, Kind
    <2> QED  BY <1>1, <2>1, <2>2, Loaded DEF OpenWorkspace, Types
  <1>2. ASSUME op.writes # <<>>
        PROVE  /\ Head(op.writes) \in Write /\ Tail(op.writes) \in Seq(Write)
               /\ Source(Head(op.writes)) \in Content
    <2>1. Head(op.writes) \in Write /\ Tail(op.writes) \in Seq(Write)
      BY <1>2 DEF Types, Operation
    <2> QED  BY <2>1 DEF Types, Source, Write
  <1>3. ASSUME WriteNext
        PROVE  /\ file' \in [Path -> Content]
               /\ ws' \in [Kind -> {Nothing} \cup CA]
               /\ op' \in Operation
               /\ relay' = relay
    <2>1. op.writes # <<>> /\ relay' = relay
      BY <1>3 DEF WriteNext
    <2>2. file' \in [Path -> Content]
      BY <1>2, <1>3, <2>1 DEF WriteNext, Types, Write
    <2>3. op' \in Operation
      BY <1>0, <1>2, <1>3, <2>1 DEF WriteNext, Types, Operation
    <2>4. op.load # "none" => op.load \in Kind
      BY DEF Types, Operation
    <2>5. ws' \in [Kind -> {Nothing} \cup CA]
      BY <1>3, <2>2, <2>4, Loaded DEF WriteNext, Types
    <2> QED  BY <2>1, <2>2, <2>3, <2>5
  <1>4. ASSUME NEW ended \in BOOLEAN, Interrupt(ended)
        PROVE  /\ file' \in [Path -> Content]
               /\ ws' \in [Kind -> {Nothing} \cup CA]
               /\ op' = Idle /\ relay' = relay
    <2>1. op.writes # <<>> /\ op' = Idle /\ relay' = relay
      BY <1>4 DEF Interrupt
    <2>2. Head(op.writes).to \in Path
      BY <1>2, <2>1 DEF Write
    <2>3. file' \in [Path -> Content]
      BY <1>4, <2>2, Generated DEF Interrupt, Types
    <2> QED  BY <1>4, <2>1, <2>3 DEF Interrupt, Types
  <1>5. ASSUME CopyFails
        PROVE  UNCHANGED <<file, ws, relay>> /\ op' = Idle
    BY <1>5 DEF CopyFails
  <1>6. ASSUME NewWSSServer \/ RelayStops \/ UNCHANGED vars
        PROVE  UNCHANGED <<file, ws, op>> /\ relay' \in Content
    BY <1>6, Paths, Generated DEF NewWSSServer, RelayStops, vars, Types, TypeOK
  <1> QED  BY <1>0, <1>1, <1>3, <1>4, <1>5, <1>6 DEF Types, TypeOK

-----------------------------------------------------------------------------
(***************************************************************************)
(* The invariant.  A CA is in both of its files or its key is not there;   *)
(* what lies outside the CA directory is no CA key, and its agent          *)
(* certificates were issued by the agent CA that is on disk; an operation  *)
(* either makes a CA whose key file does not exist yet, or writes only     *)
(* such things elsewhere.                                                  *)
(***************************************************************************)
CAKeys == {CAKey[k] : k \in Kind}

NoCAKey(c) == c.is = "key" => c.pair \in 1..pairs /\ c.pair \notin caPairs
ByAgentCA(c) == c.is = "cert" /\ c.use = "client" =>
                   /\ file[CAKey["agent"]].is = "key"
                   /\ c.by = file[CAKey["agent"]].pair
                   /\ c.uris = {c.cn}
Plain(c) == NoCAKey(c) /\ ByAgentCA(c)

Outside == \A p \in Path \ CAFile : Plain(file[p])

Pair(k, i) == file[CACert[k]] = Cert(i, i, "ca", "ca", {}) /\ file[CAKey[k]] = Key(i)
CAOnDisk == \A k \in Kind : /\ file[CACert[k]] \in CACerts \cup {Nothing, Torn}
                            /\ \/ file[CAKey[k]] \in {Nothing, Torn}
                               \/ \E i \in 1..pairs : Pair(k, i)

Making(k, i) == /\ op = [writes |-> CreateCAWrites(k, i), load |-> k]
                /\ file[CAKey[k]] = Nothing
HalfMade(k, i) == /\ op = [writes |-> << Put(CAKey[k], Key(i)) >>, load |-> k]
                  /\ file[CACert[k]] = Cert(i, i, "ca", "ca", {})
                  /\ file[CAKey[k]] = Nothing
Elsewhere == /\ op.load = "none"
             /\ \A j \in 1..Len(op.writes) : /\ op.writes[j].to \notin CAFile
                                             /\ op.writes[j].from \notin CAKeys
                                             /\ Plain(op.writes[j].data)
OpForm == Elsewhere \/ \E k \in Kind, i \in 1..pairs : Making(k, i) \/ HalfMade(k, i)

IInv == Types /\ CAOnDisk /\ Outside /\ OpForm /\ OpenIsOnDisk

\* Plain content stays plain: a complete agent CA key is never replaced, and a
\* new CA has a new pair.
LEMMA PlainStays ==
    ASSUME NEW c, Plain(c), Types,
           file[CAKey["agent"]].is = "key" => file'[CAKey["agent"]] = file[CAKey["agent"]],
           \/ pairs' = pairs /\ caPairs' = caPairs
           \/ pairs' = pairs + 1 /\ caPairs' \subseteq caPairs \cup {pairs + 1}
    PROVE  Plain(c)'
  <1>1. pairs \in Nat
    BY DEF Types, TypeOK
  <1>2. NoCAKey(c)'
    BY <1>1 DEF Plain, NoCAKey
  <1>3. ByAgentCA(c)'
    BY DEF Plain, ByAgentCA
  <1> QED  BY <1>2, <1>3 DEF Plain

\* What is not a CA key may be copied anywhere.
LEMMA SourceIsPlain ==
    ASSUME IInv, NEW p \in Path, p \notin CAKeys
    PROVE  Plain(file[p])
  <1>1. CASE p \notin CAFile
    BY <1>1 DEF IInv, Outside
  <1>2. CASE p \in CAFile
    <2>1. PICK k \in Kind : p = CACert[k]
      BY <1>2 DEF CAFile, CAKeys
    <2>2. file[p] \in CACerts \cup {Nothing, Torn}
      BY <2>1 DEF IInv, CAOnDisk
    <2> QED  BY <2>2 DEF CACerts, Cert, Nothing, Torn, Plain, NoCAKey, ByAgentCA
  <1> QED  BY <1>1, <1>2

\* An operation that has ended writes nothing.
LEMMA IdleForm == op' = Idle => OpForm'
  BY DEF OpForm, Elsewhere, Idle

\* A step that changes neither file nor the pairs keeps what is on disk.
LEMMA DiskStays ==
    ASSUME IInv, file' = file, UNCHANGED <<pairs, caPairs>>
    PROVE  CAOnDisk' /\ Outside' /\ (ws' = ws => OpenIsOnDisk')
  BY DEF IInv, CAOnDisk, Outside, Plain, NoCAKey, ByAgentCA, Pair, OpenIsOnDisk

\* Starting an operation: the pairs may grow, the files stay.
LEMMA StartKeeps ==
    ASSUME IInv,
           \/ \E k \in Kind : CreateWorkspace(k)
           \/ \E csr \in CSR, n \in Node : IssueAgent(csr, n)
           \/ IssueRelay
           \/ \E cert \in KeyName \cup {ServerCert}, key \in KeyName, ca \in CAFile : ExportRelay(cert, key, ca)
           \/ \E cert \in KeyName \cup {ClientCert(n) : n \in Node}, ca \in CAFile, d \in Dest :
                 ExportAgent(cert, ca, d)
    PROVE  IInv'
  <1>0. /\ UNCHANGED <<file, ws>> /\ Types /\ Types'
        /\ \/ pairs' = pairs /\ caPairs' = caPairs
           \/ pairs' = pairs + 1 /\ caPairs' \subseteq caPairs \cup {pairs + 1}
    BY StartTypes DEF IInv, CreateWorkspace, IssueAgent, IssueRelay, ExportRelay, ExportAgent
  <1>1. pairs \in Nat /\ caPairs \subseteq 1..pairs /\ 1..pairs \subseteq 1..pairs'
    BY <1>0 DEF Types, TypeOK
  <1>2. CAOnDisk'
    BY <1>0, <1>1 DEF IInv, CAOnDisk, Pair
  <1>3. Outside'
    BY <1>0, PlainStays DEF IInv, Outside
  <1>4. OpenIsOnDisk'
    BY <1>0 DEF IInv, OpenIsOnDisk
  <1>5. ASSUME NEW k \in Kind, CreateWorkspace(k) PROVE OpForm'
    <2> PICK m : m = pairs'
      OBVIOUS
    <2>1. op' = [writes |-> CreateCAWrites(k, m), load |-> k] /\ file'[CAKey[k]] = Nothing
      BY <1>5 DEF CreateWorkspace, fileExists
    <2>2. Making(k, m)' /\ m \in 1..pairs'
      BY <1>1, <1>5, <2>1 DEF CreateWorkspace, Making
    <2> QED  BY <2>2 DEF OpForm
  <1>6. ASSUME NEW s, op' = [Idle EXCEPT !.writes = s],
               \A j \in 1..Len(s) : /\ s[j].to \notin CAFile
                                    /\ s[j].from \notin CAKeys
                                    /\ Plain(s[j].data)'
        PROVE  OpForm'
    BY <1>6 DEF OpForm, Elsewhere, Idle
  <1>7. /\ <<>> \notin CAKeys
        /\ ServerCert \notin CAFile /\ ServerKey \notin CAFile
        /\ \A n \in Node : ClientCert(n) \notin CAFile
        /\ \A p \in Deployed : p \notin CAFile
        /\ \A p \in Path : p \notin CAFile => p \notin CAKeys
    BY CAPaths DEF CAFile, CAKeys, CAKey
  <1>8. Plain(Nothing)'
    BY DEF Plain, NoCAKey, ByAgentCA, Nothing
  <1>9. ASSUME NEW csr \in CSR, NEW n \in Node, IssueAgent(csr, n) PROVE OpForm'
    <2> PICK i : i = ws["agent"].key.pair
      OBVIOUS
    <2> DEFINE s == << Put(ClientCert(n), Cert(i, 0, "client", csr.cn, csr.uris)) >>
    <2>1. op' = [Idle EXCEPT !.writes = s] /\ csr.uris = {csr.cn}
      BY <1>9 DEF IssueAgent, ValidateAgentCSR
    <2>2. file[CAKey["agent"]] = ws["agent"].key /\ ws["agent"] \in CA
      BY <1>9 DEF IInv, OpenIsOnDisk, IssueAgent, CanSign, Kind, Types
    <2>3. file'[CAKey["agent"]].is = "key" /\ i = file'[CAKey["agent"]].pair
      BY <1>0, <2>2 DEF CA, Key
    <2>4. Plain(Cert(i, 0, "client", csr.cn, csr.uris))'
      BY <2>1, <2>3 DEF Plain, NoCAKey, ByAgentCA, Cert
    <2>5. Len(s) = 1 /\ s[1] = Put(ClientCert(n), Cert(i, 0, "client", csr.cn, csr.uris))
      OBVIOUS
    <2> HIDE DEF s
    <2>6. ASSUME NEW j \in 1..Len(s)
          PROVE  s[j].to \notin CAFile /\ s[j].from \notin CAKeys /\ Plain(s[j].data)'
      BY <1>7, <2>1, <2>4, <2>5 DEF Put
    <2> QED  BY <1>6, <2>1, <2>6
  <1>10. ASSUME IssueRelay PROVE OpForm'
    <2> PICK i, m : i = ws["relay"].key.pair /\ m = pairs'
      OBVIOUS
    <2> DEFINE c == Cert(i, m, "server", "relay", {})
               s == << Put(ServerCert, c), Put(ServerKey, Key(m)) >>
    <2>1. op' = [Idle EXCEPT !.writes = s] /\ m = pairs + 1 /\ caPairs' = caPairs
      BY <1>10 DEF IssueRelay
    <2>2. Plain(c)' /\ Plain(Key(m))'
      BY <1>1, <2>1 DEF Plain, NoCAKey, ByAgentCA, Cert, Key
    <2>3. Len(s) = 2 /\ s[1] = Put(ServerCert, c) /\ s[2] = Put(ServerKey, Key(m))
      OBVIOUS
    <2> HIDE DEF s, c
    <2>6. ASSUME NEW j \in 1..Len(s)
          PROVE  s[j].to \notin CAFile /\ s[j].from \notin CAKeys /\ Plain(s[j].data)'
      BY <1>7, <2>1, <2>2, <2>3 DEF Put
    <2> QED  BY <1>6, <2>1, <2>6
  <1>11. ASSUME NEW cert \in KeyName \cup {ServerCert}, NEW key \in KeyName, NEW ca \in CAFile, ExportRelay(cert, key, ca) PROVE OpForm'
    <2> DEFINE s == << Copy(cert, RelayDir("relay.crt")), Copy(key, RelayDir("relay.key")),
                       Copy(ca, RelayDir("agent-ca.crt")) >>
    <2>0. \A i \in 1..3 : ~isCAKeyName(<<cert, key, ca>>[i])
      BY <1>11 DEF ExportRelay, rejectCAKey
    <2>1. op' = [Idle EXCEPT !.writes = s] /\ cert \notin CAKeys /\ key \notin CAKeys /\ ca \notin CAKeys
      BY <1>11, <2>0 DEF ExportRelay, isCAKeyName, CAKeys
    <2>2. \A f \in {"relay.crt", "relay.key", "agent-ca.crt"} : RelayDir(f) \in Deployed
      BY DEF Deployed
    <2>3. /\ Len(s) = 3 /\ s[1] = Copy(cert, RelayDir("relay.crt"))
          /\ s[2] = Copy(key, RelayDir("relay.key")) /\ s[3] = Copy(ca, RelayDir("agent-ca.crt"))
      OBVIOUS
    <2> HIDE DEF s
    <2>6. ASSUME NEW j \in 1..Len(s)
          PROVE  s[j].to \notin CAFile /\ s[j].from \notin CAKeys /\ Plain(s[j].data)'
      BY <1>7, <1>8, <2>1, <2>2, <2>3, Paths DEF Copy
    <2> QED  BY <1>6, <2>1, <2>6
  <1>12. ASSUME NEW cert \in KeyName \cup {ClientCert(n) : n \in Node}, NEW ca \in CAFile, NEW d \in Dest,
                ExportAgent(cert, ca, d)
         PROVE  OpForm'
    <2> DEFINE s == << Copy(cert, AgentDirCert(d)), Copy(ca, AgentDirCA(d)) >>
    <2>1. op' = [Idle EXCEPT !.writes = s] /\ cert \notin CAKeys /\ ca \notin CAKeys
      BY <1>12 DEF ExportAgent, KeyName, CAKeys
    <2>2. AgentDirCert(d) \in Deployed /\ AgentDirCA(d) \in Deployed
      BY DEF Deployed
    <2>3. Len(s) = 2 /\ s[1] = Copy(cert, AgentDirCert(d)) /\ s[2] = Copy(ca, AgentDirCA(d))
      OBVIOUS
    <2> HIDE DEF s
    <2>6. ASSUME NEW j \in 1..Len(s)
          PROVE  s[j].to \notin CAFile /\ s[j].from \notin CAKeys /\ Plain(s[j].data)'
      BY <1>7, <1>8, <2>1, <2>2, <2>3 DEF Copy
    <2> QED  BY <1>6, <2>1, <2>6
  <1> QED  BY <1>0, <1>2, <1>3, <1>4, <1>5, <1>9, <1>10, <1>11, <1>12 DEF IInv

\* A file outside the CA directory gets plain content.
LEMMA OutsideWrite ==
    ASSUME IInv, NEW p \in Path, p \notin CAFile, NEW c, Plain(c),
           file' = [file EXCEPT ![p] = c], UNCHANGED <<pairs, caPairs>>
    PROVE  /\ CAOnDisk' /\ Outside'
           /\ (\A k \in Kind : ws'[k] \in {ws[k], Nothing}) => OpenIsOnDisk'
  <1>1. file \in [Path -> Content] /\ Types
    BY DEF IInv, Types
  <1>2. \A k \in Kind : /\ CACert[k] \in Path /\ CACert[k] # p /\ CAKey[k] \in Path /\ CAKey[k] # p
                        /\ file'[CACert[k]] = file[CACert[k]] /\ file'[CAKey[k]] = file[CAKey[k]]
    BY <1>1, Paths DEF CAFile
  <1>3. CAOnDisk'
    BY <1>2 DEF IInv, CAOnDisk, Pair
  <1>4. \A x : Plain(x) => Plain(x)'
    BY <1>1, <1>2, PlainStays DEF Kind
  <1>5. Outside'
    <2> SUFFICES ASSUME NEW q \in Path \ CAFile PROVE Plain(file[q])'
      BY DEF Outside
    <2>1. PICK x : x = file'[q]
      OBVIOUS
    <2>2. Plain(x)
      BY <1>1, <2>1 DEF IInv, Outside
    <2> QED  BY <1>4, <2>1, <2>2
  <1>6. (\A k \in Kind : ws'[k] \in {ws[k], Nothing}) => OpenIsOnDisk'
    BY <1>2 DEF IInv, OpenIsOnDisk, Kind
  <1> QED  BY <1>3, <1>5, <1>6

\* A file of a CA whose key is not there yet gets content.
LEMMA CAWrite ==
    ASSUME IInv, NEW k \in Kind, file[CAKey[k]] = Nothing,
           NEW p \in {CACert[k], CAKey[k]}, NEW c, file' = [file EXCEPT ![p] = c],
           p = CACert[k] => c \in CACerts \cup {Nothing, Torn},
           p = CAKey[k] => \/ c \in {Nothing, Torn}
                           \/ \E i \in 1..pairs : c = Key(i) /\ file[CACert[k]] = Cert(i, i, "ca", "ca", {}),
           UNCHANGED <<pairs, caPairs>>
    PROVE  /\ CAOnDisk' /\ Outside'
           /\ \A j \in Kind : ws'[j] \in {ws[j], Nothing} =>
                 (ws'[j] # Nothing =>
                    \E h \in {j, "agent"} : file'[CACert[h]] = ws'[j].cert /\ file'[CAKey[h]] = ws'[j].key)
  <1>1. file \in [Path -> Content] /\ Types /\ p \in Path /\ p \in CAFile
    BY Paths DEF IInv, Types, CAFile
  <1>2. \A q \in Path : file'[q] = IF q = p THEN c ELSE file[q]
    BY <1>1
  <1>3. \A j \in Kind : /\ CACert[j] \in Path /\ CAKey[j] \in Path
                        /\ j # k => file'[CACert[j]] = file[CACert[j]] /\ file'[CAKey[j]] = file[CAKey[j]]
    BY <1>2, Paths, CAPaths
  <1>4. CAOnDisk'
    <2> SUFFICES ASSUME NEW j \in Kind
                 PROVE  /\ file'[CACert[j]] \in CACerts \cup {Nothing, Torn}
                        /\ \/ file'[CAKey[j]] \in {Nothing, Torn}
                           \/ \E i \in 1..pairs : /\ file'[CACert[j]] = Cert(i, i, "ca", "ca", {})
                                                  /\ file'[CAKey[j]] = Key(i)
      BY DEF CAOnDisk, Pair
    <2>1. CASE j # k
      BY <1>3, <2>1 DEF IInv, CAOnDisk, Pair
    <2>2. CASE j = k
      <3>1. file[CACert[k]] \in CACerts \cup {Nothing, Torn}
        BY DEF IInv, CAOnDisk
      <3>2. CACert[k] # CAKey[k]
        BY CAPaths
      <3> QED  BY <1>2, <1>3, <2>2, <3>1, <3>2
    <2> QED  BY <2>1, <2>2
  <1>5. file[CAKey["agent"]].is = "key" => file'[CAKey["agent"]] = file[CAKey["agent"]]
    BY <1>3 DEF Nothing, Kind
  <1>6. \A x : Plain(x) => Plain(x)'
    BY <1>1, <1>5, PlainStays
  <1>7. Outside'
    <2> SUFFICES ASSUME NEW q \in Path \ CAFile PROVE Plain(file[q])'
      BY DEF Outside
    <2>1. PICK x : x = file'[q]
      OBVIOUS
    <2>2. Plain(x)
      BY <1>1, <1>2, <2>1 DEF IInv, Outside
    <2> QED  BY <1>6, <2>1, <2>2
  <1>8. ASSUME NEW j \in Kind, ws'[j] = ws[j], ws[j] # Nothing
        PROVE  \E h \in {j, "agent"} : file'[CACert[h]] = ws'[j].cert /\ file'[CAKey[h]] = ws'[j].key
    <2>1. PICK h \in {j, "agent"} : file[CACert[h]] = ws[j].cert /\ file[CAKey[h]] = ws[j].key
      BY <1>8 DEF IInv, OpenIsOnDisk
    <2>2. ws[j].key # Nothing
      BY <1>8 DEF IInv, Types, CA, Key, Nothing
    <2>3. h # k /\ h \in Kind
      BY <2>1, <2>2 DEF Kind
    <2> QED  BY <1>3, <1>8, <2>1, <2>3
  <1> QED  BY <1>4, <1>7, <1>8

\* WriteNext, in each form an operation has.
LEMMA WriteKeeps == ASSUME IInv, WriteNext PROVE IInv'
  <1> DEFINE w == Head(op.writes)
             rest == Tail(op.writes)
  <1>0. /\ op.writes # <<>>
        /\ file' = [file EXCEPT ![w.to] = Source(w)]
        /\ op' = IF rest = <<>> THEN Idle ELSE [op EXCEPT !.writes = rest]
        /\ ws' = IF rest = <<>> /\ op.load # "none"
                 THEN [ws EXCEPT ![op.load] = LoadCA(file', CACert[op.load], CAKey[op.load])]
                 ELSE ws
        /\ UNCHANGED <<pairs, caPairs>>
    BY DEF WriteNext
  <1>1. Types /\ Types' /\ op.writes \in Seq(Write) /\ w \in Write /\ rest \in Seq(Write)
    BY <1>0, StepTypes DEF IInv, Types, Operation
  <1>2. CASE Elsewhere
    <2>1. op.load = "none" /\ w.to \notin CAFile /\ w.from \notin CAKeys /\ Plain(w.data)
      BY <1>0, <1>1, <1>2 DEF Elsewhere
    <2>2. w.to \in Path /\ (w.from = <<>> \/ w.from \in Path)
      BY <1>1 DEF Write
    <2>3. PICK c : c = Source(w) /\ Plain(c)
      BY <2>1, <2>2, SourceIsPlain DEF Source
    <2>4. ws' = ws
      BY <1>0, <2>1
    <2>5. CAOnDisk' /\ Outside' /\ OpenIsOnDisk'
      BY <1>0, <2>1, <2>2, <2>3, <2>4, OutsideWrite
    <2>6. OpForm'
      <3>1. CASE rest = <<>>
        BY <1>0, <3>1, IdleForm
      <3>2. CASE rest # <<>>
        <4>1. op' = [op EXCEPT !.writes = rest]
          BY <1>0, <3>2
        <4>2. op'.load = "none" /\ op'.writes = rest
          BY <1>1, <2>1, <4>1 DEF Types, Operation
        <4>3. Len(rest) = Len(op.writes) - 1 /\ \A j \in 1..Len(rest) : rest[j] = op.writes[j + 1]
          BY <1>0, <1>1
        <4>4. \A j \in 1..Len(rest) : j + 1 \in 1..Len(op.writes)
          BY <1>0, <1>1, <4>3
        <4>5. file'[CAKey["agent"]] = file[CAKey["agent"]]
          BY <1>0, <2>1, Paths DEF IInv, Types, CAFile, Kind
        <4>6. \A x : Plain(x) => Plain(x)'
          BY <1>0, <1>1, <4>5, PlainStays
        <4>7. ASSUME NEW j \in 1..Len(rest)
              PROVE  rest[j].to \notin CAFile /\ rest[j].from \notin CAKeys /\ Plain(rest[j].data)
          BY <1>2, <4>3, <4>4 DEF Elsewhere
        <4> HIDE DEF rest
        <4>8. ASSUME NEW j \in 1..Len(op'.writes)
              PROVE  /\ op'.writes[j].to \notin CAFile /\ op'.writes[j].from \notin CAKeys
                     /\ Plain(op.writes[j].data)'
          <5>1. PICK x : x = rest[j].data
            OBVIOUS
          <5>2. Plain(x) /\ rest[j].to \notin CAFile /\ rest[j].from \notin CAKeys
            BY <4>2, <4>7, <5>1
          <5>3. Plain(x)' /\ x = op'.writes[j].data
            BY <4>2, <4>6, <5>1, <5>2
          <5> QED  BY <4>2, <5>2, <5>3
        <4> QED  BY <4>2, <4>8 DEF OpForm, Elsewhere
      <3> QED  BY <3>1, <3>2
    <2> QED  BY <1>1, <2>5, <2>6 DEF IInv
  <1>3. ASSUME NEW k \in Kind, NEW i \in 1..pairs, Making(k, i) PROVE IInv'
    <2> DEFINE c == Cert(i, i, "ca", "ca", {})
    <2>1. /\ op = [writes |-> << Put(CACert[k], c), Put(CAKey[k], Key(i)) >>, load |-> k]
          /\ file[CAKey[k]] = Nothing
      BY <1>3 DEF Making, CreateCAWrites
    <2>2. w = Put(CACert[k], c) /\ rest = << Put(CAKey[k], Key(i)) >>
      BY <2>1
    <2>3. i \in 1..MaxPairs
      BY <1>1 DEF Types, TypeOK
    <2>4. c \in CACerts
      BY <2>3 DEF CACerts
    <2> HIDE DEF w, rest, c
    <2>5. Source(w) = c /\ w.to = CACert[k]
      BY <2>2 DEF Source, Put
    <2>6. rest # <<>>
      BY <2>2
    <2>7. ws' = ws /\ op' = [op EXCEPT !.writes = rest] /\ file' = [file EXCEPT ![CACert[k]] = c]
      BY <1>0, <2>5, <2>6
    <2>8. CACert[k] # CAKey[k] /\ CACert[k] \in Path /\ CAKey[k] \in Path
      BY CAPaths, Paths
    <2>9. CAOnDisk' /\ Outside' /\ OpenIsOnDisk'
      BY <1>0, <2>1, <2>4, <2>7, <2>8, CAWrite DEF OpenIsOnDisk
    <2>10. HalfMade(k, i)'
      <3>1. op' = [writes |-> << Put(CAKey[k], Key(i)) >>, load |-> k]
        BY <2>1, <2>2, <2>7
      <3>2. file'[CACert[k]] = c /\ file'[CAKey[k]] = Nothing
        BY <2>1, <2>7, <2>8 DEF IInv, Types
      <3> QED  BY <3>1, <3>2 DEF HalfMade, c
    <2> QED  BY <1>0, <1>1, <2>9, <2>10 DEF IInv, OpForm
  <1>4. ASSUME NEW k \in Kind, NEW i \in 1..pairs, HalfMade(k, i) PROVE IInv'
    <2>1. /\ op = [writes |-> << Put(CAKey[k], Key(i)) >>, load |-> k]
          /\ file[CACert[k]] = Cert(i, i, "ca", "ca", {})
          /\ file[CAKey[k]] = Nothing
      BY <1>4 DEF HalfMade
    <2>2. w = Put(CAKey[k], Key(i)) /\ rest = <<>> /\ op.load = k
      BY <2>1
    <2> HIDE DEF w, rest
    <2>3. Source(w) = Key(i) /\ w.to = CAKey[k]
      BY <2>2 DEF Source, Put
    <2>4. /\ op' = Idle /\ file' = [file EXCEPT ![CAKey[k]] = Key(i)]
          /\ ws' = [ws EXCEPT ![k] = LoadCA(file', CACert[k], CAKey[k])]
      BY <1>0, <2>2, <2>3 DEF Kind
    <2>5. CACert[k] # CAKey[k] /\ CACert[k] \in Path /\ CAKey[k] \in Path
      BY CAPaths, Paths
    <2>6. /\ CAOnDisk' /\ Outside'
          /\ \A j \in Kind : ws'[j] \in {ws[j], Nothing} =>
                (ws'[j] # Nothing =>
                   \E h \in {j, "agent"} : file'[CACert[h]] = ws'[j].cert /\ file'[CAKey[h]] = ws'[j].key)
      <3>1. PICK p, c : p = CAKey[k] /\ c = Key(i)
        OBVIOUS
      <3>2. file' = [file EXCEPT ![p] = c]
        BY <2>4, <3>1
      <3>3. \E m \in 1..pairs : c = Key(m) /\ file[CACert[k]] = Cert(m, m, "ca", "ca", {})
        BY <2>1, <3>1
      <3>4. p \in {CACert[k], CAKey[k]} /\ p # CACert[k]
        BY <2>5, <3>1
      <3>5. UNCHANGED <<pairs, caPairs>> /\ file[CAKey[k]] = Nothing
        BY <1>0, <2>1
      <3>6. CAOnDisk' /\ Outside'
        BY <3>2, <3>3, <3>4, <3>5, CAWrite
      <3>7. ASSUME NEW j \in Kind, ws'[j] \in {ws[j], Nothing}, ws'[j] # Nothing
            PROVE  \E h \in {j, "agent"} : file'[CACert[h]] = ws'[j].cert /\ file'[CAKey[h]] = ws'[j].key
        BY <3>2, <3>3, <3>4, <3>5, <3>7, CAWrite
      <3> QED  BY <3>6, <3>7
    <2>7. ASSUME NEW j \in Kind, ws'[j] # Nothing
          PROVE  \E h \in {j, "agent"} : file'[CACert[h]] = ws'[j].cert /\ file'[CAKey[h]] = ws'[j].key
      <3>1. CASE j # k
        BY <2>4, <2>6, <2>7, <3>1 DEF IInv, Types
      <3>2. CASE j = k
        <4>1. ws'[k] = LoadCA(file', CACert[k], CAKey[k])
          BY <2>4 DEF IInv, Types
        <4>2. ws'[k] = [is |-> "ca", cert |-> file'[CACert[k]], key |-> file'[CAKey[k]]]
          BY <2>7, <3>2, <4>1 DEF LoadCA
        <4> QED  BY <3>2, <4>2
      <3> QED  BY <3>1, <3>2
    <2> QED  BY <1>1, <2>4, <2>6, <2>7, IdleForm DEF IInv, OpenIsOnDisk
  <1> QED  BY <1>2, <1>3, <1>4 DEF IInv, OpForm

\* A write that fails, or is cut short, in each form an operation has.
LEMMA InterruptKeeps == ASSUME IInv, NEW ended \in BOOLEAN, Interrupt(ended) PROVE IInv'
  <1> DEFINE to == Head(op.writes).to
  <1>0. /\ op.writes # <<>> /\ op' = Idle /\ UNCHANGED <<pairs, caPairs>>
        /\ ws' = ws \/ ws' = [k \in Kind |-> Nothing]
    BY DEF Interrupt
  <1>1. PICK left \in {file[to], Torn} : file' = [file EXCEPT ![to] = left]
    BY DEF Interrupt
  <1>2. Types /\ Types' /\ OpForm'
    BY <1>0, StepTypes, IdleForm DEF IInv
  <1>3. \A j \in Kind : ws'[j] \in {ws[j], Nothing}
    BY <1>0
  <1>4. CASE Elsewhere
    <2>1. to \in Path /\ to \notin CAFile
      <3>1. op.writes \in Seq(Write) /\ Len(op.writes) >= 1 /\ Head(op.writes) = op.writes[1]
        BY <1>0, <1>2 DEF Types, Operation
      <3>2. 1 \in 1..Len(op.writes) /\ op.writes[1] \in Write
        BY <3>1
      <3> QED  BY <1>4, <3>1, <3>2 DEF Elsewhere, Write
    <2>2. Plain(left)
      BY <2>1 DEF IInv, Outside, Plain, NoCAKey, ByAgentCA, Torn
    <2>3. PICK p : p = to
      OBVIOUS
    <2>4. file' = [file EXCEPT ![p] = left] /\ p \in Path /\ p \notin CAFile
      BY <1>1, <2>1, <2>3
    <2>5. CAOnDisk' /\ Outside' /\ OpenIsOnDisk'
      BY <1>0, <1>3, <2>2, <2>4, OutsideWrite
    <2> QED  BY <1>2, <2>5 DEF IInv
  <1>5. ASSUME NEW k \in Kind, NEW i \in 1..pairs, Making(k, i) \/ HalfMade(k, i) PROVE IInv'
    <2>1. /\ to = CACert[k] \/ to = CAKey[k]
          /\ file[CAKey[k]] = Nothing
      BY <1>5 DEF Making, HalfMade, CreateCAWrites, Put
    <2>2. PICK p : p = to
      OBVIOUS
    <2>3. file' = [file EXCEPT ![p] = left] /\ p \in {CACert[k], CAKey[k]}
      BY <1>1, <2>1, <2>2
    <2>4. p = CACert[k] => left \in CACerts \cup {Nothing, Torn}
      BY <2>2 DEF IInv, CAOnDisk
    <2>5. p = CAKey[k] => left \in {Nothing, Torn}
      BY <2>1, <2>2
    <2>6. CAOnDisk' /\ Outside'
      BY <1>0, <2>1, <2>3, <2>4, <2>5, CAWrite
    <2>7. ASSUME NEW j \in Kind, ws'[j] # Nothing
          PROVE  \E h \in {j, "agent"} : file'[CACert[h]] = ws'[j].cert /\ file'[CAKey[h]] = ws'[j].key
      BY <1>0, <1>3, <2>1, <2>3, <2>4, <2>5, <2>7, CAWrite
    <2> QED  BY <1>2, <2>6, <2>7 DEF IInv, OpenIsOnDisk
  <1> QED  BY <1>4, <1>5 DEF IInv, OpForm

\* Opening, a copy without a source, and the relay change no file.
LEMMA RestKeeps ==
    ASSUME IInv,
           \/ \E k \in Kind : OpenWorkspace(k)
           \/ CopyFails \/ NewWSSServer \/ RelayStops \/ UNCHANGED vars
    PROVE  IInv'
  <1>0. file' = file /\ UNCHANGED <<pairs, caPairs>> /\ (op' = op \/ op' = Idle)
    BY DEF OpenWorkspace, CopyFails, NewWSSServer, RelayStops, vars
  <1>1. Types' /\ CAOnDisk' /\ Outside' /\ (ws' = ws => OpenIsOnDisk')
    BY <1>0, StepTypes, DiskStays DEF IInv
  <1>2. OpForm'
    <2>1. CASE op' = Idle
      BY <2>1, IdleForm
    <2>2. CASE op' = op
      BY <1>0, <2>2 DEF IInv, OpForm, Elsewhere, Making, HalfMade, Plain, NoCAKey, ByAgentCA
    <2> QED  BY <1>0, <2>1, <2>2
  <1>3. ASSUME NEW k \in Kind, OpenWorkspace(k) PROVE OpenIsOnDisk'
    <2>1. PICK j \in openCAPaths(k) : /\ LoadCA(file, CACert[j], CAKey[j]) # Nothing
                                      /\ ws' = [ws EXCEPT ![k] = LoadCA(file, CACert[j], CAKey[j])]
      BY <1>3 DEF OpenWorkspace
    <2>2. j \in {k, "agent"}
      BY DEF openCAPaths
    <2>3. LoadCA(file, CACert[j], CAKey[j]) = [is |-> "ca", cert |-> file[CACert[j]], key |-> file[CAKey[j]]]
      BY <2>1 DEF LoadCA
    <2>4. ws'[k].cert = file[CACert[j]] /\ ws'[k].key = file[CAKey[j]]
      BY <2>1, <2>3 DEF IInv, Types
    <2>5. \A h \in Kind : h # k => ws'[h] = ws[h]
      BY <2>1 DEF IInv, Types
    <2> QED  BY <1>0, <2>2, <2>4, <2>5 DEF IInv, OpenIsOnDisk
  <1>4. OpenIsOnDisk'
    BY <1>1, <1>3 DEF CopyFails, NewWSSServer, RelayStops, vars
  <1> QED  BY <1>1, <1>2, <1>4 DEF IInv

-----------------------------------------------------------------------------
\* IInv is inductive.
THEOREM Invariance == Spec => []IInv
  <1>1. Init => IInv
    <2> SUFFICES ASSUME Init PROVE IInv
      OBVIOUS
    <2>1. \A p \in Path : file[p] = Nothing
      BY DEF Init
    <2>2. Types
      <3>1. <<>> \in Seq(Write)
        OBVIOUS
      <3> QED  BY <3>1, Generated DEF Init, Types, TypeOK, Operation, Idle
    <2>3. CAOnDisk
      BY <2>1, Paths DEF CAOnDisk
    <2>4. Outside
      BY <2>1 DEF Outside, Plain, NoCAKey, ByAgentCA, Nothing
    <2>5. OpForm /\ OpenIsOnDisk
      BY DEF Init, OpForm, Elsewhere, Idle, OpenIsOnDisk
    <2> QED  BY <2>2, <2>3, <2>4, <2>5 DEF IInv
  <1>2. IInv /\ [Next]_vars => IInv'
    BY StartKeeps, WriteKeeps, InterruptKeeps, RestKeeps DEF Next
  <1> QED  BY <1>1, <1>2, PTL DEF Spec

\* Every file holds what the manager issued, whatever writes failed.
THEOREM TypeCorrect == Spec => []TypeOK
  <1>1. IInv => TypeOK
    BY DEF IInv, Types
  <1> QED  BY <1>1, Invariance, PTL

\* The CA key on disk is the key of the certificate beside it (CreateWorkspace).
THEOREM PairMatches == Spec => []CAPairMatches
  <1>1. IInv => CAPairMatches
    <2> SUFFICES ASSUME IInv, NEW k \in Kind, file[CAKey[k]].is = "key"
                 PROVE  file[CACert[k]].is = "cert" /\ file[CACert[k]].pair = file[CAKey[k]].pair
      BY DEF CAPairMatches
    <2>1. PICK i \in 1..pairs : Pair(k, i)
      BY DEF IInv, CAOnDisk, Nothing, Torn
    <2> QED  BY <2>1 DEF Pair, Cert, Key
  <1> QED  BY <1>1, Invariance, PTL

\* The CA the manager holds open is the one on disk.
THEOREM OpenOnDisk == Spec => []OpenIsOnDisk
  <1>1. IInv => OpenIsOnDisk
    BY DEF IInv
  <1> QED  BY <1>1, Invariance, PTL

\* No CA key leaves the manager, for any number of CAs and exports (rejectCAKey).
THEOREM KeyStays == Spec => []CAKeyStays
  <1>1. ASSUME IInv PROVE CAKeyStays
    <2>1. \A p \in Deployed : p \in Path \ CAFile
      BY CAPaths DEF Path, CAFile
    <2> QED  BY <1>1, <2>1 DEF IInv, Outside, Plain, NoCAKey, CAKeyStays
  <1> QED  BY <1>1, Invariance, PTL

\* A relay that trusts the agent CA takes each agent certificate for its node.
THEOREM AgentAccepted == Spec => []DeployedAgentIsAccepted
  <1>1. ASSUME IInv PROVE DeployedAgentIsAccepted
    <2> SUFFICES ASSUME relay # Nothing, relay = file[CACert["agent"]], file[CAKey["agent"]].is = "key",
                        NEW d \in Dest,
                        file[AgentDirCert(d)].is = "cert", file[AgentDirCert(d)].use = "client"
                 PROVE  {m \in Node : Accepts(file[AgentDirCert(d)], m)} = {file[AgentDirCert(d)].cn}
      BY DEF DeployedAgentIsAccepted
    <2> DEFINE c == file[AgentDirCert(d)]
    <2>1. AgentDirCert(d) \in Path \ CAFile
      BY CAPaths, Paths DEF Deployed, CAFile
    <2>2. c.by = file[CAKey["agent"]].pair /\ c.uris = {c.cn}
      BY <1>1, <2>1 DEF IInv, Outside, Plain, ByAgentCA
    <2>3. relay.use = "ca" /\ relay.pair = file[CAKey["agent"]].pair
      <3>1. PICK i \in 1..pairs : Pair("agent", i)
        BY <1>1 DEF IInv, CAOnDisk, Nothing, Torn, Kind
      <3> QED  BY <3>1 DEF Pair, Cert, Key
    <2>4. c.cn \in Node
      <3>1. c \in Content
        BY <1>1, <2>1 DEF IInv, Types
      <3> QED  BY <3>1 DEF Content, CACerts, RelayCerts, AgentCerts, Cert, Key, Nothing, Torn
    <2> QED  BY <2>2, <2>3, <2>4 DEF Accepts, certIdentityMatches
  <1> QED  BY <1>1, Invariance, PTL
=============================================================================
