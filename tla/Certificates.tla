--------------------------- MODULE Certificates ---------------------------
(***************************************************************************)
(* The certificate manager: CA workspaces are created and opened, relay    *)
(* and agent certificates issued, deployment files exported, and the relay *)
(* started with what it was given.  Every operation writes its files one   *)
(* after the other; a write may fail, or the manager end, between two of   *)
(* them or in the middle of one (os.WriteFile truncates first), and the    *)
(* user then tries again.                                                  *)
(*                                                                         *)
(* A key pair is a number; a certificate is who signed it, whose key it    *)
(* holds, what it may be used for and the identity it names.  Both CA      *)
(* kinds share one workspace directory, the case the legacy lookup is for; *)
(* issued and exported files go to other directories.  Expiry, the relay's *)
(* names and the README files are left out.                                *)
(***************************************************************************)
EXTENDS Naturals, Sequences, FiniteSets

CONSTANTS Node,           \* node IDs
          Dest,           \* directories agent files are exported to
          MaxPairs,       \* bound: key pairs the manager generates
          MaxInterrupts   \* bound: operations cut short

ASSUME CertificateBounds == MaxPairs \in Nat /\ MaxInterrupts \in Nat

VARIABLES file,    \* content of every file, on the manager and the deployed ones
          ws,      \* ui.agentCA, ui.relayCA: the CA held open, Nothing when none is
          op,      \* the running operation: writes still to make, workspace to load
          pairs,   \* key pairs generated so far
          caPairs, \* history: those made for a CA
          cut,     \* history: operations cut short
          relay    \* what the running relay has loaded: the agent CA, Nothing when down

vars == <<file, ws, op, pairs, caPairs, cut, relay>>

Nothing == [is |-> "nothing"]
Torn == [is |-> "torn"]
Key(i) == [is |-> "key", pair |-> i]
Cert(by, pair, use, cn, uris) ==
    [is |-> "cert", by |-> by, pair |-> pair, use |-> use, cn |-> cn, uris |-> uris]

Kind == {"agent", "relay"}
CACert == [k \in Kind |-> <<"ca", IF k = "agent" THEN "agent-ca.crt" ELSE "relay-ca.crt">>]
CAKey == [k \in Kind |-> <<"ca", IF k = "agent" THEN "agent-ca.key" ELSE "relay-ca.key">>]
ServerCert == <<"out", "relay.crt">>
ServerKey == <<"out", "relay.key">>
ClientCert(n) == <<"out", n>>
\* RelayDir(f): a file in the directory exported for the relay; the others are in d, for an agent
RelayDir(f) == <<"relay", f>>
AgentDirCert(d) == <<"agent cert", d>>
AgentDirCA(d) == <<"agent relay-ca.crt", d>>
OnManager == {CACert[k] : k \in Kind} \cup {CAKey[k] : k \in Kind}
                \cup {ServerCert, ServerKey} \cup {ClientCert(n) : n \in Node}
Deployed == {RelayDir(f) : f \in {"relay.crt", "relay.key", "agent-ca.crt"}}
                \cup {AgentDirCert(d) : d \in Dest} \cup {AgentDirCA(d) : d \in Dest}
Path == OnManager \cup Deployed

KeyName == {CAKey[k] : k \in Kind} \cup {ServerKey}
isCAKeyName(p) == p \in {CAKey[k] : k \in Kind}
fileExists(p) == file[p] # Nothing

Idle == [writes |-> <<>>, load |-> "none"]
Put(p, c) == [to |-> p, from |-> <<>>, data |-> c]
Copy(src, p) == [to |-> p, from |-> src, data |-> Nothing]

Init ==
    /\ file = [p \in Path |-> Nothing]
    /\ ws = [k \in Kind |-> Nothing]
    /\ op = Idle
    /\ pairs = 0
    /\ caPairs = {}
    /\ cut = 0
    /\ relay = Nothing

-----------------------------------------------------------------------------
(* Workspaces. *)

\* LoadCA: both files parse; that they belong together is not checked
LoadCA(f, certPath, keyPath) ==
    IF f[certPath].is = "cert" /\ f[keyPath].is = "key"
    THEN [is |-> "ca", cert |-> f[certPath], key |-> f[keyPath]]
    ELSE Nothing

\* mutant: the key is written before the certificate
CreateCAWritesKeyFirst(k, i) == << Put(CAKey[k], Key(i)), Put(CACert[k], Cert(i, i, "ca", "ca", {})) >>

CreateCAWrites(k, i) == << Put(CACert[k], Cert(i, i, "ca", "ca", {})), Put(CAKey[k], Key(i)) >>

\* mutant: an existing CA key is overwritten
CreateWorkspaceAgain(k) ==
    /\ op = Idle /\ pairs < MaxPairs
    /\ pairs' = pairs + 1 /\ caPairs' = caPairs \cup {pairs'}
    /\ op' = [writes |-> CreateCAWrites(k, pairs'), load |-> k]
    /\ UNCHANGED <<file, ws, cut, relay>>

CreateWorkspace(k) ==
    /\ op = Idle
    /\ pairs < MaxPairs
    /\ ~fileExists(CAKey[k])
    /\ pairs' = pairs + 1
    /\ caPairs' = caPairs \cup {pairs'}
    /\ op' = [writes |-> CreateCAWrites(k, pairs'), load |-> k]
    /\ UNCHANGED <<file, ws, cut, relay>>

\* The kind whose files openCAPaths settles on; a relay CA may be the legacy one
openCAPaths(k) ==
    {j \in {k, "agent"} : /\ fileExists(CACert[j]) /\ fileExists(CAKey[j])
                          /\ j = k \/ ~(fileExists(CACert[k]) /\ fileExists(CAKey[k]))}

OpenWorkspace(k) ==
    /\ op = Idle
    /\ \E j \in openCAPaths(k) :
          /\ LoadCA(file, CACert[j], CAKey[j]) # Nothing
          /\ ws' = [ws EXCEPT ![k] = LoadCA(file, CACert[j], CAKey[j])]
    /\ UNCHANGED <<file, op, pairs, caPairs, cut, relay>>

-----------------------------------------------------------------------------
(* Issuing. *)

\* x509.CreateCertificate fails unless the CA's key belongs to its certificate
CanSign(ca) == ca # Nothing /\ ca.cert.pair = ca.key.pair

\* mutant: the URI is not compared
ValidateAgentCSRByName(csr, nodeID) == csr.cn = nodeID

ValidateAgentCSR(csr, nodeID) == csr.cn = nodeID /\ csr.uris = {nodeID}

IssueAgent(csr, nodeID) ==
    /\ op = Idle
    /\ CanSign(ws["agent"])
    /\ ValidateAgentCSR(csr, nodeID)
    /\ op' = [Idle EXCEPT !.writes =
                 << Put(ClientCert(nodeID),
                        Cert(ws["agent"].key.pair, 0, "client", csr.cn, csr.uris)) >>]
    /\ UNCHANGED <<file, ws, pairs, caPairs, cut, relay>>

IssueRelay ==
    /\ op = Idle
    /\ pairs < MaxPairs
    /\ CanSign(ws["relay"])
    /\ pairs' = pairs + 1
    /\ op' = [Idle EXCEPT !.writes =
                 << Put(ServerCert, Cert(ws["relay"].key.pair, pairs', "server", "relay", {})),
                    Put(ServerKey, Key(pairs')) >>]
    /\ UNCHANGED <<file, ws, caPairs, cut, relay>>

-----------------------------------------------------------------------------
(* Exporting: the user names the source files, the manager refuses CA keys. *)

\* mutant: only the CA path is looked at
rejectCAKeyAsCA(paths) == isCAKeyName(paths[3])

rejectCAKey(paths) == \E i \in DOMAIN paths : isCAKeyName(paths[i])

ExportRelay(certPath, keyPath, caPath) ==
    /\ op = Idle
    /\ ~rejectCAKey(<<certPath, keyPath, caPath>>)
    /\ op' = [Idle EXCEPT !.writes = << Copy(certPath, RelayDir("relay.crt")),
                                        Copy(keyPath, RelayDir("relay.key")),
                                        Copy(caPath, RelayDir("agent-ca.crt")) >>]
    /\ UNCHANGED <<file, ws, pairs, caPairs, cut, relay>>

ExportAgent(certPath, caPath, d) ==
    /\ op = Idle
    /\ certPath \notin KeyName
    /\ caPath \notin KeyName
    /\ op' = [Idle EXCEPT !.writes = << Copy(certPath, AgentDirCert(d)), Copy(caPath, AgentDirCA(d)) >>]
    /\ UNCHANGED <<file, ws, pairs, caPairs, cut, relay>>

-----------------------------------------------------------------------------
(* Writing. *)

Source(w) == IF w.from = <<>> THEN w.data ELSE file[w.from]

\* One file is written; after the last one CreateWorkspace loads what it wrote
WriteNext ==
    /\ op.writes # <<>>
    /\ LET w == Head(op.writes)
           rest == Tail(op.writes) IN
       /\ Source(w) # Nothing
       /\ file' = [file EXCEPT ![w.to] = Source(w)]
       /\ op' = IF rest = <<>> THEN Idle ELSE [op EXCEPT !.writes = rest]
       /\ ws' = IF rest = <<>> /\ op.load # "none"
                THEN [ws EXCEPT ![op.load] = LoadCA(file', CACert[op.load], CAKey[op.load])]
                ELSE ws
    /\ UNCHANGED <<pairs, caPairs, cut, relay>>

\* copyFile finds no source file: the operation returns the error
CopyFails ==
    /\ op.writes # <<>>
    /\ Source(Head(op.writes)) = Nothing
    /\ op' = Idle
    /\ UNCHANGED <<file, ws, pairs, caPairs, cut, relay>>

\* A write fails, or the manager ends, before it or in the middle of it
Interrupt(ended) ==
    /\ op.writes # <<>>
    /\ cut < MaxInterrupts
    /\ cut' = cut + 1
    /\ op' = Idle
    /\ \E left \in {file[Head(op.writes).to], Torn} :
          file' = [file EXCEPT ![Head(op.writes).to] = left]
    /\ ws' = IF ended THEN [k \in Kind |-> Nothing] ELSE ws
    /\ UNCHANGED <<pairs, caPairs, relay>>

-----------------------------------------------------------------------------
(* The relay reads its files once, at its start. *)

NewWSSServer ==
    /\ relay = Nothing
    /\ file[RelayDir("agent-ca.crt")].is = "cert"
    /\ file[RelayDir("relay.crt")].is = "cert"
    /\ file[RelayDir("relay.key")].is = "key"
    /\ file[RelayDir("relay.crt")].pair = file[RelayDir("relay.key")].pair
    /\ relay' = file[RelayDir("agent-ca.crt")]
    /\ UNCHANGED <<file, ws, op, pairs, caPairs, cut>>

RelayStops ==
    /\ relay # Nothing
    /\ relay' = Nothing
    /\ UNCHANGED <<file, ws, op, pairs, caPairs, cut>>

certIdentityMatches(c, n) == (c.uris = {} \/ n \in c.uris) /\ c.cn = n

\* The relay accepts hello of node n on a connection with certificate c
Accepts(c, n) ==
    /\ relay.use = "ca" /\ c.by = relay.pair /\ c.use = "client"
    /\ certIdentityMatches(c, n)

-----------------------------------------------------------------------------
\* The files a user may point an export at; a CSR comes from GenerateCSR or any other tool
CAFile == {CACert[k] : k \in Kind} \cup {CAKey[k] : k \in Kind}
CSR == [cn : Node, uris : SUBSET Node]

Next ==
    \/ \E k \in Kind : CreateWorkspace(k) \/ OpenWorkspace(k)
    \/ \E csr \in CSR, n \in Node : IssueAgent(csr, n)
    \/ IssueRelay
    \/ \E cert \in KeyName \cup {ServerCert}, key \in KeyName, ca \in CAFile : ExportRelay(cert, key, ca)
    \/ \E cert \in KeyName \cup {ClientCert(n) : n \in Node}, ca \in CAFile, d \in Dest :
          ExportAgent(cert, ca, d)
    \/ WriteNext
    \/ CopyFails
    \/ \E ended \in BOOLEAN : Interrupt(ended)
    \/ NewWSSServer
    \/ RelayStops

Spec == Init /\ [][Next]_vars

-----------------------------------------------------------------------------
(* Properties. *)

CACerts == {Cert(i, i, "ca", "ca", {}) : i \in 1..MaxPairs}
RelayCerts == {Cert(i, j, "server", "relay", {}) : i, j \in 1..MaxPairs}
AgentCerts == {Cert(i, 0, "client", n, {n}) : i \in 1..MaxPairs, n \in Node}
Content == {Nothing, Torn} \cup {Key(i) : i \in 1..MaxPairs} \cup CACerts \cup RelayCerts \cup AgentCerts

\* Every file holds nothing, half a file, a key or a certificate the manager issued (an agent
\* certificate names its node both as CN and as its only URI), and pairs stay within the bound.
TypeOK ==
    /\ \A p \in Path : file[p] \in Content
    /\ pairs \in 0..MaxPairs /\ caPairs \subseteq 1..pairs
    /\ relay \in Content
    /\ \A k \in Kind : ws[k] = Nothing \/ ws[k].is = "ca"

\* A CA key that is completely on disk is the key of the CA certificate beside it, whatever write
\* of an earlier attempt failed: CreateWorkspace writes the certificate first and the key last.
CAPairMatches ==
    \A k \in Kind : file[CAKey[k]].is = "key" =>
        /\ file[CACert[k]].is = "cert"
        /\ file[CACert[k]].pair = file[CAKey[k]].pair

\* The CA held open in memory is the one on disk, also after later operations and failed writes, so
\* that what it signs is trusted by whoever is given the file; a relay CA may be the legacy agent CA.
OpenIsOnDisk ==
    \A k \in Kind : ws[k] # Nothing =>
        \E j \in {k, "agent"} : file[CACert[j]] = ws[k].cert /\ file[CAKey[j]] = ws[k].key

\* No file that is deployed on a relay or an agent host holds a CA key.
CAKeyStays == \A p \in Deployed : file[p].is = "key" => file[p].pair \notin caPairs

\* A relay that trusts the workspace's agent CA accepts every agent certificate that was deployed
\* at any time, and for exactly the node it was issued for.
DeployedAgentIsAccepted ==
    (relay # Nothing /\ relay = file[CACert["agent"]] /\ file[CAKey["agent"]].is = "key") =>
        \A d \in Dest : LET c == file[AgentDirCert(d)] IN
            (c.is = "cert" /\ c.use = "client") => {m \in Node : Accepts(c, m)} = {c.cn}
=============================================================================
