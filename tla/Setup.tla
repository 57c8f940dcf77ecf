--------------------------------- MODULE Setup ---------------------------------
(***************************************************************************)
(* The setup wizard (internal/setup): the draft in memory, the files it is *)
(* kept in, and the deployment made from it.                               *)
(*                                                                         *)
(* Every HTTP request runs in a goroutine of its own.  Server.mu protects  *)
(* the draft and is held while a file is written from it; a deployment     *)
(* goes on without it, in separate processes that read config.yaml again   *)
(* and again.  The process may end at any point and be started again; a    *)
(* file that os.WriteFile was writing is empty then.                       *)
(*                                                                         *)
(* parent_iface is treated exactly as host_ip and left out, as are the     *)
(* media section, which no request changes, requireReady, the handlers     *)
(* that only read, and tokens.json in the deployment.                      *)
(***************************************************************************)
EXTENDS ConfigRules, Authorization

CONSTANTS
    Requests,       \* requests that may be open at one time
    GoogleInputs,   \* the Google sections a browser may send
    CameraLists,    \* the lists of cameras a browser may send
    Hosts,          \* host addresses
    Detected,       \* the addresses detectHostIP may return
    NoHost,         \* no host address given or found
    Keys,           \* Pub/Sub service-account keys
    Braces,         \* {}, or another body that is not taken for a key at a start
    NoKey,          \* no body, or an empty one
    Absent,         \* there is no such file
    Empty,          \* a file that was cut off while it was written
    Scenarios       \* bound: where a behaviour starts, and what it may see:
                    \* kinds of request, how many with the restarts, whether
                    \* as root, config.yaml and docker-compose.yml, tokens

\* What handlePubSubKey takes.
Uploads == Keys \cup {Braces}

Draft ==
    [google : Credentials, sub : Subs \cup {NoSub}, onvif : BOOLEAN,
     host : Hosts \cup {NoHost}, cams : Seq(Camera),
     key : Uploads \cup {NoKey}, hasKey : BOOLEAN]

\* wizardDraftFile.
DraftFile ==
    [google : Credentials, sub : Subs \cup {NoSub}, onvif : BOOLEAN,
     host : Hosts \cup {NoHost}, cams : Seq(Camera), hasKey : BOOLEAN]

\* No file with contents is taken for one that is cut off or not there.
ASSUME FilesAssumption ==
    /\ Absent # Empty /\ Braces \notin Keys /\ NoKey \notin Uploads /\ NoHost \notin Hosts
    /\ \A file \in {Absent, Empty} :
          /\ file \notin Uploads /\ file \notin Hosts
          /\ file \notin ConfigFile /\ file \notin DraftFile
ASSUME InputsAssumption ==
    /\ GoogleInputs \subseteq Credentials
    /\ CameraLists \subseteq Seq(Camera)
    /\ Detected \subseteq Hosts \cup {NoHost}
\* A behaviour starts from a config.yaml that nest-bridge accepts, if there is
\* one, and a compose file that binds the placeholder or some host.
ASSUME ScenariosAssumption ==
    \A s \in Scenarios :
        /\ s.requests \in Nat /\ s.roots \subseteq BOOLEAN
        /\ s.tokens \subseteq {NoTokens, 0}
        /\ \A cfg \in s.configs \ {Absent} :
              cfg \in ConfigFile /\ cfg.cams # <<>> /\ Addressed(cfg.cams)
        /\ \A binds \in s.composes :
              /\ binds \in Seq(Hosts \cup {Placeholder, Loopback})
              /\ Range(binds) \cap (Hosts \cup {Placeholder}) # {}

VARIABLES
    offered,        \* bound: the scenario of this behaviour
    left,           \* bound: requests and restarts to come
    root,           \* whether the wizard runs as root
    draft,          \* Server.draft
    mu,             \* the request that holds Server.mu over a write, if any
    request,        \* each request: what it does, and what it took with it
    touched,        \* history: some request has changed the draft since start
    config,         \* config.yaml
    draftFile,      \* setup-draft.yaml
    keyFile,        \* setup-pubsub-sa.json
    deployEnv,      \* deploy/deploy.env
    compose,        \* docker-compose.yml: the bindings of each port
    onvifYml,       \* deploy/onvif.yml
    mediamtxYml,    \* deploy/mediamtx.yml
    deployed,       \* deploy/config/config.yaml
    deployedKey,    \* deploy/config/pubsub-sa.json
    patchedFor,     \* history: the hosts the compose file was patched for
    keyCut          \* history: a key file was cut off

wizardVars == <<draft, mu, request, touched>>
draftVars == <<draftFile, keyFile>>
deployVars == <<compose, onvifYml, mediamtxYml, deployed, deployedKey, patchedFor>>
boundVars == <<offered, left, root>>
setupVars == <<boundVars, wizardVars, config, draftVars, deployEnv, deployVars,
               keyCut>>
vars == <<setupVars, authVars>>

Idle == [pc |-> "idle"]

Whole(file) == file \notin {Absent, Empty}

Goto(r, label) == request' = [request EXCEPT ![r].pc = label]

\* A request of an offered kind begins.
Begins(r, kind) ==
    /\ request[r].pc = "idle"
    /\ kind \in offered.kinds
    /\ left > 0
    /\ left' = left - 1

-----------------------------------------------------------------------------
(* Loading at start *)

NoGoogle == [project |-> NoProject, rest |-> "partial"]

DefaultDraft ==
    [google |-> NoGoogle, sub |-> NoSub, onvif |-> FALSE, host |-> NoHost,
     cams |-> <<>>, key |-> NoKey, hasKey |-> FALSE]

\* loadDraftFromFile; a file that is empty parses as one that says nothing.
FromConfig(cfg) ==
    IF ~Whole(cfg) THEN DefaultDraft
    ELSE [DefaultDraft EXCEPT !.google = cfg.google, !.sub = cfg.sub,
                              !.onvif = cfg.onvif, !.cams = cfg.cams]

\* Mutant of Merged: config.yaml's Google section wins over the draft file's.
MergedConfigFirst(d, w) ==
    [d EXCEPT !.google = IF Named(@) THEN @ ELSE w.google,
              !.sub    = IF w.sub # NoSub \/ w.onvif THEN w.sub ELSE @,
              !.onvif  = IF w.sub # NoSub \/ w.onvif THEN w.onvif ELSE @,
              !.host   = IF w.host # NoHost THEN w.host ELSE @,
              !.cams   = IF w.cams # <<>> THEN w.cams ELSE @]

\* mergeWizardDraft: a section of the draft file that says something replaces
\* the one of config.yaml; the Google section, one that names a project.
Merged(d, w) ==
    [d EXCEPT !.google = IF Named(w.google) THEN w.google ELSE @,
              !.sub    = IF w.sub # NoSub \/ w.onvif THEN w.sub ELSE @,
              !.onvif  = IF w.sub # NoSub \/ w.onvif THEN w.onvif ELSE @,
              !.host   = IF w.host # NoHost THEN w.host ELSE @,
              !.cams   = IF w.cams # <<>> THEN w.cams ELSE @]

\* Mutant of WithKeyFile: the draft file's word is taken for the key.
WithKeyFileBelieved(d, w, kf) ==
    IF ~w.hasKey THEN d
    ELSE [d EXCEPT !.hasKey = TRUE, !.key = IF Whole(kf) THEN kf ELSE NoKey]

\* The key the draft file says there is: it has to be readable.
WithKeyFile(d, w, kf) ==
    IF ~w.hasKey THEN d
    ELSE [d EXCEPT !.hasKey = kf # Absent,
                   !.key    = IF Whole(kf) THEN kf ELSE NoKey]

\* applyDeployEnv: the last deployment's host, if the draft has none.
WithEnv(d, env) ==
    IF d.host = NoHost /\ Whole(env) THEN [d EXCEPT !.host = env] ELSE d

\* loadExistingPubSubKey: without a key, the first of the two files that has
\* a real one.
WithExistingKey(d, kf, dk) ==
    IF (d.hasKey /\ d.key # NoKey) \/ {kf, dk} \cap Keys = {} THEN d
    ELSE [d EXCEPT !.key = IF kf \in Keys THEN kf ELSE dk, !.hasKey = TRUE]

\* loadWizardDraft, of the files as they are now in df and kf.
Loaded(df, kf) ==
    LET d == FromConfig(config)
        w == IF Whole(df) THEN df
             ELSE [google |-> NoGoogle, sub |-> NoSub, onvif |-> FALSE,
                   host |-> NoHost, cams |-> <<>>, hasKey |-> FALSE]
        e == WithExistingKey(
                 WithEnv(WithKeyFile(Merged(d, w), w, kf), deployEnv),
                 kf, deployedKey)
    IN  IF df = Absent THEN e ELSE [e EXCEPT !.onvif = AnyEvents(e.cams)]

\* NewServer also looks for the host's own address, which may not be found.
Starts(df, kf) ==
    \E found \in Detected :
        draft' = [Loaded(df, kf) EXCEPT !.host = IF @ = NoHost THEN found ELSE @]

-----------------------------------------------------------------------------
(* The steps of the wizard: change the draft under mu, then save it *)

\* The draft changes under mu, which is released before persistWizard.
Assign(r, d) ==
    /\ mu = {}
    /\ draft' = d
    /\ touched' = TRUE
    /\ request' = [request EXCEPT ![r] = [pc |-> "persist", draft |-> d]]
    /\ UNCHANGED <<offered, root, mu, config, draftVars, deployEnv, deployVars,
                   keyCut, authVars>>

\* Whatever is sent is taken, also a section without a project or a client.
Google(r) ==
    /\ Begins(r, "google")
    /\ \E google \in GoogleInputs : Assign(r, [draft EXCEPT !.google = google])

\* An address left out is detected, if there is one.
Network(r) ==
    /\ Begins(r, "network")
    /\ \E host \in Hosts \cup Detected : Assign(r, [draft EXCEPT !.host = host])

Events(r) ==
    /\ Begins(r, "events")
    /\ \E sub \in Subs \cup {NoSub}, onvif \in BOOLEAN :
          Assign(r, [draft EXCEPT !.sub = sub, !.onvif = onvif])

Cameras(r) ==
    /\ Begins(r, "cameras")
    /\ \E cams \in CameraLists :
          /\ Finalizable(cams)
          /\ Assign(r, [draft EXCEPT !.cams = Finalized(cams),
                                     !.onvif = AnyEvents(cams)])

\* Any upload that is not empty is taken for a key.
PubSubKey(r) ==
    /\ Begins(r, "key")
    /\ \E key \in Uploads :
          Assign(r, [draft EXCEPT !.key = key, !.hasKey = TRUE])

\* Mutant of ToPersist: the draft as the request left it is saved.
ToPersistOwn(r) == request[r].draft

\* saveWizardDraft of the draft as it is by now, its events switch put right.
ToPersist(r) == [draft EXCEPT !.onvif = AnyEvents(draft.cams)]

DraftBody(d) ==
    [google |-> d.google, sub |-> d.sub, onvif |-> d.onvif, host |-> d.host,
     cams |-> d.cams, hasKey |-> d.hasKey]

\* The key file has mode 0400: only root may open it again for writing.
KeyWritable == root \/ keyFile = Absent

KeyAfter(d) ==
    IF d.key # NoKey THEN IF KeyWritable THEN d.key ELSE keyFile
    ELSE IF d.hasKey THEN keyFile ELSE Absent

\* persistWizard: the draft file, then the key file; an error is reported only.
Persist(r) ==
    LET d == ToPersist(r)
    IN  /\ request[r].pc = "persist"
        /\ mu = {}
        /\ draft' = d
        /\ draftFile' = DraftBody(d)
        /\ keyFile' = KeyAfter(d)
        /\ request' = [request EXCEPT ![r] = Idle]
        /\ UNCHANGED <<boundVars, mu, touched, config, deployEnv, deployVars,
                       keyCut, authVars>>

\* What a process that ends in the middle of persistWizard may leave behind.
CutPersist ==
    IF mu = {} /\ \E r \in Requests : request[r].pc = "persist"
    THEN LET d == [draft EXCEPT !.onvif = AnyEvents(draft.cams)]
         IN  {<<draftFile, keyFile>>, <<Empty, keyFile>>, <<DraftBody(d), keyFile>>}
             \cup IF d.key # NoKey /\ KeyWritable
                  THEN {<<DraftBody(d), Empty>>} ELSE {}
    ELSE {<<draftFile, keyFile>>}

-----------------------------------------------------------------------------
(* Saving and deploying *)

Deploying(r) ==
    request[r].pc \in {"deploy", "onvif", "mediamtx", "compose", "config",
                       "key", "up", "done"}

\* The requests after r has begun to write config.yaml: a deployment r starts,
\* and those under way, are no longer alone.
Overlapped(r) ==
    [q \in Requests |->
        IF q # r /\ Deploying(q) THEN [request[q] EXCEPT !.alone = FALSE]
                                 ELSE request[q]]

\* Mutant of Lock: mu is given up before the file is written.
LockNever(r) == mu = {} /\ mu' = {}

Lock(r) == mu = {} /\ mu' = {r}

\* handleSave and handleDeploy both write config.yaml from a draft that
\* validates, under mu.  A deployment takes along what it needs of the draft.
Write(r, label) ==
    /\ Lock(r)
    /\ ValidDraft(draft)
    /\ config' = Empty
    /\ request' = [Overlapped(r) EXCEPT ![r] =
          [pc |-> label, at |-> "", cfg |-> ToFile(draft), host |-> draft.host,
           onvif |-> draft.onvif, key |-> draft.key,
           settled |-> draft.onvif = AnyEvents(draft.cams),
           alone |-> \A q \in Requests \ {r} : ~Deploying(q)]]
    /\ UNCHANGED <<offered, root, draft, touched, draftVars, deployEnv,
                   deployVars, keyCut, authVars>>

Save(r) == Begins(r, "save") /\ Write(r, "save")
Deploy(r) == Begins(r, "deploy") /\ Write(r, "deploy")

\* config.yaml is written and mu released.  A save is done; a deployment goes
\* on if there are tokens and a host address.
Written(r) ==
    /\ request[r].pc \in {"save", "deploy"}
    /\ config' = request[r].cfg
    /\ mu' = {}
    /\ IF request[r].pc = "deploy" /\ tokens # NoTokens /\ request[r].host # NoHost
       THEN Goto(r, "onvif")
       ELSE request' = [request EXCEPT ![r] = Idle]
    /\ UNCHANGED <<boundVars, draft, touched, draftVars, deployEnv, deployVars,
                   keyCut, authVars>>

\* A step of Deploy succeeds or ends the deployment.
Proceed(r, label, ok) ==
    /\ mu' = mu
    /\ request' = [request EXCEPT ![r] =
                      IF ok THEN [@ EXCEPT !.pc = label]
                      ELSE [@ EXCEPT !.pc = "failed", !.at = request[r].pc]]
    /\ UNCHANGED <<boundVars, draft, touched, config, draftVars, deployEnv,
                   keyCut, authVars>>

\* The generators are processes that load config.yaml as it is now, perhaps
\* in the middle of another request's write.
CanGenerate == Whole(config) /\ Generates(config)

GenerateOnvif(r) ==
    /\ request[r].pc = "onvif"
    /\ onvifYml' = IF CanGenerate THEN OnvifDoc(config) ELSE onvifYml
    /\ Proceed(r, "mediamtx", CanGenerate)
    /\ UNCHANGED <<compose, mediamtxYml, deployed, deployedKey, patchedFor>>

GenerateMediamtx(r) ==
    /\ request[r].pc = "mediamtx"
    /\ mediamtxYml' = IF CanGenerate THEN MediaPaths(config) ELSE mediamtxYml
    /\ Proceed(r, "compose", CanGenerate)
    /\ UNCHANGED <<compose, onvifYml, deployed, deployedKey, patchedFor>>

PatchCompose(r) ==
    LET host == request[r].host
        ok == Patchable(compose, host)
    IN  /\ request[r].pc = "compose"
        /\ compose' = IF ok THEN Patched(compose, host) ELSE compose
        /\ patchedFor' = IF ok THEN patchedFor \cup {host} ELSE patchedFor
        /\ Proceed(r, "config", ok)
        /\ UNCHANGED <<onvifYml, mediamtxYml, deployed, deployedKey>>

\* installCredentials copies config.yaml as it is now.
InstallConfig(r) ==
    /\ request[r].pc = "config"
    /\ deployed' = config
    /\ Proceed(r, "key", TRUE)
    /\ UNCHANGED <<compose, onvifYml, mediamtxYml, deployedKey, patchedFor>>

KeyToInstall(r) ==
    IF request[r].onvif /\ request[r].key # NoKey THEN request[r].key ELSE Braces

\* It writes the key with mode 0400, which only root can do twice.
InstallKey(r) ==
    LET ok == root \/ deployedKey = Absent
    IN  /\ request[r].pc = "key"
        /\ deployedKey' = IF ok THEN KeyToInstall(r) ELSE deployedKey
        /\ Proceed(r, "up", ok)
        /\ UNCHANGED <<compose, onvifYml, mediamtxYml, deployed, patchedFor>>

\* The macvlan script and docker compose, which may fail.
BringUp(r) ==
    /\ request[r].pc = "up"
    /\ \E ok \in BOOLEAN : Proceed(r, "done", ok)
    /\ UNCHANGED deployVars

\* A deployment that went through is remembered, one that did not is reported.
Report(r) ==
    /\ request[r].pc \in {"done", "failed"}
    /\ deployEnv' = IF request[r].pc = "done" THEN request[r].host ELSE deployEnv
    /\ request' = [request EXCEPT ![r] = Idle]
    /\ UNCHANGED <<boundVars, draft, mu, touched, config, draftVars, deployVars,
                   keyCut, authVars>>

-----------------------------------------------------------------------------

\* A file that the deployment writes at label may be cut off.
Cut(label, file, cut) ==
    {file} \cup IF \E r \in Requests : request[r].pc = label THEN {cut} ELSE {}

\* The wizard ends, by Ctrl+C or otherwise, and is started again.
Restart ==
    /\ "restart" \in offered.kinds
    /\ left > 0
    /\ left' = left - 1
    /\ \E cut \in CutPersist :
          /\ draftFile' = cut[1]
          /\ keyFile' = cut[2]
          /\ keyCut' = (keyCut \/ (cut[2] = Empty /\ keyFile # Empty))
          /\ Starts(cut[1], cut[2])
    /\ onvifYml' \in Cut("onvif", onvifYml, {})
    /\ mediamtxYml' \in Cut("mediamtx", mediamtxYml, {})
    /\ compose' \in Cut("compose", compose, <<>>)
    /\ deployed' \in Cut("config", deployed, Empty)
    /\ deployedKey' \in Cut("key", deployedKey, Empty)
    /\ deployEnv' \in Cut("done", deployEnv, Empty)
    /\ mu' = {}
    /\ request' = [r \in Requests |-> Idle]
    /\ touched' = FALSE
    /\ AuthForgotten
    /\ UNCHANGED <<offered, root, config, patchedFor>>

Init ==
    /\ offered \in Scenarios
    /\ left = offered.requests
    /\ root \in offered.roots
    /\ mu = {}
    /\ request = [r \in Requests |-> Idle]
    /\ touched = FALSE
    /\ config \in offered.configs
    /\ draftFile = Absent /\ keyFile = Absent /\ deployEnv = Absent
    /\ compose \in offered.composes
    /\ onvifYml = {} /\ mediamtxYml = {}
    /\ deployed = Absent /\ deployedKey = Absent
    /\ patchedFor = Hosts \cap Range(compose)
    /\ keyCut = FALSE
    /\ draft \in {[FromConfig(config) EXCEPT !.host = h] : h \in Detected}
    /\ AuthInit /\ tokens \in offered.tokens

Edit(r) == Google(r) \/ Network(r) \/ Events(r) \/ Cameras(r) \/ PubSubKey(r)

DeployStep(r) ==
    \/ GenerateOnvif(r) \/ GenerateMediamtx(r) \/ PatchCompose(r)
    \/ InstallConfig(r) \/ InstallKey(r) \/ BringUp(r) \/ Report(r)

Next ==
    \/ \E r \in Requests :
          Edit(r) \/ Persist(r) \/ Save(r) \/ Deploy(r) \/ Written(r) \/ DeployStep(r)
    \/ Restart
    \/ "authorize" \in offered.kinds /\ AuthNext /\ UNCHANGED setupVars

Spec == Init /\ [][Next]_vars

FairSpec == Spec /\ AuthFairness

-----------------------------------------------------------------------------
(* Properties *)

\* The types of the variables; mu is held by a request that writes config.yaml,
\* and the cameras of the draft have distinct addresses, given and chosen ones
\* alike (draft.go:482-501).
TypeOK ==
    /\ AuthTypeOK
    /\ offered \in Scenarios /\ left \in 0 .. offered.requests
    /\ mu \subseteq Requests
    /\ \A r \in Requests :
          \/ request[r].pc \in {"idle", "persist"}
          \/ (request[r].pc \in {"save", "deploy"}) = (r \in mu)
    /\ Distinct(WithMAC(draft.cams), LAMBDA cam : CanonicalMAC(cam.mac))
    /\ draft.host \in Hosts \cup {NoHost} /\ draft.key \in Uploads \cup {NoKey}
    /\ draft.key # NoKey => draft.hasKey
    /\ {keyFile, deployedKey} \subseteq Uploads \cup {Absent, Empty}
    /\ deployEnv \in Hosts \cup {Absent, Empty}
    /\ Whole(config) => config.cams # <<>> /\ Addressed(config.cams)

\* Once every request that changed the draft has been answered, the draft is on
\* disk, whichever of them saved last: each saves the draft as it is by then
\* (server.go:191-195), not as it left it.  Only a key that is there already
\* stays what it was, unless the wizard runs as root (draft.go:230).
NothingUnsaved ==
    touched /\ mu = {} /\ (\A r \in Requests : request[r].pc # "persist") =>
        /\ draftFile = DraftBody(draft)
        /\ draft.onvif = AnyEvents(draft.cams)
        /\ draft.key \in {NoKey, keyFile} \/ ~root

\* What a restart brings back of a section that says something.
Kept(d, e) ==
    /\ e.google = d.google \/ ~Named(d.google)
    /\ e.sub = d.sub \/ (d.sub = NoSub /\ ~d.onvif)
    /\ e.host = d.host \/ d.host = NoHost
    /\ e.cams = d.cams \/ d.cams = <<>>
    /\ e.key = d.key \/ d.key = NoKey \/ ~root

\* A wizard that is started again shows what was entered last ("Progress is
\* saved in setup-draft.yaml", docs/SETUP.md:85), out of four files that are
\* written at different times and by a precedence: config.yaml, the draft file
\* over it, deploy.env and the deployed key where nothing else says anything.
\* Which credentials, subscription, host and cameras win is the draft file's to
\* say (draft.go:131-152); a section that was emptied, or a Google section that
\* names no project, comes back as config.yaml or deploy.env has it.
RestartKeeps ==
    [][touched /\ ~touched' /\ (\A r \in Requests : request[r].pc # "persist") =>
          Kept(draft, draft')]_vars

\* A deployment that nothing overlapped leaves three files that fit: each
\* stream of onvif.yml is one that mediamtx.yml publishes, from a path the
\* bridge publishes to ("a mismatch surfaces only as a 404 at adoption time",
\* mediamtx/config.go:14).  A save or a second deployment meanwhile spoils it, as
\* config.yaml is read three times after mu has been released.
StreamsResolve ==
    \A r \in Requests : request[r].pc = "done" /\ request[r].alone =>
        /\ UNION {cam.streams : cam \in onvifYml}
              = UNION {Renditions(path) : path \in mediamtxYml}
        /\ mediamtxYml = MediaPaths(deployed)
        /\ deployed = request[r].cfg

\* A deployment with event cameras has a real key, which validate asks for
\* (draft.go:392), unless it took the draft between the two steps of an events
\* request, or an earlier process ended while it wrote the key file: then the
\* file is there, the wizard believes it, and {} is installed.  Nor does the
\* wizard look at what is uploaded: {} is taken for a key and installed.
KeyInstalled ==
    \A r \in Requests :
        request[r].pc = "done" /\ request[r].alone /\ AnyEvents(request[r].cfg.cams)
            => \/ deployedKey \in Keys
               \/ ~request[r].settled \/ keyCut \/ request[r].key = Braces

\* A deployment that nothing overlapped fails, before the external commands,
\* only on two cameras of one path or a linger that does not parse, which the
\* wizard does not look at; on a compose file that was patched for another
\* address or cut off; or on a key file it may not write again.
FailsForCause ==
    \A r \in Requests : request[r].pc = "failed" /\ request[r].alone =>
        CASE request[r].at \in {"onvif", "mediamtx"} ->
                 \/ ~Distinct(request[r].cfg.cams, PathName)
                 \/ \E cam \in Range(request[r].cfg.cams) : cam.linger = "malformed"
          [] request[r].at = "compose" ->
                 compose = <<>> \/ patchedFor \ {request[r].host} # {}
          [] request[r].at = "key" -> ~root
          [] OTHER -> request[r].at = "up"
=============================================================================
