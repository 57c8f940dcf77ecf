------------------------------ MODULE ConfigRules ------------------------------
(***************************************************************************)
(* What a list of cameras has to satisfy, and what is made of it:          *)
(*   internal/setup/draft.go    the wizard's checks and the MAC allocation *)
(*   internal/config            what Load accepts of config.yaml           *)
(*   internal/onvif, mediamtx   the two generated files                    *)
(*   internal/setup/deploy.go   the bindings of docker-compose.yml         *)
(*                                                                         *)
(* An address is a record of the address proper and its spelling, as the   *)
(* rules compare now the one, now the other.  A path is a sequence of the  *)
(* words of a camera's name.  Device ids and names are taken as given; of  *)
(* the Google section the project tells one from another, and the rest is  *)
(* what the checks make of it.  Blanks around a value make no difference.  *)
(***************************************************************************)
EXTENDS Integers, Sequences, SequencesExt

CONSTANTS
    Projects,       \* Google projects
    NoProject,      \* no project id given
    Subs,           \* Pub/Sub subscriptions
    NoSub,          \* no subscription given
    Slug,           \* the words of each camera name, as in Camera.PathName
    MaxMAC,         \* the last index a virtual MAC address has room for
    Placeholder,    \* the host address in the compose file as it is shipped
    Loopback        \* 127.0.0.1

ASSUME MaxMACAssumption == MaxMAC \in Nat \ {0}
ASSUME BindingAssumption == Placeholder # Loopback

\* An address as it is given: not at all, in one of its spellings, or wrongly.
Address ==
    [addr : Nat,
     style : {"none", "upper", "lower", "v4", "mapped", "v6", "malformed"}]

Camera ==
    [name : DOMAIN Slug, selected : BOOLEAN, events : BOOLEAN,
     linger : {"none", "60s", "other", "malformed"}, mac : Address, ip : Address]

\* A Google section.  Without a client it is partial; with a placeholder in it,
\* or no redirect URI, Load takes it but the wizard does not.
Credentials ==
    [project : Projects \cup {NoProject}, rest : {"partial", "loads", "valid"}]

ConfigFile ==
    [google : Credentials, sub : Subs \cup {NoSub}, onvif : BOOLEAN,
     cams : Seq(Camera)]

Named(google) == google.project # NoProject

NoAddress == [addr |-> 0, style |-> "none"]

\* formatMAC: two digits, so that an index beyond MaxMAC is not an address.
FormatMAC(i) == [addr |-> i, style |-> "upper"]

IsMAC(mac) == mac.addr \in 1 .. MaxMAC

CanonicalMAC(mac) == mac.addr

IsIP(ip) == ip.style \in {"v4", "mapped", "v6"}

IsIPv4(ip) == ip.style \in {"v4", "mapped"}

PathName(cam) == Slug[cam.name]

\* The streams the transcoder publishes for a raw path.
Renditions(path) == {Append(path, "hq"), Append(path, "lq")}

\* The n-th member of a set of numbers, from the least on.
Nth(S, n) == CHOOSE i \in S : Cardinality({k \in S : k <= i}) = n

\* The members of s at some of its positions, in their order.
Picked(s, at) == [k \in 1 .. Cardinality(at) |-> s[Nth(at, k)]]

Selected(cams) == Picked(cams, {i \in DOMAIN cams : cams[i].selected})

AnyEvents(cams) == \E cam \in Range(cams) : cam.selected /\ cam.events

\* No two members of s have the same key.
Distinct(s, Key(_)) == \A i, j \in DOMAIN s : Key(s[i]) = Key(s[j]) => i = j

-----------------------------------------------------------------------------
(* The cameras step: finalizeCameras *)

WithMAC(cams) ==
    Picked(cams, {i \in DOMAIN cams : cams[i].selected /\ cams[i].mac # NoAddress})

UsedMACs(cams) == {CanonicalMAC(cam.mac) : cam \in Range(WithMAC(cams))}

\* The positions in cams, up to i, that are to be given an address.
Needy(cams, i) ==
    {k \in 1 .. i : cams[k].selected /\ cams[k].mac = NoAddress}

FreeMACs(cams) == (1 .. MaxMAC + Len(cams)) \ UsedMACs(cams)

\* Mutant of FreeMAC: the search does not look at the chosen addresses.
FreeMACFromStart(cams, n) == n

\* The n-th index that no chosen address uses.
FreeMAC(cams, n) == Nth(FreeMACs(cams), n)

\* The search fails only when it walks over the last index and finds it used;
\* having used that index itself it goes on to one that is not an address.
NoFreeMAC(cams) ==
    /\ MaxMAC \in UsedMACs(cams)
    /\ Cardinality(Needy(cams, Len(cams))) + Cardinality(UsedMACs(cams)) > MaxMAC

Finalizable(cams) ==
    /\ \A cam \in Range(Selected(cams)) : IsIPv4(cam.ip)
    /\ Distinct(Selected(cams), LAMBDA cam : cam.ip)
    /\ \A cam \in Range(WithMAC(cams)) : IsMAC(cam.mac)
    /\ Distinct(WithMAC(cams), LAMBDA cam : CanonicalMAC(cam.mac))
    /\ ~NoFreeMAC(cams)

Finalized(cams) ==
    [i \in DOMAIN cams |->
        IF i \in Needy(cams, Len(cams))
        THEN [cams[i] EXCEPT !.mac =
                 FormatMAC(FreeMAC(cams, Cardinality(Needy(cams, i))))]
        ELSE cams[i]]

-----------------------------------------------------------------------------
(* config.yaml: what the wizard writes and what Load accepts *)

\* What Draft.validate and config.validate both ask of the addresses.
Addressed(cams) ==
    /\ \A cam \in Range(cams) : IsMAC(cam.mac) /\ IsIP(cam.ip)
    /\ Distinct(cams, LAMBDA cam : CanonicalMAC(cam.mac))
    /\ Distinct(cams, LAMBDA cam : cam.ip)

\* Draft.validate: neither the paths nor the linger times are looked at.
ValidDraft(d) ==
    LET cams == Selected(d.cams)
    IN  /\ Named(d.google) /\ d.google.rest = "valid"
        /\ cams # <<>>
        /\ Addressed(cams)
        /\ AnyEvents(cams) => d.sub # NoSub /\ d.hasKey

\* Draft.toFile: the selected cameras, an event camera's linger filled in.
ToFile(d) ==
    [google |-> d.google, sub |-> d.sub, onvif |-> AnyEvents(d.cams),
     cams |-> [i \in DOMAIN Selected(d.cams) |->
                  LET cam == Selected(d.cams)[i]
                  IN  [cam EXCEPT !.linger = CASE ~cam.events -> "none"
                                               [] @ = "none"  -> "60s"
                                               [] OTHER       -> @]]]

\* config.Load of a file that is there.
Loads(cfg) ==
    /\ Named(cfg.google) /\ cfg.google.rest # "partial"
    /\ Addressed(cfg.cams)
    /\ Distinct(cfg.cams, PathName)
    /\ \A cam \in Range(cfg.cams) : cam.linger # "malformed"

\* onvif.Generate, run by RunONVIFConfig: one virtual camera for each camera.
OnvifDoc(cfg) ==
    {[identity |-> CanonicalMAC(cam.mac), streams |-> Renditions(PathName(cam))] :
        cam \in Range(cfg.cams)}

\* mediamtx.Generate: one path for each camera, with the hook that publishes
\* its renditions.
MediaPaths(cfg) == {PathName(cam) : cam \in Range(cfg.cams)}

\* Both generators refuse a file that does not load, or has no camera; that two
\* cameras resolve to one path is refused by Load before Generate can.
Generates(cfg) == Loads(cfg) /\ cfg.cams # <<>>

-----------------------------------------------------------------------------
(* docker-compose.yml: the addresses one port is bound to, in order *)

Positions(binds, ip) == {i \in DOMAIN binds : binds[i] = ip}

Replaced(binds, host) ==
    [i \in DOMAIN binds |-> IF binds[i] = Placeholder THEN host ELSE binds[i]]

\* Mutant of Repaired: a second host binding is not turned back.
RepairedByInsertion(binds, host) ==
    IF Loopback \in Range(binds) \/ Cardinality(Positions(binds, host)) # 1
    THEN binds
    ELSE InsertAt(binds, Min(Positions(binds, host)) + 1, Loopback)

\* ensureComposeLoopbackBindings: the second of two host bindings becomes the
\* loopback binding; of one, a loopback binding is added behind it.
Repaired(binds, host) ==
    LET at == Positions(binds, host)
    IN  IF Loopback \in Range(binds) \/ at = {} THEN binds
        ELSE IF Cardinality(at) = 1
             THEN InsertAt(binds, Min(at) + 1, Loopback)
             ELSE [binds EXCEPT ![Min(at \ {Min(at)})] = Loopback]

\* patchComposeHostIP finds something to patch, and the result has the loopback
\* binding of every port that is bound at all.
Patchable(binds, host) ==
    /\ {Placeholder, host} \cap Range(binds) # {}
    /\ Loopback \in Range(Repaired(Replaced(binds, host), host))

Patched(binds, host) == Repaired(Replaced(binds, host), host)
=============================================================================
