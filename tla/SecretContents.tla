--------------------------- MODULE SecretContents ---------------------------
(***************************************************************************)
(* One OIDCClient's target Secret, key by key: what profile, overrides,    *)
(* provider and certificate put there, what the hash of it decides, and    *)
(* what server-side apply does to keys of other managers (Argo CD in       *)
(* argocd-secret, a user with kubectl).  A reconciliation that writes is   *)
(* two steps, the apply and the status update that records the hash of     *)
(* what was applied, if it is not refused or lost; what a reconciliation   *)
(* reads, it reads with the apply, and its other calls are module          *)
(* Reconciler's.                                                           *)
(***************************************************************************)
EXTENDS Profiles

CONSTANTS
    Specs,              \* [profile, slug, overrides] users may choose
    Providers,          \* provider contents Authentik may hold
    OthersKeys,         \* keys other managers may write
    OthersValue,        \* what they write
    MaxInterventions    \* bound: their writes

Keys == ToSet(KeyOrder)
Operator == "authentik-operator"
Others == "others"

\* What a reconciliation builds of a spec, a provider and the certificate it got.
BuiltOf(s, p, cert) ==
    ApplyWithCert(s.profile, BuildOIDCData(s.slug, p), s.overrides, cert)

ASSUME ContentsAssumption ==
    /\ MaxInterventions \in Nat
    /\ OthersKeys \subseteq Keys
    /\ "redirect_uri" \notin OthersKeys

\* KeyOrder has every key once, profiles are those of the CRD's enum, and values are
\* texts.
ASSUME InputsAssumption ==
    /\ KeyOrder \in Seq(STRING) /\ IsInjective(KeyOrder)
    /\ \A s \in Specs :
          /\ s.profile \in {"grafana", "openwebui", "argocd", "ragflow", "harbor",
                            "generic"}
          /\ \A k \in DOMAIN s.overrides : s.overrides[k].raw \in Texts
    /\ \A p \in Providers :
          /\ p.clientID \in Texts /\ p.clientSecret \in Texts
          /\ p.cert # None => p.cert.pem \in Texts /\ p.cert.fingerprint \in Texts
    /\ \A s \in Specs, p \in Providers : \A cert \in {None, p.cert} :
          DOMAIN BuiltOf(s, p, cert) \subseteq Keys

VARIABLES
    spec,           \* profile and overrides
    provider,       \* what Authentik holds, the certificate included
    secret,         \* key -> value and the managers that own the key
    applied,        \* the hash of the data last applied ...
    recording,      \* ... and whether a worker is about to record it
    hash,           \* status.secretHash
    interventions   \* writes of other managers so far

vars == <<spec, provider, secret, applied, recording, hash, interventions>>

Built(cert) == BuiltOf(spec, provider, cert)

Owns(manager, k) == k \in DOMAIN secret /\ manager \in secret[k].owners

\* Mutations of ServerSideApply: an update of the whole object, as for the
\* ConfigMap, and a merge patch, which removes nothing.
Replace(data) == [k \in DOMAIN data |-> [value |-> data[k], owners |-> {Operator}]]
MergePatch(data) == Copy(secret, Replace(data))

\* Apply with ForceOwnership: the keys applied are the operator's, shared with a
\* manager that had the same value; keys it no longer applies go, unless somebody
\* else owns them too.
ServerSideApply(data) ==
    LET kept == {k \in DOMAIN secret : secret[k].owners # {Operator}}
    IN  [k \in DOMAIN data \cup kept |->
            IF k \notin DOMAIN data
            THEN [value |-> secret[k].value, owners |-> secret[k].owners \ {Operator}]
            ELSE [value |-> data[k],
                  owners |-> {Operator} \cup
                     IF k \in DOMAIN secret /\ secret[k].value = data[k]
                     THEN secret[k].owners ELSE {}]]

Init == /\ spec \in Specs
        /\ provider \in Providers
        /\ secret = <<>>
        /\ applied = <<>> /\ recording = FALSE
        /\ hash = <<>>
        /\ interventions = 0

\* Steps 2 to 5 of Reconcile: nothing is written when the hash is the recorded one.
ApplySecret(cert) ==
    LET data == Built(cert) IN
    /\ ~recording
    /\ ComputeSecretHash(data) # hash
    /\ secret' = ServerSideApply(data)
    /\ applied' = ComputeSecretHash(data)
    /\ recording' = TRUE
    /\ UNCHANGED <<spec, provider, hash, interventions>>

\* Step 8: the status update records the hash ...
RecordStatus ==
    /\ recording
    /\ hash' = applied
    /\ recording' = FALSE
    /\ UNCHANGED <<spec, provider, secret, applied, interventions>>

\* ... or it fails, the apply did not answer, or the operator died before it.
RecordFails ==
    /\ recording
    /\ recording' = FALSE
    /\ UNCHANGED <<spec, provider, secret, applied, hash, interventions>>

\* The status update of a reconciliation under way will conflict with the edit.
Edit(s) == /\ s # spec
           /\ spec' = s
           /\ recording' = FALSE
           /\ UNCHANGED <<provider, secret, applied, hash, interventions>>

Rotate(p) == /\ provider' = p
             /\ UNCHANGED <<spec, secret, applied, recording, hash, interventions>>

\* Another manager updates a key, new or the operator's: the key is its own then.
Update(k) ==
    /\ interventions < MaxInterventions
    /\ k \in DOMAIN secret => secret[k].value # OthersValue
    /\ interventions' = interventions + 1
    /\ secret' = Copy(secret, [l \in {k} |-> [value |-> OthersValue, owners |-> {Others}]])
    /\ UNCHANGED <<spec, provider, applied, recording, hash>>

Next == \/ ApplySecret(provider.cert)
        \/ ApplySecret(None)        \* also when the certificate's fetch failed
        \/ RecordStatus \/ RecordFails
        \/ \E s \in Specs : Edit(s)
        \/ \E p \in Providers : Rotate(p)
        \/ \E k \in OthersKeys : Update(k)

Spec == Init /\ [][Next]_vars

-----------------------------------------------------------------------------
(* Properties *)

Wanted == Built(provider.cert)

\* A later line of a value that reads as the assignment of another key.
Ambiguous(value) ==
    \E i \in 2..Len(value) : Len(value[i]) > 1 /\ value[i][1] \in Keys

\* ComputeSecretHash does not escape line breaks in values: two Secrets with the same
\* text are one to it.  The properties below are about values it can tell apart.
Legible ==
    \A s \in Specs, p \in Providers : \A cert \in {None, p.cert} :
        \A k \in DOMAIN BuiltOf(s, p, cert) : ~Ambiguous(BuiltOf(s, p, cert)[k])

\* The next reconciliation will write nothing, and the last apply was recorded: one
\* that was not may be hidden by a return to the data of the recorded hash, see
\* ReconcilerProps!EventuallyUpdated.
Settled == hash = ComputeSecretHash(Wanted) /\ hash = applied

\* The hash shortcut (157-159) is sound key by key, through rotations, changes of
\* profile, lost certificates and lost status updates before: what the operator owns
\* is what it would write now, nothing is left of earlier profiles or of an apply that
\* was never recorded, and nothing is missing.
SettledIsWanted ==
    Settled =>
        /\ \A k \in DOMAIN secret : Owns(Operator, k) =>
              k \in DOMAIN Wanted /\ secret[k].value = Wanted[k]
        /\ DOMAIN Wanted \subseteq DOMAIN secret

\* docs/profiles/index.md: overrides "take precedence over any profile-generated
\* value"; redirect_uri is for the ragflow template only, and the certificate's keys
\* come last.
OverridesPrevail ==
    Settled =>
        /\ ~Owns(Operator, "redirect_uri")
        /\ \A k \in DOMAIN spec.overrides
                    \ ({"redirect_uri"} \cup
                       DOMAIN CertificateData(spec.profile, provider.cert)) :
              Owns(Operator, k) =>
                 secret[k].value = Rendered(spec.overrides[k],
                                            BuildOIDCData(spec.slug, provider))

\* The lines by which a profile or a template can show a client secret.
Shows(clientSecret) ==
    ToSet(clientSecret) \cup ToSet(Labelled("client_secret: ", clientSecret))

\* No client secret reads like something that is written for another reason: what is
\* made with one shows no other.
SecretsApart ==
    \A s \in Specs, p, q \in Providers : p.clientSecret # q.clientSecret =>
        \A k \in DOMAIN BuiltOf(s, q, q.cert) :
            ToSet(BuiltOf(s, q, q.cert)[k]) \cap Shows(p.clientSecret) = {}

\* After a rotation no key of the operator shows a superseded client secret, in the
\* key of an earlier profile, in a rendered override or inside ragflow's YAML.
RotatedOut ==
    Settled =>
        \A p \in Providers : p.clientSecret # provider.clientSecret =>
            \A k \in DOMAIN secret : Owns(Operator, k) =>
                ToSet(secret[k].value) \cap Shows(p.clientSecret) = {}

\* argocd.md: the operator merges its keys into a Secret others use "without
\* disturbing existing keys": one it neither owns nor asks for stays as it is.
OthersUndisturbed ==
    [][interventions' = interventions =>
          \A k \in DOMAIN secret :
              ~Owns(Operator, k) /\ k \notin DOMAIN Wanted
                  => k \in DOMAIN secret' /\ secret'[k] = secret[k]]_vars
=============================================================================
