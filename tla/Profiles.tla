------------------------------ MODULE Profiles ------------------------------
(***************************************************************************)
(* What the data of a target Secret is computed from: OIDC data of a       *)
(* provider, the profile's table of keys, overrides and the signing        *)
(* certificate (internal/profiles), and the text its hash is taken of      *)
(* (internal/hash).                                                        *)
(*                                                                         *)
(* A value is a sequence of lines, and a line the sequence of the strings  *)
(* between its "=" signs: all that decides whether two hashed texts are    *)
(* equal.  Secret data is a function from keys to values.  URLs lack the   *)
(* base URL, which never changes.                                          *)
(***************************************************************************)
EXTENDS SequencesExt, Naturals

CONSTANTS
    KeyOrder,   \* every key a Secret may have, sorted as sort.Strings does
    None        \* no certificate

\* maps.Copy: src's entries are added to dst's or replace them.
Copy(dst, src) ==
    [k \in DOMAIN dst \cup DOMAIN src |-> IF k \in DOMAIN src THEN src[k] ELSE dst[k]]

\* The values: one line or more, each of one string or more.
Texts == Seq(Seq(STRING) \ {<<>>}) \ {<<>>}

Line(text) == <<<<text>>>>
Labelled(label, value) == [value EXCEPT ![1][1] = label \o @]

-----------------------------------------------------------------------------
(* OIDC data *)

\* A redirect URI is cut where its path begins; the origin of one without "://"
\* is empty.
EmptyURI == [origin |-> "", path |-> ""]

\* Objects of which some have no "url", plain strings, or something else.
ParseRedirectURIs(raw) ==
    CASE raw.form = "objects" -> SelectSeq(raw.uris, LAMBDA u : u # EmptyURI)
      [] raw.form = "strings" -> raw.uris
      [] raw.form = "other"   -> <<>>

BuildOIDCData(slug, provider) ==
    [ClientID     |-> provider.clientID,
     ClientSecret |-> provider.clientSecret,
     AuthorizeURL |-> Line("/application/o/authorize/"),
     TokenURL     |-> Line("/application/o/token/"),
     UserinfoURL  |-> Line("/application/o/userinfo/"),
     IssuerURL    |-> Line("/application/o/" \o slug \o "/"),
     LogoutURL    |-> Line("/application/o/" \o slug \o "/end-session/"),
     Scopes       |-> Line("openid email profile"),
     RedirectURIs |-> ParseRedirectURIs(provider.redirectURIs)]

HasAppRootURL(d) == d.RedirectURIs # <<>> /\ d.RedirectURIs[1].origin # ""
AppRootURL(d) == Line(d.RedirectURIs[1].origin \o "/")

-----------------------------------------------------------------------------
(* Profiles *)

Grafana(d) ==
    Copy(
    [GF_AUTH_GENERIC_OAUTH_ENABLED                    |-> Line("true"),
     GF_AUTH_GENERIC_OAUTH_NAME                       |-> Line("authentik"),
     GF_AUTH_GENERIC_OAUTH_CLIENT_ID                  |-> d.ClientID,
     GF_AUTH_GENERIC_OAUTH_CLIENT_SECRET              |-> d.ClientSecret,
     GF_AUTH_GENERIC_OAUTH_AUTH_URL                   |-> d.AuthorizeURL,
     GF_AUTH_GENERIC_OAUTH_TOKEN_URL                  |-> d.TokenURL,
     GF_AUTH_GENERIC_OAUTH_API_URL                    |-> Line("/application/o/userinfo"),
     GF_AUTH_GENERIC_OAUTH_SCOPES                     |-> d.Scopes,
     GF_AUTH_SIGNOUT_REDIRECT_URL                     |-> d.LogoutURL,
     GF_AUTH_OAUTH_AUTO_LOGIN                         |-> Line("true"),
     GF_AUTH_GENERIC_OAUTH_ALLOW_ASSIGN_GRAFANA_ADMIN |-> Line("true"),
     GF_AUTH_GENERIC_OAUTH_ALLOW_SIGN_UP              |-> Line("true"),
     GF_AUTH_GENERIC_OAUTH_EMAIL_ATTRIBUTE_PATH       |-> Line("email"),
     GF_AUTH_GENERIC_OAUTH_NAME_ATTRIBUTE_PATH        |-> Line("name"),
     GF_AUTH_GENERIC_OAUTH_LOGIN_ATTRIBUTE_PATH       |-> Line("preferred_username"),
     GF_AUTH_GENERIC_OAUTH_USE_PKCE                   |-> Line("true")],
    IF HasAppRootURL(d) THEN [GF_SERVER_ROOT_URL |-> AppRootURL(d)] ELSE <<>>)

OpenWebUI(d) ==
    [ENABLE_OAUTH_SIGNUP |-> Line("true"),
     OAUTH_PROVIDER_NAME |-> Line("authentik"),
     OAUTH_CLIENT_ID     |-> d.ClientID,
     OAUTH_CLIENT_SECRET |-> d.ClientSecret,
     OPENID_PROVIDER_URL |-> d.IssuerURL,
     OAUTH_SCOPES        |-> d.Scopes]

ArgoCD(d) ==
    Copy([k \in {"dex.authentik.clientSecret"} |-> d.ClientSecret],
         [clientId |-> d.ClientID, issuerUrl |-> d.IssuerURL])

\* The YAML takes redirect_uri from the overrides as it stands, templates too.
ServiceConfYAML(d, redirectURI) ==
    Line("oauth:")
    \o Labelled("client_id: ", d.ClientID)
    \o Labelled("client_secret: ", d.ClientSecret)
    \o Labelled("issuer: ", d.IssuerURL)
    \o Labelled("scope: ", d.Scopes)
    \o Labelled("redirect_uri: ", redirectURI)

RAGFlow(d, overrides) ==
    [client_id         |-> d.ClientID,
     client_secret     |-> d.ClientSecret,
     issuer            |-> d.IssuerURL,
     scope             |-> d.Scopes,
     service_conf_yaml |->
         ServiceConfYAML(d, IF "redirect_uri" \in DOMAIN overrides
                            THEN overrides["redirect_uri"].raw ELSE Line(""))]

Harbor(d) ==
    [client_id     |-> d.ClientID,
     client_secret |-> d.ClientSecret,
     issuer        |-> d.IssuerURL,
     scopes        |-> d.Scopes,
     authorize_url |-> d.AuthorizeURL,
     token_url     |-> d.TokenURL,
     userinfo_url  |-> d.UserinfoURL]

Generic(d) ==
    [clientId     |-> d.ClientID,
     clientSecret |-> d.ClientSecret,
     authorizeUrl |-> d.AuthorizeURL,
     tokenUrl     |-> d.TokenURL,
     userinfoUrl  |-> d.UserinfoURL,
     issuerUrl    |-> d.IssuerURL,
     scopes       |-> d.Scopes]

FromProfile(profile, d, overrides) ==
    CASE profile = "grafana"   -> Grafana(d)
      [] profile = "openwebui" -> OpenWebUI(d)
      [] profile = "argocd"    -> ArgoCD(d)
      [] profile = "ragflow"   -> RAGFlow(d, overrides)
      [] profile = "harbor"    -> Harbor(d)
      [] profile = "generic"   -> Generic(d)

-----------------------------------------------------------------------------
(* Overrides and certificate *)

\* An override is its raw text, and the OIDCData field its template names, if it
\* is one; a template that cannot be rendered stays as it is.
Rendered(override, d) ==
    IF override.field \in DOMAIN d \ {"RedirectURIs"} THEN d[override.field]
    ELSE override.raw

ResolveOverrides(overrides, d) ==
    [k \in DOMAIN overrides |-> Rendered(overrides[k], d)]

\* Mutation of Apply: the profile is merged over the overrides.
ApplyProfileLast(profile, d, overrides) ==
    LET result == Copy(ResolveOverrides(overrides, d),
                       FromProfile(profile, d, overrides))
    IN  Restrict(result, DOMAIN result \ {"redirect_uri"})

Apply(profile, d, overrides) ==
    LET result == Copy(FromProfile(profile, d, overrides),
                       ResolveOverrides(overrides, d))
    IN  Restrict(result, DOMAIN result \ {"redirect_uri"})

\* Standard base64 of a value: one line, different for different values.
Base64(value) ==
    Line(FoldLeft(LAMBDA text, part : text \o part \o "/", "", FlattenSeq(value)))

CertificateData(profile, cert) ==
    IF cert = None THEN <<>>
    ELSE IF profile = "argocd"
    THEN [caData |-> Base64(cert.pem), caFingerprint |-> cert.fingerprint]
    ELSE [k \in {"saml.crt", "saml.fingerprint"} |->
             IF k = "saml.crt" THEN cert.pem ELSE cert.fingerprint]

ApplyWithCert(profile, d, overrides, cert) ==
    Copy(Apply(profile, d, overrides), CertificateData(profile, cert))

-----------------------------------------------------------------------------
(* Hash *)

\* The lines of one key: key=value and a newline, the value as it is.
Block(data, k) ==
    IF k \in DOMAIN data THEN [data[k] EXCEPT ![1] = <<k>> \o @] ELSE <<>>

\* Mutation of HashedText: only the keys are hashed.
HashedTextOfKeys(data) == SelectSeq(KeyOrder, LAMBDA k : k \in DOMAIN data)

\* The text ComputeSecretHash hashes, key after key.
HashedText(data) == FlattenSeq([i \in DOMAIN KeyOrder |-> Block(data, KeyOrder[i])])

\* SHA-256 is taken to be injective; no hash is the empty string.
ComputeSecretHash(data) == <<"sha256:", HashedText(data)>>
=============================================================================
