-------------------------- MODULE MCSecretContents --------------------------
(***************************************************************************)
(* A small instance of SecretContents: every profile, overrides of each    *)
(* kind, two client secrets, a certificate, and other managers' keys.      *)
(***************************************************************************)
EXTENDS SecretContents

MCKeyOrder ==
    <<"ENABLE_OAUTH_SIGNUP", "GF_AUTH_GENERIC_OAUTH_ALLOW_ASSIGN_GRAFANA_ADMIN",
      "GF_AUTH_GENERIC_OAUTH_ALLOW_SIGN_UP", "GF_AUTH_GENERIC_OAUTH_API_URL",
      "GF_AUTH_GENERIC_OAUTH_AUTH_URL", "GF_AUTH_GENERIC_OAUTH_CLIENT_ID",
      "GF_AUTH_GENERIC_OAUTH_CLIENT_SECRET",
      "GF_AUTH_GENERIC_OAUTH_EMAIL_ATTRIBUTE_PATH", "GF_AUTH_GENERIC_OAUTH_ENABLED",
      "GF_AUTH_GENERIC_OAUTH_LOGIN_ATTRIBUTE_PATH", "GF_AUTH_GENERIC_OAUTH_NAME",
      "GF_AUTH_GENERIC_OAUTH_NAME_ATTRIBUTE_PATH", "GF_AUTH_GENERIC_OAUTH_SCOPES",
      "GF_AUTH_GENERIC_OAUTH_TOKEN_URL", "GF_AUTH_GENERIC_OAUTH_USE_PKCE",
      "GF_AUTH_OAUTH_AUTO_LOGIN", "GF_AUTH_SIGNOUT_REDIRECT_URL",
      "GF_SERVER_ROOT_URL", "OAUTH_CLIENT_ID", "OAUTH_CLIENT_SECRET",
      "OAUTH_PROVIDER_NAME", "OAUTH_SCOPES", "OPENID_PROVIDER_URL",
      "authorizeUrl", "authorize_url", "caData", "caFingerprint", "clientId",
      "clientSecret", "client_id", "client_secret", "dex.authentik.clientSecret",
      "issuer", "issuerUrl", "redirect_uri", "saml.crt", "saml.fingerprint", "scope",
      "scopes", "server.secretkey", "service_conf_yaml", "tokenUrl", "token_url",
      "userinfoUrl", "userinfo_url", "x", "y">>

Plain(value) == [raw |-> value, field |-> ""]
Template(f) == [raw |-> Line("{{." \o f \o "}}"), field |-> f]

MCSpec(profile, overrides) ==
    [profile |-> profile, slug |-> "app", overrides |-> overrides]

\* The last three generic ones nearly hash alike: lines of x look like keys of their
\* own, but for the "=" or the name.
MCSpecs ==
    {MCSpec("grafana", <<>>), MCSpec("openwebui", <<>>), MCSpec("harbor", <<>>),
     MCSpec("argocd", [caData |-> Plain(Line("ours"))]),
     MCSpec("ragflow", [redirect_uri |-> Template("ClientID")]),
     MCSpec("generic", [scopes |-> Plain(Line("openid")),
                        x |-> Template("ClientSecret"), y |-> Template("Nope")]),
     MCSpec("generic", [x |-> Plain(<<<<"1">>, <<"y">>>>)]),
     MCSpec("generic", [x |-> Plain(<<<<"1">>, <<"z", "2">>>>)]),
     MCSpec("generic", [x |-> Plain(Line("1")), y |-> Plain(Line("2"))])}

MCCertificate ==
    [pem |-> <<<<"-----BEGIN CERTIFICATE-----">>, <<"MIIc", "">>,
               <<"-----END CERTIFICATE-----">>>>,
     fingerprint |-> Line("AB:CD")]

URI == [origin |-> "https://grafana", path |-> "/login"]
MCProvider(clientSecret, form, uris, cert) ==
    [clientID |-> Line("id"), clientSecret |-> Line(clientSecret),
     redirectURIs |-> [form |-> form, uris |-> uris], cert |-> cert]

\* Both client secrets, with and without a certificate and a root URL.
MCProviders ==
    {MCProvider("old", "objects", <<EmptyURI, URI>>, MCCertificate),
     MCProvider("new", "objects", <<EmptyURI, URI>>, None),
     MCProvider("old", "strings", <<[origin |-> "", path |-> "grafana"]>>, None),
     MCProvider("new", "other", <<>>, MCCertificate)}

\* The value one of the specs has for key y: that key can come to be shared.
MCOthersValue == Line("2")
MCOthersKeys == {"server.secretkey", "clientSecret", "y"}

\* A line break followed by "y=2" in the value of x would hash like y's own line.
ASSUME MCAssumption == Legible /\ SecretsApart
=============================================================================
