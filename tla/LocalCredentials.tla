-------------------------- MODULE LocalCredentials --------------------------
(***************************************************************************)
(* Cloud credentials in a user's home directory                            *)
(* (utils/local_credentials.py): what the New Connection dialog is offered *)
(* (discover), and what rclone gets when a connection that refers to them  *)
(* runs (resolve).  Both read the files as they are at that moment.        *)
(*                                                                         *)
(* A home is a record                                                      *)
(*   [credentials, config, rcloneConf, rcloneLegacy, azure, tokens, az]    *)
(* of five files, the state of each cached SSO token, and whether the      *)
(* server has the Azure CLI.  A file is a record with its `kind`, and,     *)
(* when it can be parsed, its sections (of the AWS configuration also the  *)
(* sso-sessions; of the Azure profile the subscriptions).  A section is a  *)
(* function from the keys that have a value to their values.               *)
(***************************************************************************)
EXTENDS FiniteSets

CONSTANTS
    OddNames,    \* names of profiles, remotes and tenants that the patterns refuse
    SpacedNames, \* names with a space, which SSO profiles may not have
    OddValues    \* values of SSO settings with unsupported characters

NoSettings == [k \in {} |-> k]
\* The settings of both; the first wins (TLC's @@, which the provers do not know).
f ++ g     == [k \in DOMAIN f \cup DOMAIN g |-> IF k \in DOMAIN f THEN f[k] ELSE g[k]]

\* The settings under `keys`; the options of `table`, each from the setting it names.
Keep(settings, keys)  == [k \in keys \cap DOMAIN settings |-> settings[k]]
Take(settings, table) ==
    [o \in {p \in DOMAIN table : table[p] \in DOMAIN settings} |-> settings[table[o]]]
Has(settings, keys) == keys \subseteq DOMAIN settings

Result(kind, options) == [is |-> "usable", kind |-> kind, options |-> options]
Unusable(kind)        == [is |-> "unusable", kind |-> kind]
Nothing               == [is |-> "nothing"]

-----------------------------------------------------------------------------
\* Reading as the user

\* What the reader reports of a file: only regular files up to a limit are read.
Entry(file) ==
    CASE file.kind = "absent" -> "missing"
      [] file.kind \in {"forbidden", "not regular", "too large"} -> "error"
      [] OTHER -> "content"

Unparsable(file)  == file.kind = "garbled"
Sections(file)    == IF file.kind = "sections" THEN file.sections ELSE NoSettings
SsoSessions(file) == IF file.kind = "sections" THEN file.sessions ELSE NoSettings
At(f, x)          == IF x \in DOMAIN f THEN f[x] ELSE NoSettings

-----------------------------------------------------------------------------
\* AWS profiles

\* The credentials file wins over the config file for the same key.
Profiles(home) ==
    LET c == Sections(home.credentials)
        f == Sections(home.config)
    IN  [n \in DOMAIN c \cup DOMAIN f |-> At(c, n) ++ At(f, n)]

AwsGarbled(home) == Unparsable(home.credentials) \/ Unparsable(home.config)

HasStatic(s) == Has(s, {"aws_access_key_id", "aws_secret_access_key"})
AwsStatic(s) ==
    Take(s, [access_key_id |-> "aws_access_key_id", secret_access_key |-> "aws_secret_access_key",
             session_token |-> "aws_session_token"])
      ++ Take(s, [session_token |-> "aws_security_token"])

\* The token cache of a profile: by session, or by start URL for legacy profiles.
SsoCachePath(s) ==
    IF "sso_session" \in DOMAIN s THEN s.sso_session
    ELSE IF "sso_start_url" \in DOMAIN s THEN s.sso_start_url ELSE ""

\* The allowlisted settings that go into a config file of Motuz's own.
SsoSettings(s) ==
    Keep(s, {"sso_account_id", "sso_role_name", "region"}
              \cup IF "sso_session" \in DOMAIN s THEN {"sso_session"} ELSE {"sso_start_url", "sso_region"})
SsoSession(s, sessions) ==
    IF "sso_session" \in DOMAIN s
    THEN Keep(At(sessions, s.sso_session), {"sso_start_url", "sso_region", "sso_registration_scopes"})
    ELSE NoSettings
SsoConfigRefused(name, s, sessions) ==
    \/ ~Has(s, {"sso_account_id", "sso_role_name"})
    \/ name \in OddNames \cup SpacedNames
    \/ IF "sso_session" \in DOMAIN s
       THEN \/ ~Has(At(sessions, s.sso_session), {"sso_start_url", "sso_region"})
            \/ s.sso_session \in OddNames \cup SpacedNames
       ELSE ~Has(s, {"sso_start_url", "sso_region"})
    \/ \E f \in {SsoSettings(s), SsoSession(s, sessions)} : \E k \in DOMAIN f : f[k] \in OddValues
AwsSsoConfig(name, s, sessions) == <<name, SsoSettings(s), SsoSession(s, sessions)>>

\* The login of an SSO profile is valid, or can be renewed when it is used.
SsoLogin(home, s) ==
    /\ SsoCachePath(s) \in DOMAIN home.tokens
    /\ home.tokens[SsoCachePath(s)] \in {"valid", "renewable"}

RoleOptions ==
    [role_arn |-> "role_arn", role_session_name |-> "role_session_name", role_external_id |-> "external_id"]

\* A role is assumed with the static keys of its source profile, and of nothing else.
ResolveRole(name, s, all) ==
    IF \/ "mfa_serial" \in DOMAIN s
       \/ "source_profile" \notin DOMAIN s
       \/ s.source_profile \notin DOMAIN all
       \/ ~HasStatic(all[s.source_profile])
       \/ s.source_profile # name /\ "role_arn" \in DOMAIN all[s.source_profile]
    THEN Unusable("role")
    ELSE Result("role", Take(s, RoleOptions) ++ AwsStatic(all[s.source_profile]))

ResolveAwsProfile(name, home) ==
    LET s == Profiles(home)[name]
    IN  CASE name \notin DOMAIN Profiles(home) -> Nothing
          [] "role_arn" \in DOMAIN s -> ResolveRole(name, s, Profiles(home))
          [] HasStatic(s) /\ "role_arn" \notin DOMAIN s -> Result("static", AwsStatic(s))
          [] OTHER ->
               IF DOMAIN s \cap {"sso_session", "sso_start_url", "sso_account_id"} # {}
               THEN IF SsoConfigRefused(name, s, SsoSessions(home.config))
                    THEN Unusable("sso") ELSE Result("sso", NoSettings)
               ELSE IF "credential_process" \in DOMAIN s THEN Unusable("process")
               ELSE IF "web_identity_token_file" \in DOMAIN s THEN Unusable("unsupported")
               ELSE Nothing

-----------------------------------------------------------------------------
\* Remotes of rclone.conf

RcloneS3Options ==
    {"provider", "access_key_id", "secret_access_key", "session_token", "region", "endpoint",
     "role_arn", "storage_class"}
RcloneAzureOptions ==
    {"account", "key", "sas_url", "connection_string", "tenant", "client_id", "client_secret",
     "endpoint", "use_emulator", "access_tier"}

RcloneFile(home) == IF Entry(home.rcloneConf) = "missing" THEN home.rcloneLegacy ELSE home.rcloneConf

Truthy(s, key) == key \in DOMAIN s /\ s[key] = "true"

ClassifyS3(s) ==
    IF Has(s, {"access_key_id", "secret_access_key"})
    THEN Result("keys", Keep(s, RcloneS3Options))
    ELSE Unusable(IF Truthy(s, "env_auth") THEN "env_auth" ELSE "unsupported")

\* Never the identity of the server; with the Azure CLI, never a key next to it.
ClassifyAzure(s, az) ==
    IF Truthy(s, "use_msi") \/ Truthy(s, "env_auth") THEN Unusable("unsupported")
    ELSE IF Truthy(s, "use_az")
    THEN IF ~az \/ "account" \notin DOMAIN s \/ ("tenant" \in DOMAIN s /\ s.tenant \in OddNames)
         THEN Unusable("azure_cli")
         ELSE Result("azure_cli", [use_az |-> "true"] ++ Keep(s, {"account", "tenant", "endpoint", "access_tier"}))
    ELSE IF \/ \E k \in {"connection_string", "sas_url"} : k \in DOMAIN s
            \/ Has(s, {"account", "key"})
            \/ Has(s, {"account", "tenant", "client_id", "client_secret"})
            \/ Truthy(s, "use_emulator")
    THEN Result("stored", Keep(s, RcloneAzureOptions))
    ELSE Unusable("unsupported")

ClassifyRcloneRemote(type, s, az) ==
    IF ~(type \in {"s3", "azureblob"} /\ "type" \in DOMAIN s) THEN Nothing
    ELSE IF s.type # type THEN Nothing
    ELSE IF type = "s3" THEN ClassifyS3(s) ELSE ClassifyAzure(s, az)

-----------------------------------------------------------------------------
\* Azure CLI logins, by tenant

\* One subscription of a managed identity or of another cloud spoils its tenant's login.
Subscriptions(file) ==
    IF file.kind = "sections" THEN {s \in file.subscriptions : s.tenant \notin OddNames} ELSE {}
Logins(file)        == {s.tenant : s \in Subscriptions(file)}
GoodLogins(file)    ==
    {t \in Logins(file) : \A s \in Subscriptions(file) : s.tenant = t => ~s.managed /\ s.public}

-----------------------------------------------------------------------------
\* What the dialog is offered: names, and whether they can be used; never a secret.

Offer(source, name, usable) == [source |-> source, name |-> name, usable |-> usable]

\* The login state of an SSO profile is looked up after its settings.
DiscoverAws(home) ==
    IF AwsGarbled(home) THEN {}
    ELSE {Offer("aws", n,
                /\ ResolveAwsProfile(n, home).is = "usable"
                /\ ResolveAwsProfile(n, home).kind = "sso" => SsoLogin(home, Profiles(home)[n])
                /\ n \notin OddNames) :
            n \in {p \in DOMAIN Profiles(home) : ResolveAwsProfile(p, home).is # "nothing"}}

DiscoverRclone(type, home) ==
    LET remotes == Sections(RcloneFile(home))
        Found(n) == ClassifyRcloneRemote(type, remotes[n], home.az)
    IN  {Offer("rclone", n, Found(n).is = "usable" /\ n \notin OddNames) :
           n \in {r \in DOMAIN remotes : Found(r).is # "nothing"}}

DiscoverAzureCli(home) ==
    {Offer("azure-cli", t, t \in GoodLogins(home.azure) /\ home.az) : t \in Logins(home.azure)}

Discover(type, home) ==
    (IF type = "s3" THEN DiscoverAws(home) ELSE DiscoverAzureCli(home)) \cup DiscoverRclone(type, home)

-----------------------------------------------------------------------------
\* What rclone gets: options of the remote and variables of its process.

NotResolved == [is |-> "failed"]
Resolved(options, env) == [is |-> "resolved", options |-> options, env |-> env]

ValidReference(type, source, name) ==
    /\ <<source, type>> \in {<<"aws", "s3">>, <<"rclone", "s3">>,
                             <<"rclone", "azureblob">>, <<"azure-cli", "azureblob">>}
    /\ name \notin OddNames

\* az runs as the user, in the user's home.
AzureCliEnv == [HOME |-> "home", AZURE_CONFIG_DIR |-> "home/.azure"]

ResolveAzureCli(name, home) ==
    IF home.az /\ name \in GoodLogins(home.azure)
    THEN Resolved([use_az |-> "true", tenant |-> name], AzureCliEnv)
    ELSE NotResolved

\* The file that Motuz writes for an SSO profile is named by its content.
WriteSsoConfig(content) == <<"motuz-aws-config", content>>

ResolveSso(name, home) ==
    LET s    == Profiles(home)[name]
        path == WriteSsoConfig(AwsSsoConfig(name, s, SsoSessions(home.config)))
    IN  IF SsoLogin(home, s)
        THEN Resolved([env_auth |-> "true", profile |-> name, shared_credentials_file |-> path]
                        ++ Keep(s, {"region"}),
                      [HOME |-> "home", AWS_CONFIG_FILE |-> path])
        ELSE NotResolved

ResolveAws(name, home) ==
    LET found == ResolveAwsProfile(name, home)
    IN  IF AwsGarbled(home) THEN NotResolved
        ELSE IF found.is # "usable" THEN NotResolved
        ELSE IF found.kind = "sso" THEN ResolveSso(name, home)
        ELSE Resolved(Take(Profiles(home)[name], [region |-> "region", endpoint |-> "endpoint_url"])
                        ++ found.options, NoSettings)

ResolveRclone(type, name, home) ==
    LET remotes == Sections(RcloneFile(home))
        found   == ClassifyRcloneRemote(type, At(remotes, name), home.az)
    IN  IF found.is # "usable" THEN NotResolved
        ELSE Resolved(found.options, IF found.kind = "azure_cli" THEN AzureCliEnv ELSE NoSettings)

Resolve(type, source, name, home) ==
    IF ~ValidReference(type, source, name) THEN NotResolved
    ELSE IF source = "azure-cli" THEN ResolveAzureCli(name, home)
    ELSE IF source = "aws" THEN ResolveAws(name, home)
    ELSE ResolveRclone(type, name, home)
=============================================================================
