-------------------------- MODULE CloudConnections --------------------------
(***************************************************************************)
(* One cloud connection of a user, from the dialog to rclone: what the     *)
(* dialog is offered and tests, what the API stores                        *)
(* (managers/cloud_connection_manager.py), and the configuration rclone    *)
(* gets from it, on the central node and on a remote worker                *)
(* (utils/rclone_connection.py, managers/worker_manager.py,                *)
(* worker/motuz_worker.py).                                                *)
(*                                                                         *)
(* A connection is a function from the columns that have a value.  A form  *)
(* is a function from the inputs it renders; Empty is an empty one.  An    *)
(* OAuth token stands for itself, whether rclone gets it or a handle for   *)
(* it: the broker is the module TokenBroker.                               *)
(***************************************************************************)
EXTENDS Naturals, LocalCredentials

CONSTANTS
    Homes,    \* states of the user's home directory
    Forms,    \* forms filled in completely
    MaxSaves, \* bound: saves of the connection
    MaxMoves  \* bound: changes of the home directory

VARIABLES
    home,    \* the user's home directory
    offered, \* what the picker of the New Connection dialog shows, and of which home
    row,     \* the stored connection
    tested,  \* the last successful Test connection
    saves,   \* how often the connection was saved
    moves    \* how often the home changed

connVars == <<home, offered, row, tested, saves, moves>>

Empty   == ""
NoRow   == [type |-> "none"]
NoTest  == [form |-> NoSettings, home |-> NoSettings, env |-> NotResolved, saved |-> FALSE]
NoOffer == [type |-> "none", home |-> NoSettings, offers |-> {}]

ValueOf(columns, c, default) == IF c \in DOMAIN columns THEN columns[c] ELSE default
Without(columns, cs)         == Keep(columns, DOMAIN columns \ cs)
Filled(form)                 == Keep(form, {c \in DOMAIN form : form[c] # Empty})

-----------------------------------------------------------------------------
\* Rules of the stored columns

SecretFields ==
    {"s3_secret_access_key", "s3_session_token", "azure_key", "azure_sas_url", "swift_key",
     "gcp_service_account_credentials", "sftp_pass", "dropbox_token", "onedrive_token",
     "gdrive_token", "webdav_pass"}

\* The app that issued a token is for the server to say; a pasted token is rclone's.
TokenClientColumns == [onedrive_token |-> "onedrive_client_id", gdrive_token |-> "gdrive_client_id"]
ClientsOf(columns) == {TokenClientColumns[t] : t \in columns \cap DOMAIN TokenClientColumns}

Providers              == {"AWS", "Ceph", "Minio", "Other"}
CheckSkippingProviders == {"AWS", "Ceph"}
SkipChecksValues       == {"post_copy", "crc32c", "all"}
LegacyProvider(endpoint) == IF endpoint = Empty THEN "AWS" ELSE "Other"
DefaultSkipChecks(provider) == IF provider = "AWS" THEN "crc32c" ELSE Empty

FromRcloneRemote(c) ==
    ValueOf(c, "subtype", Empty) = "profile" /\ ValueOf(c, "profile_source", Empty) = "rclone"

StoredProvider(c) == ValueOf(c, "s3_provider", LegacyProvider(ValueOf(c, "s3_endpoint", Empty)))

\* The checks a connection asks to skip; a new one that says nothing gets the default.
AskedSkip(c, new) ==
    IF "s3_skip_checks" \in DOMAIN c THEN c.s3_skip_checks
    ELSE IF new /\ ~FromRcloneRemote(c) THEN DefaultSkipChecks(StoredProvider(c)) ELSE Empty

S3Refused(c, new) ==
    c.type = "s3" /\ \/ StoredProvider(c) \notin Providers
                     \/ AskedSkip(c, new) \notin SkipChecksValues \cup {Empty}
ApplyS3Rules(c, new) ==
    LET provider == StoredProvider(c)
        skip == IF provider \in CheckSkippingProviders THEN AskedSkip(c, new) ELSE Empty
    IN  IF c.type # "s3"
        THEN [s3_chunked |-> "true"] ++ Without(c, {"s3_provider", "s3_skip_checks"})
        ELSE [s3_provider |-> provider, s3_chunked |-> ValueOf(c, "s3_chunked", "true")]
               ++ (IF skip = Empty THEN NoSettings ELSE [s3_skip_checks |-> skip])
               ++ Without(c, {"s3_skip_checks"})

ProfileReplaces ==
    [s3 |-> {"s3_access_key_id", "s3_secret_access_key", "s3_session_token"},
     azureblob |-> {"azure_account", "azure_key", "azure_sas_url"}]

IsProfile(c)  == ValueOf(c, "subtype", Empty) = "profile"
IsAzureCli(c) == ValueOf(c, "profile_source", Empty) = "azure-cli"
OwnersProfile(c, h) ==
    Resolve(c.type, ValueOf(c, "profile_source", Empty), ValueOf(c, "profile_name", Empty), h)

\* Profiles must be usable now, and replace stored credentials.
ProfileRefused(c, h) ==
    IsProfile(c) /\ \/ IsAzureCli(c) /\ "azure_account" \notin DOMAIN c
                    \/ OwnersProfile(c, h) = NotResolved
\* Mutant: the storage account of an Azure CLI login is dropped with the credentials.
DropsTheAccount(c) ==
    IF IsProfile(c) THEN Without(c, ProfileReplaces[c.type]) ELSE Without(c, {"profile_source", "profile_name"})
ApplyProfileRules(c) ==
    IF IsProfile(c)
    THEN Without(c, ProfileReplaces[c.type] \ IF IsAzureCli(c) THEN {"azure_account"} ELSE {})
    ELSE Without(c, {"profile_source", "profile_name"})

Refused(c, new, h) == S3Refused(c, new) \/ ProfileRefused(c, h)
ApplyRules(c, new) == ApplyProfileRules(ApplyS3Rules(c, new))

\* Empty secrets of an edit form mean the stored ones.
Created(form)       == Filled(form)
Updated(form, old)  ==
    LET sent == {c \in DOMAIN form : ~(c \in SecretFields /\ form[c] = Empty)}
    IN  Filled(Keep(form, sent)) ++ Without(old, sent \cup ClientsOf(sent))

\* A token that is kept is tested through the broker, with the app that issued it.
Verified(form, old) ==
    LET kept    == SecretFields \ DOMAIN Filled(form)
        brokers == {t \in kept \cap DOMAIN old : t \in DOMAIN TokenClientColumns}
    IN  Filled(form) ++ Keep(old, kept \cup ClientsOf(brokers))

-----------------------------------------------------------------------------
\* The configuration of the remote (_formatCredentials)

\* The types whose options are columns of the connection.
PlainOptions ==
    [type \in {"swift", "google cloud storage", "sftp", "dropbox", "onedrive", "drive", "webdav"} |->
        CASE type = "swift"   -> [user |-> "swift_user", key |-> "swift_key", auth |-> "swift_auth", tenant |-> "swift_tenant"]
          [] type = "google cloud storage" ->
                 [client_id |-> "gcp_client_id", object_acl |-> "gcp_object_acl", bucket_acl |-> "gcp_bucket_acl",
                  service_account_credentials |-> "gcp_service_account_credentials", project_number |-> "gcp_project_number"]
          [] type = "sftp"    -> [host |-> "sftp_host", port |-> "sftp_port", user |-> "sftp_user",
                                  pass |-> "sftp_pass", key_file |-> "sftp_key_file"]
          [] type = "dropbox" -> [token |-> "dropbox_token"]
          [] type = "onedrive" -> [token |-> "onedrive_token", drive_id |-> "onedrive_drive_id",
                                   drive_type |-> "onedrive_drive_type"]
          [] type = "drive"   -> [token |-> "gdrive_token", client_id |-> "gdrive_client_id",
                                  root_folder_id |-> "gdrive_root_folder_id", team_drive |-> "gdrive_team_drive"]
          [] type = "webdav"  -> [url |-> "webdav_url", user |-> "webdav_user", pass |-> "webdav_pass"]]

FixedOptions(type) ==
    CASE type = "sftp"     -> [sftp_set_modtime |-> "false"]
      [] type = "onedrive" -> [chunk_size |-> "50Mi"]
      [] type = "drive"    -> [scope |-> "drive", pacer_min_sleep |-> "100ms", chunk_size |-> "64Mi",
                               stop_on_upload_limit |-> "true"]
      [] OTHER             -> NoSettings

\* rclone wants passwords in its obscured form.
Obscure(options) ==
    [o \in DOMAIN options |-> IF o = "pass" THEN <<"obscured", options[o]>> ELSE options[o]]

PlainConfig(c) == FixedOptions(c.type) ++ Obscure(Take(c, PlainOptions[c.type]))

\* A provider from the user's rclone.conf wins over the two defaults.
S3Provider(c, options) ==
    LET named == ValueOf(c, "s3_provider", "none")
    IN  IF "provider" \in DOMAIN options /\ IsProfile(c) /\ named \in {"none", "AWS", "Other"}
        THEN options.provider
        ELSE IF named # "none" THEN named ELSE LegacyProvider(ValueOf(options, "endpoint", Empty))

\* The connection's region and endpoint win over a profile's.
S3Config(c, profile) ==
    LET base == IF IsProfile(c) THEN profile
                ELSE Take(c, [access_key_id |-> "s3_access_key_id", secret_access_key |-> "s3_secret_access_key"]
                               ++ IF ValueOf(c, "subtype", Empty) = "sts"
                                  THEN [session_token |-> "s3_session_token"] ELSE NoSettings)
        kms  == IF "kms_encryption_key_arn" \in DOMAIN c
                THEN [server_side_encryption |-> "aws:kms", sse_kms_key_id |-> c.kms_encryption_key_arn]
                ELSE NoSettings
        options == Take(c, [region |-> "s3_region", endpoint |-> "s3_endpoint", v2_auth |-> "s3_v2_auth"])
                     ++ kms ++ base
    IN  [provider |-> S3Provider(c, options),
         upload_cutoff |-> IF ValueOf(c, "s3_chunked", "true") = "false" THEN "5Gi" ELSE "32Mi"] ++ options

AzureConfig(c, profile) ==
    IF IsProfile(c)
    THEN Take(c, IF IsAzureCli(c) THEN [account |-> "azure_account"] ELSE NoSettings) ++ profile
    ELSE Take(c, IF ValueOf(c, "subtype", Empty) = "sas" THEN [sas_url |-> "azure_sas_url"]
                 ELSE [account |-> "azure_account", key |-> "azure_key"])

\* The check of this remote's certificate is turned off by an alias with an override.
WithoutTlsVerification(c, options) ==
    IF ValueOf(c, "skip_tls_verify", "false") = "true" THEN [no_check_certificate |-> "true"] ++ options ELSE options

FormatCredentials(c, h) ==
    LET profile == IF IsProfile(c) /\ c.type \in {"s3", "azureblob"}
                   THEN OwnersProfile(c, h) ELSE Resolved(NoSettings, NoSettings)
        options == CASE c.type = "s3"        -> S3Config(c, profile.options)
                     [] c.type = "azureblob" -> AzureConfig(c, profile.options)
                     [] OTHER                -> PlainConfig(c)
    IN  IF profile = NotResolved THEN NotResolved
        ELSE Resolved([type |-> c.type] ++ WithoutTlsVerification(c, options), profile.env)

\* The checksum checks rclone skips in uploads to the connection.
DestinationChecks(c) ==
    IF c.type = "s3" /\ ValueOf(c, "s3_provider", Empty) \in CheckSkippingProviders
    THEN ValueOf(c, "s3_skip_checks", Empty) ELSE Empty

-----------------------------------------------------------------------------
\* A remote worker reads profiles itself; everything else comes with the ticket.

ProfileFields ==
    {"type", "subtype", "profile_source", "profile_name", "s3_region", "s3_endpoint", "s3_v2_auth",
     "kms_encryption_key_arn", "azure_account", "skip_tls_verify", "s3_provider", "s3_chunked"}

TicketSide(c, h) ==
    IF IsProfile(c) THEN [profile |-> TRUE, connection |-> Keep(c, ProfileFields)]
    ELSE [profile |-> FALSE, env |-> FormatCredentials(c, h)]
SideCredentials(side, h) == IF side.profile THEN FormatCredentials(side.connection, h) ELSE side.env

-----------------------------------------------------------------------------
\* The dialogs.  A new connection takes a profile from the picker; the edit dialog keeps
\* the profile of a profile connection, and offers none to another.

\* The inputs that a form renders whatever its connection has: all of its type but the secrets,
\* a key file without its subtype, and the app of a token.
Rendered(form) ==
    CASE form.type = "s3" ->
           {"subtype", "s3_provider", "s3_endpoint", "s3_region", "kms_encryption_key_arn", "skip_tls_verify", "s3_chunked"}
             \cup IF IsProfile(form) THEN {"profile_source", "profile_name"} ELSE {"s3_access_key_id"}
      [] form.type = "azureblob" ->
           {"subtype"} \cup (IF IsProfile(form) THEN {"profile_source", "profile_name"} ELSE {})
             \cup IF IsAzureCli(form) \/ ValueOf(form, "subtype", Empty) = "key" THEN {"azure_account"} ELSE {}
      [] OTHER ->
           {PlainOptions[form.type][o] : o \in DOMAIN PlainOptions[form.type]}
             \ (SecretFields \cup {"sftp_key_file", "gdrive_client_id"})

Complete(form) == \A c \in SecretFields \cap DOMAIN form : form[c] # Empty
NewForm(form) ==
    /\ row = NoRow
    /\ Complete(form)
    /\ IsProfile(form) => /\ offered.type = form.type
                          /\ Offer(form.profile_source, form.profile_name, TRUE) \in offered.offers
EditForm(form) ==
    /\ row # NoRow
    /\ form.type \in {"s3", "azureblob"} => (IsProfile(form) <=> IsProfile(row))
    /\ IsProfile(form) => /\ form.profile_source = row.profile_source
                          /\ form.profile_name = row.profile_name

\* The edit form can leave the secrets empty.
Variants(form) == {form, [c \in DOMAIN form |-> IF c \in SecretFields THEN Empty ELSE form[c]]}
Submitted      == UNION {Variants(f) : f \in Forms}

\* A form as the dialogs build it: its type and all that is rendered for it, no app of a token,
\* profiles for the types that have them, and a choice of checks where it is offered.
IsForm(f) ==
    /\ "type" \in DOMAIN f
    /\ f.type \in {"s3", "azureblob"} \cup DOMAIN PlainOptions
    /\ Rendered(f) \subseteq DOMAIN f
    /\ DOMAIN f \cap {"s3_v2_auth", "gdrive_client_id", "onedrive_client_id"} = {}
    /\ f.type = "azureblob" => f.subtype \in {"key", "sas", "profile"}
    /\ f.type \notin {"s3", "azureblob"} => ~IsProfile(f) /\ ~IsAzureCli(f)
    /\ "s3_skip_checks" \in DOMAIN f => f.type = "s3" /\ f.s3_provider \in CheckSkippingProviders
ASSUME FormsAssumption == \A f \in Forms : IsForm(f)

ConnInit ==
    /\ home \in Homes
    /\ offered = NoOffer /\ row = NoRow /\ tested = NoTest /\ saves = 0 /\ moves = 0

OpenPicker(type) ==
    /\ row = NoRow
    /\ offered' = [type |-> type, home |-> home, offers |-> Discover(type, home)]
    /\ UNCHANGED <<home, row, tested, saves, moves>>

\* Test connection: the rules of S3 apply, those of profiles do not.
Test(form) ==
    LET c == IF row = NoRow THEN Created(form) ELSE Verified(form, row)
        env == FormatCredentials(ApplyS3Rules(c, FALSE), home)
    IN  /\ NewForm(form) \/ EditForm(form)
        /\ ~S3Refused(c, FALSE)
        /\ env # NotResolved
        /\ tested' = [form |-> form, home |-> home, env |-> env, saved |-> FALSE]
        /\ UNCHANGED <<home, offered, row, saves, moves>>

\* What was tested says nothing of a connection that is saved with another form.
Save(form, c, new) ==
    /\ saves < MaxSaves
    /\ ~Refused(c, new, home)
    /\ row' = ApplyRules(c, new)
    /\ tested' = IF tested.form = form THEN [tested EXCEPT !.saved = TRUE] ELSE NoTest
    /\ saves' = saves + 1
    /\ offered' = NoOffer
    /\ UNCHANGED <<home, moves>>

Create(form) == NewForm(form) /\ Save(form, Created(form), TRUE)
Update(form) == EditForm(form) /\ Save(form, Updated(form, row), FALSE)

\* Sign in with Google: the app is Motuz's own (oauth_manager.connect).
SignIn ==
    /\ row = NoRow
    /\ saves < MaxSaves
    /\ row' = [type |-> "drive", gdrive_token |-> "signed in", gdrive_client_id |-> "own", s3_chunked |-> "true"]
    /\ tested' = NoTest /\ saves' = saves + 1 /\ offered' = NoOffer
    /\ UNCHANGED <<home, moves>>

Delete ==
    /\ row # NoRow
    /\ row' = NoRow /\ tested' = NoTest
    /\ UNCHANGED <<home, offered, saves, moves>>

HomeChanges ==
    /\ moves < MaxMoves
    /\ home' \in Homes \ {home}
    /\ moves' = moves + 1
    /\ UNCHANGED <<offered, row, tested, saves>>

ConnNext ==
    \/ \E type \in {"s3", "azureblob"} : OpenPicker(type)
    \/ \E form \in Submitted : Test(form) \/ Create(form) \/ Update(form)
    \/ SignIn \/ Delete \/ HomeChanges

ConnSpec == ConnInit /\ [][ConnNext]_connVars

-----------------------------------------------------------------------------
\* Properties

\* What the picker offers as usable is accepted, and nothing else is, while the home stays
\* as it was (discover and resolve judge a profile by code of their own).
OfferedIsAccepted ==
    offered.home = home =>
        \A o \in offered.offers : o.usable <=> Resolve(offered.type, o.source, o.name, home) # NotResolved

\* Columns that the form of the test did not render, but that rclone still gets: a key file
\* next to a password, and certificates that are not checked (see the README).
LeftOvers == {"sftp_key_file", "skip_tls_verify"} \cap (DOMAIN row \ DOMAIN tested.form)

\* A connection saved with the form that was tested runs with the configuration that was
\* tested.
TestedIsRun ==
    tested.saved /\ tested.home = home /\ LeftOvers = {} => FormatCredentials(row, home) = tested.env

\* A remote worker runs a connection with the configuration that the central node would use
\* at that moment, whatever became of the home since the ticket.
WorkerReadsTheSame ==
    row # NoRow => \A h \in Homes : SideCredentials(TicketSide(row, home), h) = FormatCredentials(row, h)

\* A profile connection keeps no credential that its profile replaces.
NothingLeftBehind ==
    IsProfile(row) =>
        DOMAIN row \cap ProfileReplaces[row.type] \subseteq IF IsAzureCli(row) THEN {"azure_account"} ELSE {}

\* Uploads skip the checks the form says, but for a new connection to Amazon S3 whose form
\* says "Full checks": an empty input, which reaches the API as no choice (see the README).
NoChoice == tested.form.s3_skip_checks = Empty /\ DestinationChecks(row) = DefaultSkipChecks(row.s3_provider)
ChecksAreChosen ==
    tested.saved /\ "s3_skip_checks" \in DOMAIN tested.form =>
        DestinationChecks(row) = tested.form.s3_skip_checks \/ NoChoice

\* Together: the connection that runs, here or on a worker, is the one the dialog offered,
\* tested and stored.
WhatIsShownRuns == OfferedIsAccepted /\ TestedIsRun /\ WorkerReadsTheSame
                     /\ NothingLeftBehind /\ ChecksAreChosen
=============================================================================
