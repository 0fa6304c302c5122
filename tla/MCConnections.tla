---------------------------- MODULE MCConnections ----------------------------
(* Values for CloudConnections in TLC: four states of a home directory, and *)
(* the forms a user may fill in.                                            *)
EXTENDS CloudConnections, TLC

Absent  == [kind |-> "absent"]
Ini(sections) == [kind |-> "sections", sections |-> sections, sessions |-> NoSettings]
Keys(k) == [aws_access_key_id |-> k, aws_secret_access_key |-> k]
Sso(session) == [sso_session |-> session, sso_account_id |-> "1", sso_role_name |-> "r", region |-> "west"]
Remote(p) == [type |-> "s3", provider |-> p, access_key_id |-> p, secret_access_key |-> p]
AzRemote  == [type |-> "azureblob", use_az |-> "true", account |-> "acct", key |-> "unused"]
Subscription(t, managed, public) == [tenant |-> t, managed |-> managed, public |-> public]

Complete1 ==
    [credentials |-> Ini(("default" :> (Keys("k1") @@ [aws_security_token |-> "t1"])) @@ ("role" :> Keys("unused"))),
     config |-> [kind |-> "sections",
         sections |-> ("default" :> [region |-> "west", endpoint_url |-> "https://s3", aws_access_key_id |-> "old"])
                        @@ ("role" :> [role_arn |-> "arn", source_profile |-> "default"])
                        @@ ("sso" :> Sso("corp")) @@ ("s p" :> Sso("corp")),
         sessions |-> "corp" :> [sso_start_url |-> "url", sso_region |-> "west"]],
     rcloneConf |-> Ini(("minio" :> Remote("Minio")) @@ ("blob" :> AzRemote) @@ ("ftp" :> [type |-> "sftp"])),
     rcloneLegacy |-> Ini("minio" :> Remote("Ceph")),
     azure |-> [kind |-> "sections", subscriptions |-> {Subscription("t1", FALSE, TRUE), Subscription("t2", TRUE, TRUE)}],
     tokens |-> "corp" :> "valid", az |-> TRUE]

\* Keys were rotated, the login expired, files moved.
Rotated ==
    [Complete1 EXCEPT !.credentials = Ini(("default" :> Keys("k2")) @@ ("odd/" :> Keys("k3"))),
                      !.rcloneConf = Absent, !.tokens = "corp" :> "expired",
                      !.azure = [kind |-> "sections", subscriptions |-> {Subscription("t1", FALSE, TRUE), Subscription("t1", FALSE, FALSE)}]]

\* Only roles and programs, some of which nobody can use, and no Azure CLI.
Unusual ==
    [credentials |-> [kind |-> "forbidden"],
     config |-> [kind |-> "sections",
         sections |-> ("default" :> [credential_process |-> "program"])
                        @@ ("role" :> (Keys("k1") @@ [role_arn |-> "arn", source_profile |-> "role", external_id |-> "x"]))
                        @@ ("chain" :> [role_arn |-> "arn", source_profile |-> "role"])
                        @@ ("mfa" :> [role_arn |-> "arn", source_profile |-> "role", mfa_serial |-> "m"])
                        @@ ("sso" :> [sso_start_url |-> "url", sso_region |-> "west", sso_account_id |-> "1", sso_role_name |-> "r"])
                        @@ ("web" :> [web_identity_token_file |-> "f"]) @@ ("region" :> [region |-> "west"]),
         sessions |-> NoSettings],
     rcloneConf |-> Ini(("minio" :> [type |-> "s3", env_auth |-> "true"]) @@ ("blob" :> [type |-> "azureblob", use_msi |-> "true"])
                          @@ ("odd/" :> Remote("Minio")) @@ ("key" :> [type |-> "azureblob", account |-> "acct", key |-> "k"])),
     rcloneLegacy |-> Absent, azure |-> Complete1.azure, tokens |-> "url" :> "renewable", az |-> FALSE]

Broken ==
    [Complete1 EXCEPT !.credentials = [kind |-> "garbled"], !.rcloneConf = [kind |-> "encrypted"],
                      !.azure = [kind |-> "garbled"], !.az = FALSE]

MCHomes == {Complete1, Rotated, Unusual, Broken}

S3(provider, endpoint, region, tls, chunked) ==
    [type |-> "s3", s3_provider |-> provider, s3_endpoint |-> endpoint, s3_region |-> region,
     kms_encryption_key_arn |-> "", skip_tls_verify |-> tls, s3_chunked |-> chunked]
Checks(skip) == "s3_skip_checks" :> skip
Picked(source, name) == [subtype |-> "profile", profile_source |-> source, profile_name |-> name]

MCForms == {
    S3("AWS", "", "east", "false", "true") @@ Checks("")
      @@ [subtype |-> "key", s3_access_key_id |-> "K", s3_secret_access_key |-> "S"],
    S3("Ceph", "https://ceph", "us", "true", "false") @@ Checks("post_copy")
      @@ [subtype |-> "sts", s3_access_key_id |-> "K", s3_secret_access_key |-> "S", s3_session_token |-> "T"],
    S3("AWS", "", "west", "false", "true") @@ Checks("crc32c") @@ Picked("aws", "default"),
    S3("AWS", "", "", "true", "true") @@ Checks("all") @@ Picked("aws", "sso"),
    S3("AWS", "", "", "false", "true") @@ Checks("") @@ Picked("aws", "role"),
    S3("AWS", "", "", "false", "false") @@ Checks("") @@ Picked("rclone", "minio"),
    [type |-> "azureblob", subtype |-> "key", azure_account |-> "acct", azure_key |-> "A"],
    [type |-> "azureblob", subtype |-> "sas", azure_sas_url |-> "U"],
    [type |-> "azureblob", azure_account |-> "acct"] @@ Picked("azure-cli", "t1"),
    [type |-> "azureblob"] @@ Picked("rclone", "blob"),
    [type |-> "sftp", subtype |-> "password", sftp_host |-> "h", sftp_port |-> "", sftp_user |-> "u", sftp_pass |-> "P"],
    [type |-> "sftp", subtype |-> "key", sftp_host |-> "h", sftp_port |-> "22", sftp_user |-> "u", sftp_key_file |-> "/key"],
    [type |-> "drive", gdrive_token |-> "pasted", gdrive_root_folder_id |-> "", gdrive_team_drive |-> "team"],
    [type |-> "webdav", webdav_url |-> "url", webdav_user |-> "u", webdav_pass |-> "W"]}

\* The home changes once, under a stored connection or an open picker.
ConnStep ==
    \/ \E type \in {"s3", "azureblob"} : OpenPicker(type) /\ saves = 0
    \/ \E form \in Submitted :
          \/ Test(form) /\ moves = 0 /\ tested = NoTest
          \/ Create(form) /\ saves = 0
          \/ Update(form)
    \/ SignIn /\ saves = 0
    \/ Delete
    \/ HomeChanges /\ (saves = 1 \/ offered # NoOffer)
=============================================================================
