------------------------ MODULE MCCentralJobs_proofs ------------------------
(***************************************************************************)
(* The data that the jobs of the central node depend on.  First the        *)
(* integrity check: what it concludes is true of the two sides, for any    *)
(* names, files and hashes.  Then the connections: what the dialog offers, *)
(* tests and stores is what runs, for any homes and forms.                 *)
(***************************************************************************)
EXTENDS MCCentralJobs, TLAPS

-----------------------------------------------------------------------------
(* A check: one name.                                                       *)

HashTypes == {"crc32c", "sha256", "md5"}

LEMMA HashTypeIsOne ==
    ASSUME NEW srcKind, NEW dstKind, NEW download, NEW supported
    PROVE  HashType(srcKind, dstKind, download, supported) \in HashTypes
BY DEF HashType, HashTypes

LEMMA SideShape ==
    ASSUME NEW kind, NEW nested, NEW side \in Sides(kind, nested)
    PROVE  \A n \in DOMAIN side : side[n] \in File
<1>1. PICK present \in SUBSET Names : side \in [present -> FilesOf(kind)]
  BY DEF Sides
<1> QED BY <1>1 DEF FilesOf

\* A hash is the content, or missing; files of the same hash have the same content.
LEMMA HashIsContent ==
    ASSUME NEW f \in File, NEW type \in HashTypes, NEW download \in BOOLEAN
    PROVE  /\ HashOf(f, type, download) \in {f.content, NoHash}
           /\ f.content # NoHash
           /\ type = "sha256" => HashOf(f, type, download) = f.content
           /\ type = "md5" /\ f.md5 => HashOf(f, type, download) = f.content
BY DEF HashOf, NoHash, File, HashTypes

-----------------------------------------------------------------------------
(* A check: two sides.                                                      *)

\* The files of a check: which have no hash of the type that is compared, which none at all.
Fallback(src, dst, type, download) ==
    {n \in DOMAIN src \cap DOMAIN dst :
        type = "crc32c" /\ NoHash \in {HashOf(src[n], type, download), HashOf(dst[n], type, download)}}
Unchecked(src, dst, type, download) ==
    {n \in Fallback(src, dst, type, download) :
        NoHash \in {HashOf(src[n], "md5", download), HashOf(dst[n], "md5", download)}}
\* What is compared in the end.
Merged(side, src, dst, type, download) ==
    [n \in DOMAIN side \ Unchecked(src, dst, type, download) |->
        IF n \in Fallback(src, dst, type, download) THEN HashOf(side[n], "md5", download)
        ELSE HashOf(side[n], type, download)]

\* The tree is the entries, up to the first that is below another.
LEMMA TreeEntries ==
    ASSUME NEW e, NEW nested
    PROVE  /\ \A n : n \in DOMAIN Tree(e, nested) <=>
                  /\ n \in DOMAIN e
                  /\ \A c \in DOMAIN e : (\E m \in DOMAIN e : <<m, c>> \in nested) => n < c
           /\ \A n \in DOMAIN Tree(e, nested) : Tree(e, nested)[n] = e[n]
BY DEF Tree, Restrict, Clashes

LEMMA CompareMerged ==
    ASSUME NEW src, NEW dst, NEW type, NEW download, NEW nested
    PROVE  LET left  == Tree(Merged(src, src, dst, type, download), nested)
               right == Tree(Merged(dst, src, dst, type, download), nested)
               result == Compare(src, dst, type, download, nested)
           IN  /\ result.srcTree = LeftOver(left, right)
               /\ result.dstTree = LeftOver(right, left)
               /\ result.uncheckable = Unchecked(src, dst, type, download)
<1> DEFINE a == Entries(src, type, download)
           b == Entries(dst, type, download)
           fallback == {n \in DOMAIN a \cap DOMAIN b : type = "crc32c" /\ NoHash \in {a[n], b[n]}}
           md5(side, n) == HashOf(side[n], "md5", download)
           uncheckable == {n \in fallback : NoHash \in {md5(src, n), md5(dst, n)}}
           merged(side, e) == [n \in DOMAIN e \ uncheckable |->
                                   IF n \in fallback THEN md5(side, n) ELSE e[n]]
<1>1. /\ DOMAIN a = DOMAIN src /\ DOMAIN b = DOMAIN dst
      /\ \A n \in DOMAIN src : a[n] = HashOf(src[n], type, download)
      /\ \A n \in DOMAIN dst : b[n] = HashOf(dst[n], type, download)
  BY DEF Entries
<1>2. fallback = Fallback(src, dst, type, download)
  BY <1>1 DEF Fallback
<1>3. uncheckable = Unchecked(src, dst, type, download)
  BY <1>2 DEF Unchecked
<1>4. merged(src, a) = Merged(src, src, dst, type, download)
  BY <1>1, <1>2, <1>3 DEF Merged
<1>5. merged(dst, b) = Merged(dst, src, dst, type, download)
  BY <1>1, <1>2, <1>3 DEF Merged
<1>6. Compare(src, dst, type, download, nested) =
        [srcTree |-> LeftOver(Tree(merged(src, a), nested), Tree(merged(dst, b), nested)),
         dstTree |-> LeftOver(Tree(merged(dst, b), nested), Tree(merged(src, a), nested)),
         fallback |-> Cardinality(fallback \ uncheckable), uncheckable |-> uncheckable]
  BY DEF Compare
<1> HIDE DEF merged, uncheckable, fallback
<1> QED BY <1>3, <1>4, <1>5, <1>6

\* A file that has a place in the tree of its side has one in what is compared, unless it
\* could not be compared.
LEMMA PlacedIsCompared ==
    ASSUME NEW side, NEW src, NEW dst, NEW type, NEW download, NEW nested,
           NEW n \in DOMAIN Tree(side, nested), n \notin Unchecked(src, dst, type, download)
    PROVE  n \in DOMAIN Tree(Merged(side, src, dst, type, download), nested)
<1>1. DOMAIN Merged(side, src, dst, type, download) = DOMAIN side \ Unchecked(src, dst, type, download)
  BY DEF Merged
<1> HIDE DEF Merged, Unchecked
<1> QED BY <1>1, TreeEntries

\* What has a place in a tree and is not left over is the same on the other side.
LEMMA EqualIsSame ==
    ASSUME NEW src, NEW dst, \A n \in DOMAIN src : src[n] \in File, \A n \in DOMAIN dst : dst[n] \in File,
           NEW type \in HashTypes, NEW download \in BOOLEAN, NEW nested,
           NEW n \in DOMAIN Tree(src, nested) \cup DOMAIN Tree(dst, nested),
           n \notin Unchecked(src, dst, type, download),
           LET left  == Tree(Merged(src, src, dst, type, download), nested)
               right == Tree(Merged(dst, src, dst, type, download), nested)
           IN  LeftOver(left, right) = {} /\ LeftOver(right, left) = {}
    PROVE  Same(src, dst, n)
<1> DEFINE left  == Merged(src, src, dst, type, download)
           right == Merged(dst, src, dst, type, download)
           L == Tree(left, nested)
           R == Tree(right, nested)
<1>1. /\ DOMAIN left = DOMAIN src \ Unchecked(src, dst, type, download)
      /\ DOMAIN right = DOMAIN dst \ Unchecked(src, dst, type, download)
  BY DEF Merged
<1>2. n \in DOMAIN L \cup DOMAIN R
  BY PlacedIsCompared
<1>3. n \in DOMAIN L /\ n \in DOMAIN R /\ L[n] = R[n] /\ L[n] # NoHash
  <2>1. LeftOver(L, R) = {} /\ LeftOver(R, L) = {}
    OBVIOUS
  <2> HIDE DEF L, R
  <2>2. ~Differs(L, R, n) \/ n \notin DOMAIN L
    BY <2>1 DEF LeftOver
  <2>3. ~Differs(R, L, n) \/ n \notin DOMAIN R
    BY <2>1 DEF LeftOver
  <2> QED BY <1>2, <2>2, <2>3 DEF Differs
<1>4. n \in DOMAIN left /\ n \in DOMAIN right /\ left[n] = right[n] /\ left[n] # NoHash
  <2> HIDE DEF left, right
  <2> QED BY <1>3, TreeEntries
<1>5. n \in DOMAIN src \cap DOMAIN dst
  BY <1>1, <1>4
<1>6. PICK hash \in HashTypes : left[n] = HashOf(src[n], hash, download) /\ right[n] = HashOf(dst[n], hash, download)
  <2>1. "md5" \in HashTypes
    BY DEF HashTypes
  <2> QED BY <1>1, <1>4, <2>1 DEF Merged
<1> HIDE DEF left, right
<1>7. /\ left[n] \in {src[n].content, NoHash}
      /\ right[n] \in {dst[n].content, NoHash}
  BY <1>5, <1>6, HashIsContent
<1>8. src[n].content = dst[n].content
  BY <1>4, <1>7
<1> QED BY <1>5, <1>8 DEF Same

\* A file of which both sides have a hash of the compared type, and the same content, has
\* the same entry on both sides.
LEMMA SameIsEqual ==
    ASSUME NEW src, NEW dst, \A n \in DOMAIN src : src[n] \in File, \A n \in DOMAIN dst : dst[n] \in File,
           NEW type \in HashTypes, NEW download \in BOOLEAN,
           NEW n, Same(src, dst, n), type = "md5" => src[n].md5 /\ dst[n].md5,
           n \notin Unchecked(src, dst, type, download)
    PROVE  /\ Merged(src, src, dst, type, download)[n] = src[n].content
           /\ Merged(dst, src, dst, type, download)[n] = src[n].content
           /\ src[n].content # NoHash
<1> DEFINE left  == Merged(src, src, dst, type, download)
           right == Merged(dst, src, dst, type, download)
<1>1. n \in DOMAIN src /\ n \in DOMAIN dst /\ src[n].content = dst[n].content
  BY DEF Same
<1>2. src[n] \in File /\ dst[n] \in File /\ src[n].content # NoHash /\ "md5" \in HashTypes
  BY <1>1, HashIsContent DEF HashTypes
<1>3. CASE n \in Fallback(src, dst, type, download)
  <2>1. left[n] = HashOf(src[n], "md5", download) /\ right[n] = HashOf(dst[n], "md5", download)
    BY <1>1, <1>3 DEF Merged
  <2>2. left[n] # NoHash /\ right[n] # NoHash
    BY <1>3, <2>1 DEF Unchecked
  <2> HIDE DEF left, right
  <2>3. left[n] = src[n].content /\ right[n] = dst[n].content
    BY <1>2, <2>1, <2>2, HashIsContent
  <2> QED BY <1>1, <1>2, <2>3 DEF left, right
<1>4. CASE n \notin Fallback(src, dst, type, download)
  <2>1. left[n] = HashOf(src[n], type, download) /\ right[n] = HashOf(dst[n], type, download)
    BY <1>1, <1>4 DEF Merged
  <2> HIDE DEF left, right
  <2>2. CASE type = "crc32c"
    <3>1. left[n] # NoHash /\ right[n] # NoHash
      BY <1>1, <1>4, <2>1, <2>2 DEF Fallback
    <3>2. left[n] = src[n].content /\ right[n] = dst[n].content
      BY <1>2, <2>1, <3>1, HashIsContent
    <3> QED BY <1>1, <1>2, <3>2 DEF left, right
  <2>3. CASE type # "crc32c"
    <3>1. left[n] = src[n].content /\ right[n] = dst[n].content
      BY <1>2, <2>1, <2>3, HashIsContent DEF HashTypes
    <3> QED BY <1>1, <1>2, <3>1 DEF left, right
  <2> QED BY <2>2, <2>3
<1> QED BY <1>3, <1>4

\* If all files are the same and have hashes, nothing is left over: the entries are equal,
\* so the trees are.
LEMMA SameLeavesNothing ==
    ASSUME NEW src, NEW dst, \A n \in DOMAIN src : src[n] \in File, \A n \in DOMAIN dst : dst[n] \in File,
           NEW type \in HashTypes, NEW download \in BOOLEAN, NEW nested,
           \A n \in DOMAIN src \cup DOMAIN dst :
               Same(src, dst, n) /\ (type = "md5" => src[n].md5 /\ dst[n].md5)
    PROVE  LET left  == Tree(Merged(src, src, dst, type, download), nested)
               right == Tree(Merged(dst, src, dst, type, download), nested)
           IN  LeftOver(left, right) = {} /\ LeftOver(right, left) = {}
<1> DEFINE left  == Merged(src, src, dst, type, download)
           right == Merged(dst, src, dst, type, download)
           D == DOMAIN src \ Unchecked(src, dst, type, download)
<1>1. DOMAIN src = DOMAIN dst
  BY DEF Same
<1>2. DOMAIN left = D /\ DOMAIN right = D
  BY <1>1 DEF Merged
<1>3. \A n \in D : left[n] = right[n] /\ left[n] # NoHash
  <2> SUFFICES ASSUME NEW n \in D PROVE left[n] = right[n] /\ left[n] # NoHash
    OBVIOUS
  <2>1. Same(src, dst, n) /\ (type = "md5" => src[n].md5 /\ dst[n].md5) /\ n \notin Unchecked(src, dst, type, download)
    OBVIOUS
  <2>2. left[n] = src[n].content /\ right[n] = src[n].content /\ src[n].content # NoHash
    BY <2>1, SameIsEqual
  <2> QED BY <2>2
<1> HIDE DEF left, right, D
<1>4. DOMAIN Tree(left, nested) = DOMAIN Tree(right, nested)
  BY <1>2, TreeEntries
<1>5. \A n \in DOMAIN Tree(left, nested) :
          Tree(left, nested)[n] = Tree(right, nested)[n] /\ Tree(left, nested)[n] # NoHash
  <2>1. \A n \in DOMAIN Tree(left, nested) : n \in D
    BY <1>2, TreeEntries
  <2> QED BY <1>3, <1>4, <2>1, TreeEntries
<1>6. LeftOver(Tree(left, nested), Tree(right, nested)) = {} /\ LeftOver(Tree(right, nested), Tree(left, nested)) = {}
  BY <1>4, <1>5 DEF LeftOver, Differs
<1> QED BY <1>6 DEF left, right

-----------------------------------------------------------------------------
(* A check: the verdict.                                                    *)

\* For any names, whichever of them are below others, and any contents and hashes of the two
\* sides: a check says IDENTICAL only if the files that have a place in one of the trees are
\* the same on both sides, names the files it could not compare, and says DIFFERENT only if a
\* file differs or has no hash (job_runner.run_hashsum, hashsum_outcome;
\* file_utils.generate_file_tree).
THEOREM VerdictAlwaysHolds == VerdictHolds
<1> SUFFICES ASSUME NEW srcKind \in Kinds, NEW dstKind \in Kinds, NEW download \in BOOLEAN, NEW supported \in BOOLEAN,
                    NEW nested \in Nestings,
                    NEW src \in Sides(srcKind, nested), NEW dst \in Sides(dstKind, nested)
             PROVE  LET type    == HashType(srcKind, dstKind, download, supported)
                        result  == Compare(src, dst, type, download, nested)
                        outcome == Outcome(result)
                        placed  == DOMAIN Tree(src, nested) \cup DOMAIN Tree(dst, nested)
                    IN  /\ outcome = "IDENTICAL" => \A n \in placed : Same(src, dst, n)
                        /\ outcome = "IDENTICAL, but" => \A n \in placed \ result.uncheckable : Same(src, dst, n)
                        /\ outcome = "DIFFERENT" =>
                              \E n \in DOMAIN src \cup DOMAIN dst :
                                  \/ ~Same(src, dst, n)
                                  \/ type = "md5" /\ ~(src[n].md5 /\ dst[n].md5)
  BY Zenon DEF VerdictHolds
<1> DEFINE type    == HashType(srcKind, dstKind, download, supported)
           result  == Compare(src, dst, type, download, nested)
           outcome == Outcome(result)
           placed  == DOMAIN Tree(src, nested) \cup DOMAIN Tree(dst, nested)
           left    == Tree(Merged(src, src, dst, type, download), nested)
           right   == Tree(Merged(dst, src, dst, type, download), nested)
<1>1. type \in HashTypes
  BY HashTypeIsOne
<1>2. /\ \A n \in DOMAIN src : src[n] \in File
      /\ \A n \in DOMAIN dst : dst[n] \in File
  BY SideShape
<1>3. /\ result.srcTree = LeftOver(left, right)
      /\ result.dstTree = LeftOver(right, left)
      /\ result.uncheckable = Unchecked(src, dst, type, download)
  BY CompareMerged
<1>4. outcome \in {"IDENTICAL", "IDENTICAL, but"} => \A n \in placed \ result.uncheckable : Same(src, dst, n)
  <2> SUFFICES ASSUME outcome \in {"IDENTICAL", "IDENTICAL, but"}, NEW n \in placed \ result.uncheckable
               PROVE  Same(src, dst, n)
    OBVIOUS
  <2>1. result.srcTree = {} /\ result.dstTree = {}
    BY DEF Outcome
  <2>2. LeftOver(left, right) = {} /\ LeftOver(right, left) = {} /\ n \notin Unchecked(src, dst, type, download)
    BY <1>3, <2>1
  <2> HIDE DEF type, result, outcome
  <2> QED BY <1>1, <1>2, <2>2, EqualIsSame
<1>5. outcome = "IDENTICAL" => result.uncheckable = {}
  BY DEF Outcome
<1>6. ASSUME outcome = "DIFFERENT"
      PROVE  \E n \in DOMAIN src \cup DOMAIN dst : ~Same(src, dst, n) \/ (type = "md5" /\ ~(src[n].md5 /\ dst[n].md5))
  <2>1. LeftOver(left, right) # {} \/ LeftOver(right, left) # {}
    BY <1>3, <1>6 DEF Outcome
  <2> HIDE DEF type, result, outcome
  <2> QED BY <1>1, <1>2, <2>1, SameLeavesNothing
<1> QED BY <1>4, <1>5, <1>6

\* Whenever a check reports, what it says of the two sides is true of the files its trees
\* name, whatever names they have.
THEOREM VerdictsAreTrue == MCSpec => []VerdictIsTrue
<1>1. VerdictIsTrue
  BY VerdictAlwaysHolds DEF VerdictIsTrue
<1> QED BY <1>1, PTL

-----------------------------------------------------------------------------
(* Connections: what the picker offers.                                     *)

LEMMA OfferedAws ==
    ASSUME NEW h, NEW o \in DiscoverAws(h)
    PROVE  o.usable <=> Resolve("s3", o.source, o.name, h) # NotResolved
<1>1. ~AwsGarbled(h)
  BY DEF DiscoverAws
<1>2. PICK n \in DOMAIN Profiles(h) :
        o = Offer("aws", n, /\ ResolveAwsProfile(n, h).is = "usable"
                            /\ ResolveAwsProfile(n, h).kind = "sso" => SsoLogin(h, Profiles(h)[n])
                            /\ n \notin OddNames)
  BY <1>1, Zenon DEF DiscoverAws
<1> DEFINE found == ResolveAwsProfile(n, h)
           usable == found.is = "usable" /\ (found.kind = "sso" => SsoLogin(h, Profiles(h)[n])) /\ n \notin OddNames
<1>3. o.source = "aws" /\ o.name = n /\ (o.usable <=> usable)
  BY <1>2 DEF Offer
<1>4. Resolve("s3", "aws", n, h) = IF n \in OddNames THEN NotResolved ELSE ResolveAws(n, h)
  BY DEF Resolve, ValidReference
<1>5. ResolveAws(n, h) # NotResolved <=> found.is = "usable" /\ (found.kind = "sso" => SsoLogin(h, Profiles(h)[n]))
  BY <1>1 DEF ResolveAws, ResolveSso, NotResolved, Resolved
<1> QED BY <1>3, <1>4, <1>5

LEMMA OfferedRclone ==
    ASSUME NEW type \in {"s3", "azureblob"}, NEW h, NEW o \in DiscoverRclone(type, h)
    PROVE  o.usable <=> Resolve(type, o.source, o.name, h) # NotResolved
<1> DEFINE remotes == Sections(RcloneFile(h))
           Found(n) == ClassifyRcloneRemote(type, remotes[n], h.az)
<1>1. PICK n \in DOMAIN remotes : o = Offer("rclone", n, Found(n).is = "usable" /\ n \notin OddNames)
  BY Zenon DEF DiscoverRclone
<1>2. o.source = "rclone" /\ o.name = n /\ (o.usable <=> Found(n).is = "usable" /\ n \notin OddNames)
  BY <1>1 DEF Offer
<1>3. Resolve(type, "rclone", n, h) = IF n \in OddNames THEN NotResolved ELSE ResolveRclone(type, n, h)
  BY DEF Resolve, ValidReference
<1>4. ResolveRclone(type, n, h) # NotResolved <=> Found(n).is = "usable"
  BY DEF ResolveRclone, At, NotResolved, Resolved
<1> QED BY <1>2, <1>3, <1>4

LEMMA OfferedAzure ==
    ASSUME NEW h, NEW o \in DiscoverAzureCli(h)
    PROVE  o.usable <=> Resolve("azureblob", o.source, o.name, h) # NotResolved
<1>1. PICK t \in Logins(h.azure) : o = Offer("azure-cli", t, t \in GoodLogins(h.azure) /\ h.az)
  BY Zenon DEF DiscoverAzureCli
<1>2. o.source = "azure-cli" /\ o.name = t /\ (o.usable <=> t \in GoodLogins(h.azure) /\ h.az)
  BY <1>1 DEF Offer
<1>3. t \notin OddNames
  BY <1>1 DEF Logins, Subscriptions
<1>4. Resolve("azureblob", "azure-cli", t, h) = ResolveAzureCli(t, h)
  BY <1>3 DEF Resolve, ValidReference
<1>5. ResolveAzureCli(t, h) # NotResolved <=> t \in GoodLogins(h.azure) /\ h.az
  BY DEF ResolveAzureCli, NotResolved, Resolved
<1> QED BY <1>2, <1>4, <1>5

\* discover and resolve agree on every profile, of any home directory.
LEMMA OfferedResolves ==
    ASSUME NEW type \in {"s3", "azureblob"}, NEW h, NEW o \in Discover(type, h)
    PROVE  o.usable <=> Resolve(type, o.source, o.name, h) # NotResolved
BY OfferedAws, OfferedRclone, OfferedAzure DEF Discover

-----------------------------------------------------------------------------
(* The configuration reads some columns only.                               *)

Types == {"s3", "azureblob"} \cup DOMAIN PlainOptions

Reads(c) ==
    {"type", "skip_tls_verify"}
      \cup (IF c.type \in {"s3", "azureblob"} THEN {"subtype"} ELSE {})
      \cup (IF IsProfile(c) THEN {"profile_source", "profile_name"} ELSE {})
      \cup CASE c.type = "s3" ->
                  {"s3_region", "s3_endpoint", "s3_v2_auth", "kms_encryption_key_arn", "s3_provider", "s3_chunked"}
                    \cup IF IsProfile(c) THEN {} ELSE {"s3_access_key_id", "s3_secret_access_key", "s3_session_token"}
             [] c.type = "azureblob" ->
                  IF IsProfile(c) THEN IF IsAzureCli(c) THEN {"azure_account"} ELSE {}
                  ELSE IF ValueOf(c, "subtype", Empty) = "sas" THEN {"azure_sas_url"} ELSE {"azure_account", "azure_key"}
             [] OTHER -> {PlainOptions[c.type][o] : o \in DOMAIN PlainOptions[c.type]}

LEMMA MergeAt ==
    ASSUME NEW f, NEW g
    PROVE  /\ DOMAIN (f ++ g) = DOMAIN f \cup DOMAIN g
           /\ \A x \in DOMAIN f : (f ++ g)[x] = f[x]
           /\ \A x \in DOMAIN g \ DOMAIN f : (f ++ g)[x] = g[x]
BY DEF ++

LEMMA MergeValues ==
    ASSUME NEW f, NEW g, NEW S, \A x \in DOMAIN f : f[x] \in S, \A x \in DOMAIN g : g[x] \in S
    PROVE  \A x \in DOMAIN (f ++ g) : (f ++ g)[x] \in S
BY DEF ++

\* Both have the same in this column; in all of these.
Alike(c, d, x) == /\ x \in DOMAIN c <=> x \in DOMAIN d
                  /\ x \in DOMAIN c => c[x] = d[x]
Agree(c, d, columns) ==
    \A x \in columns : Alike(c, d, x)

LEMMA AgreeValue ==
    ASSUME NEW c, NEW d, NEW columns, Agree(c, d, columns), NEW x \in columns, NEW default
    PROVE  ValueOf(c, x, default) = ValueOf(d, x, default)
BY DEF Agree, Alike, ValueOf

LEMMA AgreeTake ==
    ASSUME NEW c, NEW d, NEW columns, Agree(c, d, columns), NEW table, \A p \in DOMAIN table : table[p] \in columns
    PROVE  Take(c, table) = Take(d, table)
<1>1. {p \in DOMAIN table : table[p] \in DOMAIN c} = {p \in DOMAIN table : table[p] \in DOMAIN d}
  BY DEF Agree, Alike
<1>2. \A p \in {q \in DOMAIN table : table[q] \in DOMAIN c} : c[table[p]] = d[table[p]]
  BY DEF Agree, Alike
<1> QED BY <1>1, <1>2 DEF Take

LEMMA SameS3 ==
    ASSUME NEW c, NEW d, NEW p, Agree(c, d, Reads(c)), c.type = "s3"
    PROVE  S3Config(c, p) = S3Config(d, p)
<1> DEFINE tableOf(x) == [access_key_id |-> "s3_access_key_id", secret_access_key |-> "s3_secret_access_key"]
                           ++ IF ValueOf(x, "subtype", Empty) = "sts"
                              THEN [session_token |-> "s3_session_token"] ELSE NoSettings
           base(x) == IF IsProfile(x) THEN p ELSE Take(x, tableOf(x))
           kms(x)  == IF "kms_encryption_key_arn" \in DOMAIN x
                      THEN [server_side_encryption |-> "aws:kms", sse_kms_key_id |-> x.kms_encryption_key_arn]
                      ELSE NoSettings
           own(x)  == Take(x, [region |-> "s3_region", endpoint |-> "s3_endpoint", v2_auth |-> "s3_v2_auth"])
           options(x) == own(x) ++ kms(x) ++ base(x)
<1>1. {"subtype", "kms_encryption_key_arn", "s3_region", "s3_endpoint", "s3_v2_auth", "s3_provider", "s3_chunked"} \subseteq Reads(c)
  BY DEF Reads
<1>2. /\ ValueOf(c, "subtype", Empty) = ValueOf(d, "subtype", Empty)
      /\ ValueOf(c, "s3_provider", "none") = ValueOf(d, "s3_provider", "none")
      /\ ValueOf(c, "s3_chunked", "true") = ValueOf(d, "s3_chunked", "true")
  BY <1>1, AgreeValue
<1>3. IsProfile(c) = IsProfile(d) /\ tableOf(c) = tableOf(d)
  BY <1>2 DEF IsProfile
<1>4. base(c) = base(d)
  <2>1. CASE IsProfile(c)
    BY <1>3, <2>1
  <2>2. CASE ~IsProfile(c)
    <3>1. {"s3_access_key_id", "s3_secret_access_key", "s3_session_token"} \subseteq Reads(c)
      BY <2>2 DEF Reads
    <3>2. \A o \in DOMAIN tableOf(c) : tableOf(c)[o] \in {"s3_access_key_id", "s3_secret_access_key", "s3_session_token"}
      <4> DEFINE keys == [access_key_id |-> "s3_access_key_id", secret_access_key |-> "s3_secret_access_key"]
                 session == IF ValueOf(c, "subtype", Empty) = "sts" THEN [session_token |-> "s3_session_token"] ELSE NoSettings
      <4>1. \A o \in DOMAIN keys : keys[o] \in {"s3_access_key_id", "s3_secret_access_key"}
        OBVIOUS
      <4>2. \A o \in DOMAIN session : session[o] = "s3_session_token"
        BY DEF NoSettings
      <4> HIDE DEF keys, session
      <4>3. \A o \in DOMAIN (keys ++ session) :
                (keys ++ session)[o] \in {"s3_access_key_id", "s3_secret_access_key", "s3_session_token"}
        BY <4>1, <4>2, MergeValues
      <4> QED BY <4>3 DEF keys, session
    <3>3. Take(c, tableOf(c)) = Take(d, tableOf(c))
      <4> HIDE DEF tableOf
      <4> QED BY <3>1, <3>2, AgreeTake
    <3> QED BY <1>3, <2>2, <3>3
  <2> QED BY <2>1, <2>2
<1>5. kms(c) = kms(d)
  BY <1>1 DEF Agree, Alike
<1>6. own(c) = own(d)
  <2> DEFINE table == [region |-> "s3_region", endpoint |-> "s3_endpoint", v2_auth |-> "s3_v2_auth"]
  <2>1. \A o \in DOMAIN table : table[o] \in Reads(c)
    BY <1>1
  <2> HIDE DEF table
  <2>2. Take(c, table) = Take(d, table)
    BY <2>1, AgreeTake
  <2> QED BY <2>2 DEF table
<1>7. options(c) = options(d)
  BY <1>4, <1>5, <1>6
<1> HIDE DEF base, kms, own, tableOf
<1>8. S3Provider(c, options(c)) = S3Provider(d, options(d))
  BY <1>2, <1>3, <1>7 DEF S3Provider
<1> HIDE DEF options
<1>9. S3Config(c, p) = [provider |-> S3Provider(c, options(c)),
                        upload_cutoff |-> IF ValueOf(c, "s3_chunked", "true") = "false" THEN "5Gi" ELSE "32Mi"] ++ options(c)
  BY DEF S3Config, options, own, kms, base, tableOf
<1>10. S3Config(d, p) = [provider |-> S3Provider(d, options(d)),
                         upload_cutoff |-> IF ValueOf(d, "s3_chunked", "true") = "false" THEN "5Gi" ELSE "32Mi"] ++ options(d)
  BY DEF S3Config, options, own, kms, base, tableOf
<1> QED BY <1>2, <1>7, <1>8, <1>9, <1>10

LEMMA SameAzure ==
    ASSUME NEW c, NEW d, NEW p, Agree(c, d, Reads(c)), c.type = "azureblob"
    PROVE  AzureConfig(c, p) = AzureConfig(d, p)
<1>1. ValueOf(c, "subtype", Empty) = ValueOf(d, "subtype", Empty)
  <2>1. "subtype" \in Reads(c)
    BY DEF Reads
  <2> QED BY <2>1, AgreeValue
<1>2. IsProfile(c) = IsProfile(d)
  BY <1>1 DEF IsProfile
<1>3. CASE IsProfile(c)
  <2>1. "profile_source" \in Reads(c)
    BY <1>3 DEF Reads
  <2>2. IsAzureCli(c) = IsAzureCli(d)
    BY <2>1, AgreeValue DEF IsAzureCli
  <2>3. CASE IsAzureCli(c)
    <3> DEFINE table == [account |-> "azure_account"]
    <3>1. "azure_account" \in Reads(c)
      BY <1>3, <2>3 DEF Reads
    <3>2. \A o \in DOMAIN table : table[o] \in Reads(c)
      BY <3>1
    <3> HIDE DEF table
    <3>3. Take(c, table) = Take(d, table)
      BY <3>2, AgreeTake
    <3> QED BY <1>2, <1>3, <2>2, <2>3, <3>3 DEF AzureConfig, table
  <2>4. CASE ~IsAzureCli(c)
    <3>1. Take(c, NoSettings) = Take(d, NoSettings)
      BY AgreeTake DEF NoSettings
    <3> QED BY <1>2, <1>3, <2>2, <2>4, <3>1 DEF AzureConfig
  <2> QED BY <2>3, <2>4
<1>4. CASE ~IsProfile(c)
  <2> DEFINE table == IF ValueOf(c, "subtype", Empty) = "sas" THEN [sas_url |-> "azure_sas_url"]
                      ELSE [account |-> "azure_account", key |-> "azure_key"]
  <2>1. \A o \in DOMAIN table : table[o] \in Reads(c)
    BY <1>4 DEF Reads
  <2> HIDE DEF table
  <2>2. Take(c, table) = Take(d, table)
    BY <2>1, AgreeTake
  <2> QED BY <1>1, <1>2, <1>4, <2>2 DEF AzureConfig, table
<1> QED BY <1>3, <1>4

LEMMA SamePlain ==
    ASSUME NEW c, NEW d, Agree(c, d, Reads(c)), c.type \in DOMAIN PlainOptions \ {"s3", "azureblob"}, d.type = c.type
    PROVE  PlainConfig(c) = PlainConfig(d)
<1> DEFINE table == PlainOptions[c.type]
<1>1. \A o \in DOMAIN table : table[o] \in Reads(c)
  BY DEF Reads
<1> HIDE DEF table
<1>2. Take(c, table) = Take(d, table)
  BY <1>1, AgreeTake
<1> QED BY <1>2 DEF PlainConfig, table

\* What rclone gets depends on the columns of the type, and of how it is signed in, only.
LEMMA SameFormat ==
    ASSUME NEW c, NEW d, NEW h, Agree(c, d, Reads(c)), "type" \in DOMAIN c, c.type \in Types,
           c.type \notin {"s3", "azureblob"} => ~IsProfile(c) /\ ~IsProfile(d)
    PROVE  FormatCredentials(c, h) = FormatCredentials(d, h)
<1>1. "type" \in DOMAIN d /\ d.type = c.type
  BY DEF Agree, Alike, Reads
<1>2. \A options : WithoutTlsVerification(c, options) = WithoutTlsVerification(d, options)
  <2>1. ValueOf(c, "skip_tls_verify", "false") = ValueOf(d, "skip_tls_verify", "false")
    BY AgreeValue DEF Reads
  <2> QED BY <2>1 DEF WithoutTlsVerification
<1> DEFINE profile(x) == IF IsProfile(x) /\ x.type \in {"s3", "azureblob"}
                         THEN OwnersProfile(x, h) ELSE Resolved(NoSettings, NoSettings)
           options(x) == CASE x.type = "s3"        -> S3Config(x, profile(x).options)
                           [] x.type = "azureblob" -> AzureConfig(x, profile(x).options)
                           [] OTHER                -> PlainConfig(x)
<1>3. profile(c) = profile(d)
  <2>1. CASE c.type \in {"s3", "azureblob"}
    <3>1. IsProfile(c) = IsProfile(d)
      BY <2>1, AgreeValue DEF Reads, IsProfile
    <3>2. CASE IsProfile(c)
      <4>1. {"profile_source", "profile_name"} \subseteq Reads(c)
        BY <3>2 DEF Reads
      <4>2. /\ ValueOf(c, "profile_source", Empty) = ValueOf(d, "profile_source", Empty)
            /\ ValueOf(c, "profile_name", Empty) = ValueOf(d, "profile_name", Empty)
        BY <4>1, AgreeValue
      <4> QED BY <1>1, <3>1, <4>2 DEF OwnersProfile
    <3> QED BY <1>1, <3>1, <3>2
  <2>2. CASE c.type \notin {"s3", "azureblob"}
    BY <1>1, <2>2
  <2> QED BY <2>1, <2>2
<1>4. options(c) = options(d)
  <2> HIDE DEF profile
  <2>1. CASE c.type = "s3"
    BY <1>1, <1>3, <2>1, SameS3
  <2>2. CASE c.type = "azureblob"
    BY <1>1, <1>3, <2>2, SameAzure
  <2>3. CASE c.type \in DOMAIN PlainOptions \ {"s3", "azureblob"}
    BY <1>1, <2>3, SamePlain
  <2> QED BY <2>1, <2>2, <2>3 DEF Types
<1>5. FormatCredentials(c, h) = IF profile(c) = NotResolved THEN NotResolved
                                ELSE Resolved([type |-> c.type] ++ WithoutTlsVerification(c, options(c)), profile(c).env)
  BY DEF FormatCredentials
<1>6. FormatCredentials(d, h) = IF profile(d) = NotResolved THEN NotResolved
                                ELSE Resolved([type |-> d.type] ++ WithoutTlsVerification(d, options(d)), profile(d).env)
  BY DEF FormatCredentials
<1> HIDE DEF profile, options
<1> QED BY <1>1, <1>2, <1>3, <1>4, <1>5, <1>6

\* A connection without a profile does not look at the home directory.
LEMMA NoHomeNeeded ==
    ASSUME NEW c, NEW h, NEW g, ~IsProfile(c)
    PROVE  FormatCredentials(c, h) = FormatCredentials(c, g)
BY DEF FormatCredentials

\* A worker that has the profile columns gets the same as the central node.
LEMMA WorkerReads ==
    ASSUME NEW c, NEW g, NEW h, "type" \in DOMAIN c, c.type \in Types,
           IsProfile(c) => c.type \in {"s3", "azureblob"}
    PROVE  SideCredentials(TicketSide(c, g), h) = FormatCredentials(c, h)
<1>1. CASE ~IsProfile(c)
  BY <1>1, NoHomeNeeded DEF SideCredentials, TicketSide
<1>2. CASE IsProfile(c)
  <2> DEFINE d == Keep(c, ProfileFields)
  <2>1. Reads(c) \subseteq ProfileFields
    BY <1>2 DEF Reads, ProfileFields
  <2>2. Agree(c, d, Reads(c))
    BY <2>1 DEF Agree, Alike, Keep
  <2>3. FormatCredentials(c, h) = FormatCredentials(d, h)
    BY <1>2, <2>2, SameFormat
  <2> QED BY <1>2, <2>3 DEF SideCredentials, TicketSide
<1> QED BY <1>1, <1>2

-----------------------------------------------------------------------------
(* Column by column: what a form sends, what is kept, what the rules do.    *)

AppColumns == {"onedrive_client_id", "gdrive_client_id"}
TokenColumns == DOMAIN TokenClientColumns

LEMMA Apps ==
    /\ TokenColumns = {"onedrive_token", "gdrive_token"} /\ TokenColumns \subseteq SecretFields
    /\ \A t \in TokenColumns : TokenClientColumns[t] \in AppColumns
    /\ \A x \in AppColumns : \E t \in TokenColumns : x = TokenClientColumns[t]
    /\ \A columns : ClientsOf(columns) \subseteq AppColumns
    /\ \A columns : \A t \in TokenColumns : TokenClientColumns[t] \in ClientsOf(columns) <=> t \in columns
<1>1. TokenColumns = {"onedrive_token", "gdrive_token"}
  BY DEF TokenColumns, TokenClientColumns
<1>2. /\ TokenClientColumns["onedrive_token"] = "onedrive_client_id"
      /\ TokenClientColumns["gdrive_token"] = "gdrive_client_id"
  BY DEF TokenClientColumns
<1> QED BY <1>1, <1>2 DEF ClientsOf, AppColumns, SecretFields, TokenColumns

LEMMA FilledAt ==
    ASSUME NEW f
    PROVE  \A x : /\ x \in DOMAIN Filled(f) <=> x \in DOMAIN f /\ f[x] # Empty
                  /\ x \in DOMAIN Filled(f) => Filled(f)[x] = f[x]
BY DEF Filled, Keep

LEMMA KeepAt ==
    ASSUME NEW f, NEW columns
    PROVE  \A x : /\ x \in DOMAIN Keep(f, columns) <=> x \in DOMAIN f /\ x \in columns
                  /\ x \in DOMAIN Keep(f, columns) => Keep(f, columns)[x] = f[x]
BY DEF Keep

LEMMA WithoutAt ==
    ASSUME NEW f, NEW columns
    PROVE  \A x : /\ x \in DOMAIN Without(f, columns) <=> x \in DOMAIN f /\ x \notin columns
                  /\ x \in DOMAIN Without(f, columns) => Without(f, columns)[x] = f[x]
BY DEF Keep, Without

LEMMA MergedAt ==
    ASSUME NEW f, NEW g
    PROVE  \A x : /\ x \in DOMAIN (f ++ g) <=> x \in DOMAIN f \/ x \in DOMAIN g
                  /\ x \in DOMAIN f => (f ++ g)[x] = f[x]
                  /\ x \notin DOMAIN f /\ x \in DOMAIN g => (f ++ g)[x] = g[x]
BY DEF ++

LEMMA VerifiedAt ==
    ASSUME NEW f, NEW o
    PROVE  /\ \A x : x \notin SecretFields \cup AppColumns => Alike(Verified(f, o), Filled(f), x)
           /\ \A x \in DOMAIN Filled(f) : Alike(Verified(f, o), Filled(f), x)
           /\ \A x \in SecretFields \ DOMAIN Filled(f) : Alike(Verified(f, o), o, x)
           /\ \A t \in TokenColumns : TokenClientColumns[t] \notin DOMAIN f =>
                LET x == TokenClientColumns[t]
                IN  /\ x \in DOMAIN Verified(f, o) <=> x \in DOMAIN o /\ t \in DOMAIN o /\ t \notin DOMAIN Filled(f)
                    /\ x \in DOMAIN Verified(f, o) => Verified(f, o)[x] = o[x]
<1> DEFINE kept    == SecretFields \ DOMAIN Filled(f)
           brokers == {t \in kept \cap DOMAIN o : t \in DOMAIN TokenClientColumns}
           columns == kept \cup ClientsOf(brokers)
<1>1. Verified(f, o) = Filled(f) ++ Keep(o, columns)
  BY DEF Verified
<1>2. \A x : x \notin SecretFields \cup AppColumns => x \notin columns
  BY Apps
<1>3. \A x \in SecretFields \ DOMAIN Filled(f) : x \in columns
  OBVIOUS
<1>4. \A t \in TokenColumns : TokenClientColumns[t] \in columns <=> t \in DOMAIN o /\ t \notin DOMAIN Filled(f)
  <2>1. \A t \in TokenColumns : TokenClientColumns[t] \notin kept
    BY Apps DEF AppColumns, SecretFields
  <2>2. \A t \in TokenColumns : t \in brokers <=> t \in DOMAIN o /\ t \notin DOMAIN Filled(f)
    BY Apps DEF TokenColumns
  <2>3. \A t \in TokenColumns : TokenClientColumns[t] \in ClientsOf(brokers) <=> t \in brokers
    BY Apps
  <2> QED BY <2>1, <2>2, <2>3
<1> HIDE DEF columns
<1>5. \A x : /\ x \in DOMAIN Verified(f, o) <=> x \in DOMAIN Filled(f) \/ (x \in DOMAIN o /\ x \in columns)
             /\ x \in DOMAIN Filled(f) => Verified(f, o)[x] = Filled(f)[x]
             /\ x \notin DOMAIN Filled(f) /\ x \in DOMAIN Verified(f, o) => Verified(f, o)[x] = o[x]
  <2> DEFINE filled == Filled(f)
             stored == Keep(o, columns)
  <2>1. \A x : /\ x \in DOMAIN stored <=> x \in DOMAIN o /\ x \in columns
               /\ x \in DOMAIN stored => stored[x] = o[x]
    BY KeepAt
  <2>2. Verified(f, o) = filled ++ stored
    BY <1>1
  <2> HIDE DEF filled, stored
  <2>3. \A x : /\ x \in DOMAIN Verified(f, o) <=> x \in DOMAIN filled \/ x \in DOMAIN stored
               /\ x \in DOMAIN filled => Verified(f, o)[x] = filled[x]
               /\ x \notin DOMAIN filled /\ x \in DOMAIN stored => Verified(f, o)[x] = stored[x]
    BY <2>2, MergedAt
  <2> QED BY <2>1, <2>3 DEF filled
<1>6. \A t \in TokenColumns : TokenClientColumns[t] \notin DOMAIN f => TokenClientColumns[t] \notin DOMAIN Filled(f)
  BY FilledAt
<1>7. \A x : x \notin SecretFields \cup AppColumns => Alike(Verified(f, o), Filled(f), x)
  BY <1>2, <1>5 DEF Alike
<1>8. \A x \in DOMAIN Filled(f) : Alike(Verified(f, o), Filled(f), x)
  BY <1>5 DEF Alike
<1>9. \A x \in SecretFields \ DOMAIN Filled(f) : Alike(Verified(f, o), o, x)
  BY <1>3, <1>5 DEF Alike
<1>10. ASSUME NEW t \in TokenColumns, TokenClientColumns[t] \notin DOMAIN f
       PROVE  LET x == TokenClientColumns[t]
              IN  /\ x \in DOMAIN Verified(f, o) <=> x \in DOMAIN o /\ t \in DOMAIN o /\ t \notin DOMAIN Filled(f)
                  /\ x \in DOMAIN Verified(f, o) => Verified(f, o)[x] = o[x]
  BY <1>4, <1>5, <1>6, <1>10
<1> QED BY <1>7, <1>8, <1>9, <1>10

LEMMA UpdatedAt ==
    ASSUME NEW f, NEW o
    PROVE  /\ \A x \in DOMAIN f \ SecretFields : x \notin AppColumns => Alike(Updated(f, o), Filled(f), x)
           /\ \A x \in DOMAIN Filled(f) : Alike(Updated(f, o), Filled(f), x)
           /\ \A x \in SecretFields \ DOMAIN Filled(f) : Alike(Updated(f, o), o, x)
           /\ \A x : x \notin DOMAIN f \cup SecretFields \cup AppColumns => Alike(Updated(f, o), o, x)
           /\ \A t \in TokenColumns : TokenClientColumns[t] \notin DOMAIN f =>
                LET x == TokenClientColumns[t]
                IN  /\ x \in DOMAIN Updated(f, o) <=> x \in DOMAIN o /\ t \notin DOMAIN Filled(f)
                    /\ x \in DOMAIN Updated(f, o) => Updated(f, o)[x] = o[x]
<1> DEFINE sent == {c \in DOMAIN f : ~(c \in SecretFields /\ f[c] = Empty)}
           gone == sent \cup ClientsOf(sent)
<1>1. Updated(f, o) = Filled(Keep(f, sent)) ++ Without(o, gone)
  BY DEF Updated
<1>2. \A x : /\ x \in DOMAIN Filled(Keep(f, sent)) <=> x \in DOMAIN Filled(f)
             /\ x \in DOMAIN Filled(f) => Filled(Keep(f, sent))[x] = Filled(f)[x]
  BY FilledAt, KeepAt
<1>3. \A x \in SecretFields : x \in sent <=> x \in DOMAIN Filled(f)
  BY FilledAt
<1>4. \A x \in SecretFields : x \in gone <=> x \in DOMAIN Filled(f)
  BY <1>3, Apps DEF AppColumns, SecretFields
<1>5. \A x \in DOMAIN f \ SecretFields : x \in gone
  OBVIOUS
<1>6. \A x : x \notin DOMAIN f \cup SecretFields \cup AppColumns => x \notin gone
  BY Apps
<1>7. \A t \in TokenColumns : TokenClientColumns[t] \notin DOMAIN f =>
        (TokenClientColumns[t] \in gone <=> t \in DOMAIN Filled(f))
  BY <1>3, Apps
<1>8. \A x : x \in DOMAIN Filled(f) => x \in DOMAIN f
  BY FilledAt
<1> HIDE DEF sent, gone
<1>9. \A x : /\ x \in DOMAIN Updated(f, o) <=> x \in DOMAIN Filled(f) \/ (x \in DOMAIN o /\ x \notin gone)
             /\ x \in DOMAIN Filled(f) => Updated(f, o)[x] = Filled(f)[x]
             /\ x \notin DOMAIN Filled(f) /\ x \in DOMAIN Updated(f, o) => Updated(f, o)[x] = o[x]
  <2> DEFINE filled == Filled(Keep(f, sent))
             stored == Without(o, gone)
  <2>1. \A x : /\ x \in DOMAIN stored <=> x \in DOMAIN o /\ x \notin gone
               /\ x \in DOMAIN stored => stored[x] = o[x]
    BY WithoutAt
  <2>2. Updated(f, o) = filled ++ stored
    BY <1>1
  <2>3. \A x : /\ x \in DOMAIN filled <=> x \in DOMAIN Filled(f)
               /\ x \in DOMAIN filled => filled[x] = Filled(f)[x]
    BY <1>2
  <2> HIDE DEF filled, stored
  <2>4. \A x : /\ x \in DOMAIN Updated(f, o) <=> x \in DOMAIN filled \/ x \in DOMAIN stored
               /\ x \in DOMAIN filled => Updated(f, o)[x] = filled[x]
               /\ x \notin DOMAIN filled /\ x \in DOMAIN stored => Updated(f, o)[x] = stored[x]
    BY <2>2, MergedAt
  <2> QED BY <2>1, <2>3, <2>4
<1>10. \A x \in DOMAIN f \ SecretFields : x \notin AppColumns => Alike(Updated(f, o), Filled(f), x)
  BY <1>5, <1>9 DEF Alike
<1>11. \A x \in DOMAIN Filled(f) : Alike(Updated(f, o), Filled(f), x)
  BY <1>9 DEF Alike
<1>12. \A x \in SecretFields \ DOMAIN Filled(f) : Alike(Updated(f, o), o, x)
  BY <1>4, <1>9 DEF Alike
<1>13. \A x : x \notin DOMAIN f \cup SecretFields \cup AppColumns => Alike(Updated(f, o), o, x)
  BY <1>6, <1>8, <1>9 DEF Alike
<1>14. ASSUME NEW t \in TokenColumns, TokenClientColumns[t] \notin DOMAIN f
       PROVE  LET x == TokenClientColumns[t]
              IN  /\ x \in DOMAIN Updated(f, o) <=> x \in DOMAIN o /\ t \notin DOMAIN Filled(f)
                  /\ x \in DOMAIN Updated(f, o) => Updated(f, o)[x] = o[x]
  BY <1>7, <1>8, <1>9, <1>14
<1> QED BY <1>10, <1>11, <1>12, <1>13, <1>14

\* A new connection is an update of none.
LEMMA CreatedIsUpdated ==
    ASSUME NEW f, "type" \in DOMAIN f, Complete(f)
    PROVE  Created(f) = Updated(f, NoRow)
<1> DEFINE sent == {c \in DOMAIN f : ~(c \in SecretFields /\ f[c] = Empty)}
<1>1. sent = DOMAIN f
  BY DEF Complete
<1>2. Keep(f, sent) = [c \in DOMAIN f |-> f[c]]
  BY <1>1 DEF Keep
<1>3. Filled(Keep(f, sent)) = Filled(f)
  BY <1>2 DEF Filled, Keep
<1>4. DOMAIN Without(NoRow, sent \cup ClientsOf(sent)) = {}
  <2>1. DOMAIN NoRow = {"type"}
    BY DEF NoRow
  <2> DEFINE gone == sent \cup ClientsOf(sent)
  <2>2. "type" \in gone
    BY <1>1
  <2> HIDE DEF gone
  <2>3. \A x : x \notin DOMAIN Without(NoRow, gone)
    BY <2>1, <2>2, WithoutAt
  <2> QED BY <2>3 DEF gone
<1>5. Filled(f) = [c \in DOMAIN Filled(f) |-> Filled(f)[c]]
  BY DEF Filled, Keep
<1> HIDE DEF sent
<1>6. Filled(f) ++ Without(NoRow, sent \cup ClientsOf(sent)) = Filled(f)
  BY <1>4, <1>5 DEF ++
<1> QED BY <1>3, <1>6 DEF Created, Updated, sent

LEMMA CreatedIsVerified ==
    ASSUME NEW f
    PROVE  Created(f) = Verified(f, NoRow)
<1> DEFINE kept    == SecretFields \ DOMAIN Filled(f)
           brokers == {t \in kept \cap DOMAIN NoRow : t \in DOMAIN TokenClientColumns}
<1>1. DOMAIN NoRow = {"type"} /\ "type" \notin SecretFields /\ "type" \notin AppColumns
  BY DEF NoRow, SecretFields, AppColumns
<1>2. DOMAIN Keep(NoRow, kept \cup ClientsOf(brokers)) = {}
  <2> DEFINE columns == kept \cup ClientsOf(brokers)
  <2>1. "type" \notin columns
    BY <1>1, Apps
  <2> HIDE DEF columns
  <2>2. \A x : x \notin DOMAIN Keep(NoRow, columns)
    BY <1>1, <2>1, KeepAt
  <2> QED BY <2>2 DEF columns
<1>3. Filled(f) = [c \in DOMAIN Filled(f) |-> Filled(f)[c]]
  BY DEF Filled, Keep
<1> HIDE DEF kept, brokers
<1>4. Filled(f) ++ Keep(NoRow, kept \cup ClientsOf(brokers)) = Filled(f)
  BY <1>2, <1>3 DEF ++
<1> QED BY <1>4 DEF Created, Verified, kept, brokers

RuledColumns == {"s3_provider", "s3_chunked", "s3_skip_checks"}

LEMMA S3RulesAt ==
    ASSUME NEW c, NEW new
    PROVE  /\ \A x : x \notin RuledColumns => Alike(ApplyS3Rules(c, new), c, x)
           /\ c.type = "s3" =>
                LET r == ApplyS3Rules(c, new)
                    skip == IF StoredProvider(c) \in CheckSkippingProviders THEN AskedSkip(c, new) ELSE Empty
                IN  /\ "s3_provider" \in DOMAIN r /\ r.s3_provider = StoredProvider(c)
                    /\ "s3_chunked" \in DOMAIN r /\ r.s3_chunked = ValueOf(c, "s3_chunked", "true")
                    /\ ValueOf(r, "s3_skip_checks", Empty) = skip
<1>1. CASE c.type # "s3"
  <2> DEFINE chunked == [s3_chunked |-> "true"]
             rest == Without(c, {"s3_provider", "s3_skip_checks"})
  <2>1. ApplyS3Rules(c, new) = chunked ++ rest
    BY <1>1 DEF ApplyS3Rules
  <2>2. DOMAIN chunked = {"s3_chunked"}
    OBVIOUS
  <2>3. \A x : x \notin RuledColumns => Alike(rest, c, x)
    BY WithoutAt DEF Alike, RuledColumns
  <2> HIDE DEF chunked, rest
  <2>4. \A x : x \notin RuledColumns => Alike(ApplyS3Rules(c, new), rest, x)
    BY <2>1, <2>2, MergedAt DEF Alike, RuledColumns
  <2>5. \A x : x \notin RuledColumns => Alike(ApplyS3Rules(c, new), c, x)
    BY <2>3, <2>4 DEF Alike
  <2> QED BY <1>1, <2>5
<1>2. CASE c.type = "s3"
  <2> DEFINE provider == StoredProvider(c)
             chunked == ValueOf(c, "s3_chunked", "true")
             skip == IF provider \in CheckSkippingProviders THEN AskedSkip(c, new) ELSE Empty
             set == [s3_provider |-> provider, s3_chunked |-> chunked]
             checks == IF skip = Empty THEN NoSettings ELSE [s3_skip_checks |-> skip]
             rest == Without(c, {"s3_skip_checks"})
  <2>1. ApplyS3Rules(c, new) = (set ++ checks) ++ rest
    BY <1>2 DEF ApplyS3Rules
  <2>2. /\ DOMAIN set = {"s3_provider", "s3_chunked"} /\ set.s3_provider = provider /\ set.s3_chunked = chunked
        /\ DOMAIN checks = (IF skip = Empty THEN {} ELSE {"s3_skip_checks"})
        /\ skip # Empty => checks.s3_skip_checks = skip
    BY DEF NoSettings
  <2>3. /\ \A x : x \notin RuledColumns => Alike(rest, c, x)
        /\ "s3_skip_checks" \notin DOMAIN rest
    BY WithoutAt DEF Alike, RuledColumns
  <2> HIDE DEF set, checks, rest, skip, chunked, provider
  <2> DEFINE head == set ++ checks
  <2>4. \A x : /\ x \in DOMAIN head <=> x \in DOMAIN set \/ x \in DOMAIN checks
               /\ x \in DOMAIN set => head[x] = set[x]
               /\ x \notin DOMAIN set /\ x \in DOMAIN checks => head[x] = checks[x]
    BY MergedAt
  <2>5. ApplyS3Rules(c, new) = head ++ rest
    BY <2>1
  <2> HIDE DEF head
  <2> DEFINE r == ApplyS3Rules(c, new)
  <2>6. \A x : /\ x \in DOMAIN r <=> x \in DOMAIN head \/ x \in DOMAIN rest
               /\ x \in DOMAIN head => r[x] = head[x]
               /\ x \notin DOMAIN head /\ x \in DOMAIN rest => r[x] = rest[x]
    BY <2>5, MergedAt
  <2> HIDE DEF r
  <2>7. \A x : x \notin RuledColumns => x \notin DOMAIN head
    BY <2>2, <2>4 DEF RuledColumns
  <2>8. \A x : x \notin RuledColumns => Alike(r, c, x)
    BY <2>3, <2>6, <2>7 DEF Alike
  <2>9. /\ "s3_provider" \in DOMAIN r /\ r.s3_provider = provider
        /\ "s3_chunked" \in DOMAIN r /\ r.s3_chunked = chunked
    BY <2>2, <2>4, <2>6
  <2>10. ValueOf(r, "s3_skip_checks", Empty) = skip
    <3>1. CASE skip = Empty
      <4>1. "s3_skip_checks" \notin DOMAIN r
        BY <2>2, <2>3, <2>4, <2>6, <3>1
      <4> QED BY <3>1, <4>1 DEF ValueOf
    <3>2. CASE skip # Empty
      <4>1. "s3_skip_checks" \in DOMAIN r /\ r.s3_skip_checks = skip
        BY <2>2, <2>4, <2>6, <3>2
      <4> QED BY <4>1 DEF ValueOf
    <3> QED BY <3>1, <3>2
  <2> QED BY <2>8, <2>9, <2>10 DEF provider, chunked, skip, r
<1> QED BY <1>1, <1>2

\* What the rules of profiles remove.
Removed(c) ==
    IF IsProfile(c) THEN ProfileReplaces[c.type] \ IF IsAzureCli(c) THEN {"azure_account"} ELSE {}
    ELSE {"profile_source", "profile_name"}

LEMMA ProfileRulesAt ==
    ASSUME NEW c
    PROVE  \A x : /\ x \in DOMAIN ApplyProfileRules(c) <=> x \in DOMAIN c /\ x \notin Removed(c)
                  /\ x \in DOMAIN ApplyProfileRules(c) => ApplyProfileRules(c)[x] = c[x]
<1>1. ApplyProfileRules(c) = Without(c, Removed(c))
  BY DEF ApplyProfileRules, Removed
<1> QED BY <1>1, WithoutAt

\* Only S3 and Azure have profiles.
LEMMA ProfileTypes ==
    ASSUME NEW c, NEW h, ~ProfileRefused(c, h), IsProfile(c)
    PROVE  c.type \in {"s3", "azureblob"}
<1>1. OwnersProfile(c, h) # NotResolved
  BY DEF ProfileRefused
<1> QED BY <1>1 DEF OwnersProfile, Resolve, ValidReference

-----------------------------------------------------------------------------
(* Forms.                                                                   *)

\* An edit form without its secrets is a form as well.
LEMMA SubmittedForms ==
    ASSUME NEW f \in Submitted
    PROVE  IsForm(f)
<1>1. PICK g \in Forms : f \in Variants(g)
  BY DEF Submitted
<1>2. IsForm(g)
  BY FormsAssumption
<1>3. DOMAIN f = DOMAIN g /\ \A x \in DOMAIN g \ SecretFields : f[x] = g[x]
  BY <1>1 DEF Variants
<1>4. /\ "type" \notin SecretFields /\ "subtype" \notin SecretFields /\ "profile_source" \notin SecretFields
      /\ "s3_provider" \notin SecretFields
  BY DEF SecretFields
<1>5. f.type = g.type
  BY <1>2, <1>3, <1>4 DEF IsForm
<1>6. /\ ValueOf(f, "subtype", Empty) = ValueOf(g, "subtype", Empty)
      /\ ValueOf(f, "profile_source", Empty) = ValueOf(g, "profile_source", Empty)
  BY <1>3, <1>4 DEF ValueOf
<1>7. Rendered(f) = Rendered(g)
  BY <1>5, <1>6 DEF Rendered, IsProfile, IsAzureCli
<1>8. (IsProfile(f) <=> IsProfile(g)) /\ (IsAzureCli(f) <=> IsAzureCli(g))
  BY <1>6 DEF IsProfile, IsAzureCli
<1>9. g.type = "azureblob" => "subtype" \in DOMAIN g
  BY <1>2 DEF IsForm, Rendered
<1>10. f.type = "azureblob" => f.subtype \in {"key", "sas", "profile"}
  BY <1>2, <1>3, <1>4, <1>5, <1>9 DEF IsForm
<1>11. g.type = "s3" => "s3_provider" \in DOMAIN g
  BY <1>2 DEF IsForm, Rendered
<1>12. "s3_skip_checks" \in DOMAIN f => f.type = "s3" /\ f.s3_provider \in CheckSkippingProviders
  BY <1>2, <1>3, <1>4, <1>5, <1>11 DEF IsForm
<1> QED BY <1>2, <1>3, <1>5, <1>7, <1>8, <1>10, <1>12 DEF IsForm

PlainColumns ==
    {"swift_user", "swift_key", "swift_auth", "swift_tenant", "gcp_client_id", "gcp_object_acl", "gcp_bucket_acl",
     "gcp_service_account_credentials", "gcp_project_number", "sftp_host", "sftp_port", "sftp_user", "sftp_pass",
     "sftp_key_file", "dropbox_token", "onedrive_token", "onedrive_drive_id", "onedrive_drive_type",
     "gdrive_token", "gdrive_client_id", "gdrive_root_folder_id", "gdrive_team_drive",
     "webdav_url", "webdav_user", "webdav_pass"}

LEMMA PlainOptionColumns ==
    /\ DOMAIN PlainOptions = {"swift", "google cloud storage", "sftp", "dropbox", "onedrive", "drive", "webdav"}
    /\ \A type \in DOMAIN PlainOptions : \A o \in DOMAIN PlainOptions[type] : PlainOptions[type][o] \in PlainColumns
<1>1. DOMAIN PlainOptions = {"swift", "google cloud storage", "sftp", "dropbox", "onedrive", "drive", "webdav"}
  BY DEF PlainOptions
<1>2. ASSUME NEW type \in DOMAIN PlainOptions, NEW o \in DOMAIN PlainOptions[type]
      PROVE  PlainOptions[type][o] \in PlainColumns
  <2>1. CASE type = "swift"
    BY <1>2, <2>1 DEF PlainOptions, PlainColumns
  <2>2. CASE type = "google cloud storage"
    <3> DEFINE options == [client_id |-> "gcp_client_id", object_acl |-> "gcp_object_acl", bucket_acl |-> "gcp_bucket_acl",
                           service_account_credentials |-> "gcp_service_account_credentials",
                           project_number |-> "gcp_project_number"]
    <3>1. PlainOptions[type] = options
      BY <2>2 DEF PlainOptions
    <3>2. /\ DOMAIN options = {"client_id", "object_acl", "bucket_acl", "service_account_credentials", "project_number"}
          /\ options.client_id = "gcp_client_id" /\ options.object_acl = "gcp_object_acl"
          /\ options.bucket_acl = "gcp_bucket_acl"
          /\ options.service_account_credentials = "gcp_service_account_credentials"
          /\ options.project_number = "gcp_project_number"
      OBVIOUS
    <3> HIDE DEF options
    <3> QED BY <1>2, <3>1, <3>2 DEF PlainColumns
  <2>3. CASE type = "sftp"
    BY <1>2, <2>3 DEF PlainOptions, PlainColumns
  <2>4. CASE type = "dropbox"
    BY <1>2, <2>4 DEF PlainOptions, PlainColumns
  <2>5. CASE type = "onedrive"
    BY <1>2, <2>5 DEF PlainOptions, PlainColumns
  <2>6. CASE type = "drive"
    BY <1>2, <2>6 DEF PlainOptions, PlainColumns
  <2>7. CASE type = "webdav"
    BY <1>2, <2>7 DEF PlainOptions, PlainColumns
  <2> QED BY <1>1, <2>1, <2>2, <2>3, <2>4, <2>5, <2>6, <2>7
<1> QED BY <1>1, <1>2

\* What is read of a connection like the form is in the form, or a secret, or one of these.
Unsent == {"gdrive_client_id", "skip_tls_verify", "sftp_key_file", "s3_v2_auth"}

LEMMA FormReads ==
    ASSUME NEW f, IsForm(f)
    PROVE  /\ Reads(f) \subseteq DOMAIN f \cup SecretFields \cup Unsent
           /\ f.type # "s3" => Reads(f) \cap {"s3_provider", "s3_chunked"} = {}
           /\ f.type = "s3" => {"s3_provider", "s3_endpoint", "s3_chunked", "subtype"} \subseteq DOMAIN f
           /\ f.type = "azureblob" => "subtype" \in DOMAIN f
           /\ IsProfile(f) => "profile_source" \in DOMAIN f
           /\ "s3_skip_checks" \notin Reads(f)
           /\ Reads(f) \cap Removed(f) = {}
<1>1. CASE f.type = "s3"
  <2>1. CASE IsProfile(f)
    BY <1>1, <2>1 DEF IsForm, Reads, Rendered, SecretFields, Unsent, Removed, ProfileReplaces
  <2>2. CASE ~IsProfile(f)
    BY <1>1, <2>2 DEF IsForm, Reads, Rendered, SecretFields, Unsent, Removed
  <2> QED BY <2>1, <2>2
<1>2. CASE f.type = "azureblob"
  <2>1. "subtype" \in Rendered(f) /\ (IsProfile(f) => {"profile_source", "profile_name"} \subseteq Rendered(f))
    BY <1>2 DEF Rendered
  <2>2. CASE IsProfile(f)
    <3>1. IsAzureCli(f) => "azure_account" \in Rendered(f)
      BY <1>2, <2>2 DEF Rendered
    <3>2. Reads(f) = {"type", "skip_tls_verify", "subtype", "profile_source", "profile_name"}
                       \cup IF IsAzureCli(f) THEN {"azure_account"} ELSE {}
      BY <1>2, <2>2 DEF Reads
    <3>3. Removed(f) = {"azure_account", "azure_key", "azure_sas_url"} \ IF IsAzureCli(f) THEN {"azure_account"} ELSE {}
      BY <1>2, <2>2 DEF Removed, ProfileReplaces
    <3> QED BY <1>2, <2>1, <2>2, <3>1, <3>2, <3>3 DEF IsForm, Unsent
  <2>3. CASE ~IsProfile(f)
    <3>1. f.subtype \in {"key", "sas"} /\ ValueOf(f, "subtype", Empty) = f.subtype
      BY <1>2, <2>1, <2>3 DEF IsForm, IsProfile, ValueOf
    <3>2. f.subtype = "key" => "azure_account" \in Rendered(f)
      BY <1>2, <3>1 DEF Rendered
    <3>3. Reads(f) = {"type", "skip_tls_verify", "subtype"}
                       \cup IF f.subtype = "sas" THEN {"azure_sas_url"} ELSE {"azure_account", "azure_key"}
      BY <1>2, <2>3, <3>1 DEF Reads
    <3> QED BY <1>2, <2>1, <2>3, <3>1, <3>2, <3>3 DEF IsForm, Unsent, SecretFields, Removed
  <2> QED BY <2>2, <2>3
<1>3. CASE f.type \in DOMAIN PlainOptions
  <2>1. f.type \notin {"s3", "azureblob"} /\ ~IsProfile(f)
    BY <1>3, PlainOptionColumns DEF IsForm
  <2> DEFINE columns == {PlainOptions[f.type][o] : o \in DOMAIN PlainOptions[f.type]}
  <2>2. columns \subseteq PlainColumns
    BY <1>3, PlainOptionColumns
  <2> HIDE DEF columns
  <2>3. Reads(f) = {"type", "skip_tls_verify"} \cup columns
    BY <2>1 DEF Reads, columns
  <2>4. columns \ (SecretFields \cup {"sftp_key_file", "gdrive_client_id"}) \subseteq DOMAIN f
    BY <2>1 DEF Rendered, IsForm, columns
  <2>5. Reads(f) \subseteq DOMAIN f \cup SecretFields \cup Unsent
    BY <2>3, <2>4 DEF IsForm, Unsent
  <2>6. Removed(f) = {"profile_source", "profile_name"}
    BY <2>1 DEF Removed
  <2> QED BY <2>1, <2>2, <2>3, <2>5, <2>6 DEF PlainColumns
<1> QED BY <1>1, <1>2, <1>3 DEF IsForm

\* A connection that is of the type, and signs in the way, of the form is read like it.
LooksLike(c, f) ==
    /\ "type" \in DOMAIN c /\ c.type = f.type
    /\ IsProfile(c) <=> IsProfile(f)
    /\ f.type \in {"s3", "azureblob"} => ValueOf(c, "subtype", Empty) = ValueOf(f, "subtype", Empty)
    /\ IsProfile(f) => (IsAzureCli(c) <=> IsAzureCli(f))

LEMMA ReadsLike ==
    ASSUME NEW f, NEW c, LooksLike(c, f)
    PROVE  Reads(c) = Reads(f) /\ Removed(c) = Removed(f)
BY DEF LooksLike, Reads, Removed

-----------------------------------------------------------------------------
(* One save.                                                                *)

AsTested(form, c)      == ApplyS3Rules(Verified(form, c), FALSE)
Saved(form, c, new)    == ApplyRules(Updated(form, c), new)

StoredWell(c) ==
    /\ "type" \in DOMAIN c
    /\ c # NoRow => c.type \in Types
    /\ "s3_v2_auth" \notin DOMAIN c
    /\ \A t \in TokenColumns : TokenClientColumns[t] \in DOMAIN c => t \in DOMAIN c
    /\ IsProfile(c) => c.type \in {"s3", "azureblob"}

LEMMA FilledValue ==
    ASSUME NEW f, NEW x
    PROVE  ValueOf(Filled(f), x, Empty) = ValueOf(f, x, Empty)
BY FilledAt DEF ValueOf

LEMMA AlikeLike ==
    ASSUME NEW f, NEW c, NEW d, LooksLike(c, f), Alike(d, c, "type"),
           IsProfile(d) <=> IsProfile(f),
           f.type \in {"s3", "azureblob"} => Alike(d, c, "subtype"),
           IsProfile(f) => Alike(d, c, "profile_source")
    PROVE  LooksLike(d, f)
<1>1. f.type \in {"s3", "azureblob"} => ValueOf(d, "subtype", Empty) = ValueOf(c, "subtype", Empty)
  BY DEF Alike, ValueOf
<1>2. IsProfile(f) => ValueOf(d, "profile_source", Empty) = ValueOf(c, "profile_source", Empty)
  BY DEF Alike, ValueOf
<1>3. "type" \in DOMAIN d /\ d.type = f.type
  BY DEF Alike, LooksLike
<1> QED BY <1>1, <1>2, <1>3 DEF LooksLike, IsAzureCli

LEMMA TypeColumns ==
    /\ {"type", "subtype", "profile_source"} \cap (SecretFields \cup AppColumns \cup RuledColumns) = {}
    /\ \A f : IsForm(f) => {"type", "subtype"} \cap Removed(f) = {}
    /\ \A f : IsForm(f) /\ IsProfile(f) => "profile_source" \notin Removed(f)
<1>1. {"type", "subtype", "profile_source"} \cap (SecretFields \cup AppColumns \cup RuledColumns) = {}
  BY DEF SecretFields, AppColumns, RuledColumns
<1>2. ASSUME NEW f, IsForm(f), IsProfile(f)
      PROVE  {"type", "subtype", "profile_source"} \cap Removed(f) = {}
  <2>1. f.type \in {"s3", "azureblob"}
    BY <1>2 DEF IsForm
  <2> QED BY <1>2, <2>1 DEF Removed, ProfileReplaces
<1>3. ASSUME NEW f, ~IsProfile(f)
      PROVE  {"type", "subtype"} \cap Removed(f) = {}
  BY <1>3 DEF Removed
<1> QED BY <1>1, <1>2, <1>3

LEMMA FormType ==
    ASSUME NEW f, IsForm(f)
    PROVE  "type" \in DOMAIN Filled(f) /\ f.type \in Types
<1>1. f.type \in Types /\ "type" \in DOMAIN f
  BY DEF IsForm, Types
<1>2. f.type # Empty
  BY <1>1, PlainOptionColumns DEF Types, Empty
<1> QED BY <1>1, <1>2, FilledAt

LEMMA FilledLike ==
    ASSUME NEW f, IsForm(f)
    PROVE  LooksLike(Filled(f), f)
<1>1. "type" \in DOMAIN Filled(f) /\ Filled(f).type = f.type
  BY FormType, FilledAt
<1> QED BY <1>1, FilledValue DEF LooksLike, IsProfile, IsAzureCli

LEMMA VerifiedLike ==
    ASSUME NEW f, NEW o, IsForm(f)
    PROVE  LooksLike(AsTested(f, o), f)
<1> DEFINE v == Verified(f, o)
           a == AsTested(f, o)
<1>1. \A x \in {"type", "subtype", "profile_source"} : Alike(v, Filled(f), x) /\ Alike(a, v, x)
  BY TypeColumns, VerifiedAt, S3RulesAt DEF AsTested
<1> HIDE DEF v, a
<1>2. \A x \in {"type", "subtype", "profile_source"} : Alike(a, Filled(f), x)
  BY <1>1 DEF Alike
<1>3. IsProfile(a) <=> IsProfile(f)
  <2>1. ValueOf(a, "subtype", Empty) = ValueOf(Filled(f), "subtype", Empty)
    BY <1>2 DEF Alike, ValueOf
  <2> QED BY <2>1, FilledValue DEF IsProfile
<1>4. LooksLike(a, f)
  BY <1>2, <1>3, AlikeLike, FilledLike
<1> QED BY <1>4 DEF a

\* What the rules of profiles remove of what was sent follows from the form.
LEMMA UpdatedLike ==
    ASSUME NEW f, NEW o, NEW new, NEW h, IsForm(f), ~Refused(Updated(f, o), new, h)
    PROVE  LET s == ApplyS3Rules(Updated(f, o), new)
           IN  /\ LooksLike(s, f) /\ Removed(s) = Removed(f)
               /\ Updated(f, o).type = f.type /\ (IsProfile(Updated(f, o)) <=> IsProfile(f))
<1> DEFINE c == Updated(f, o)
           s == ApplyS3Rules(c, new)
<1>1. \A x \in {"type", "subtype", "profile_source"} \cap DOMAIN f : Alike(c, Filled(f), x)
  BY TypeColumns, UpdatedAt
<1>2. \A x \in {"type", "subtype", "profile_source"} : Alike(s, c, x)
  BY TypeColumns, S3RulesAt
<1>3. ~ProfileRefused(c, h)
  BY DEF Refused
<1> HIDE DEF c, s
<1>4. "type" \in DOMAIN f /\ (f.type \in {"s3", "azureblob"} => "subtype" \in DOMAIN f)
  BY FormReads DEF IsForm
<1>5. "type" \in DOMAIN c /\ c.type = f.type
  BY <1>1, <1>4, FormType, FilledAt DEF Alike
<1>6. f.type \in {"s3", "azureblob"} => ValueOf(c, "subtype", Empty) = ValueOf(f, "subtype", Empty)
  <2> SUFFICES ASSUME f.type \in {"s3", "azureblob"}
               PROVE  ValueOf(c, "subtype", Empty) = ValueOf(f, "subtype", Empty)
    OBVIOUS
  <2>1. Alike(c, Filled(f), "subtype")
    BY <1>1, <1>4
  <2>2. ValueOf(c, "subtype", Empty) = ValueOf(Filled(f), "subtype", Empty)
    BY <2>1 DEF Alike, ValueOf
  <2> QED BY <2>2, FilledValue
<1>7. IsProfile(c) <=> IsProfile(f)
  <2>1. CASE f.type \in {"s3", "azureblob"}
    BY <1>6, <2>1 DEF IsProfile
  <2>2. CASE f.type \notin {"s3", "azureblob"}
    BY <1>3, <1>5, <2>2, ProfileTypes DEF IsForm
  <2> QED BY <2>1, <2>2
<1>8. IsProfile(f) => (IsAzureCli(c) <=> IsAzureCli(f))
  <2> SUFFICES ASSUME IsProfile(f) PROVE IsAzureCli(c) <=> IsAzureCli(f)
    OBVIOUS
  <2>1. Alike(c, Filled(f), "profile_source")
    BY <1>1, FormReads
  <2>2. ValueOf(c, "profile_source", Empty) = ValueOf(Filled(f), "profile_source", Empty)
    BY <2>1 DEF Alike, ValueOf
  <2> QED BY <2>2, FilledValue DEF IsAzureCli
<1>9. LooksLike(c, f)
  BY <1>5, <1>6, <1>7, <1>8 DEF LooksLike
<1>10. IsProfile(s) <=> IsProfile(f)
  <2>1. ValueOf(s, "subtype", Empty) = ValueOf(c, "subtype", Empty)
    BY <1>2 DEF Alike, ValueOf
  <2> QED BY <1>7, <2>1 DEF IsProfile
<1>11. LooksLike(s, f)
  BY <1>2, <1>9, <1>10, AlikeLike
<1> QED BY <1>5, <1>7, <1>11, ReadsLike DEF s, c

\* The stored connection has what was sent and kept, but for the columns that a rule sets or
\* removes.
LEMMA SavedAt ==
    ASSUME NEW f, NEW o, NEW new, NEW h, IsForm(f), ~Refused(Updated(f, o), new, h)
    PROVE  LET r == Saved(f, o, new)
           IN  /\ LooksLike(r, f)
               /\ \A x \in Removed(f) : x \notin DOMAIN r
               /\ \A x : x \notin RuledColumns \cup Removed(f) => Alike(r, Updated(f, o), x)
               /\ \A x : x \notin Removed(f) => Alike(r, ApplyS3Rules(Updated(f, o), new), x)
<1> DEFINE c == Updated(f, o)
           s == ApplyS3Rules(c, new)
           r == Saved(f, o, new)
<1>1. LooksLike(s, f) /\ Removed(s) = Removed(f)
  BY UpdatedLike
<1>2. \A x : x \notin RuledColumns => Alike(s, c, x)
  BY S3RulesAt
<1>3. r = ApplyProfileRules(s)
  BY DEF Saved, ApplyRules
<1> HIDE DEF c, s, r
<1>4. \A x : /\ x \in DOMAIN r <=> x \in DOMAIN s /\ x \notin Removed(f)
             /\ x \in DOMAIN r => r[x] = s[x]
  BY <1>1, <1>3, ProfileRulesAt
<1>5. \A x : x \notin Removed(f) => Alike(r, s, x)
  BY <1>4 DEF Alike
<1>6. \A x : x \notin RuledColumns \cup Removed(f) => Alike(r, c, x)
  BY <1>2, <1>5 DEF Alike
<1>7. LooksLike(r, f)
  <2>1. Alike(r, s, "type") /\ Alike(r, s, "subtype") /\ (IsProfile(f) => Alike(r, s, "profile_source"))
    BY <1>5, TypeColumns
  <2>2. IsProfile(r) <=> IsProfile(f)
    <3>1. ValueOf(r, "subtype", Empty) = ValueOf(s, "subtype", Empty)
      BY <2>1 DEF Alike, ValueOf
    <3> QED BY <1>1, <3>1 DEF IsProfile, LooksLike
  <2> QED BY <1>1, <2>1, <2>2, AlikeLike
<1> QED BY <1>4, <1>5, <1>6, <1>7 DEF r, c, s

\* What is kept of a connection that was not filled in is what its test has: neither what
\* was sent, nor a secret, nor the app of a token differs.
LEMMA UpdatedIsVerified ==
    ASSUME NEW f, NEW o, IsForm(f), StoredWell(o)
    PROVE  \A x \in DOMAIN f \cup SecretFields \cup AppColumns : Alike(Updated(f, o), Verified(f, o), x)
<1>1. DOMAIN f \cap AppColumns = {}
  BY DEF IsForm, AppColumns
<1>2. ASSUME NEW x \in DOMAIN f \ SecretFields
      PROVE  Alike(Updated(f, o), Verified(f, o), x)
  <2>1. x \notin AppColumns
    BY <1>1
  <2>2. Alike(Updated(f, o), Filled(f), x)
    BY <2>1, UpdatedAt
  <2>3. Alike(Verified(f, o), Filled(f), x)
    BY <2>1, VerifiedAt
  <2> QED BY <2>2, <2>3 DEF Alike
<1>3. ASSUME NEW x \in SecretFields
      PROVE  Alike(Updated(f, o), Verified(f, o), x)
  <2>1. CASE x \in DOMAIN Filled(f)
    <3>1. Alike(Updated(f, o), Filled(f), x) /\ Alike(Verified(f, o), Filled(f), x)
      BY <2>1, UpdatedAt, VerifiedAt
    <3> QED BY <3>1 DEF Alike
  <2>2. CASE x \notin DOMAIN Filled(f)
    <3>1. Alike(Updated(f, o), o, x) /\ Alike(Verified(f, o), o, x)
      BY <2>2, UpdatedAt, VerifiedAt
    <3> QED BY <3>1 DEF Alike
  <2> QED BY <2>1, <2>2
<1>4. ASSUME NEW x \in AppColumns
      PROVE  Alike(Updated(f, o), Verified(f, o), x)
  <2>1. PICK t \in TokenColumns : x = TokenClientColumns[t]
    BY Apps
  <2>2. x \notin DOMAIN f /\ (x \in DOMAIN o => t \in DOMAIN o)
    BY <1>1, <2>1 DEF StoredWell
  <2>3. /\ x \in DOMAIN Updated(f, o) <=> x \in DOMAIN o /\ t \notin DOMAIN Filled(f)
        /\ x \in DOMAIN Updated(f, o) => Updated(f, o)[x] = o[x]
    BY <2>1, <2>2, UpdatedAt
  <2>4. /\ x \in DOMAIN Verified(f, o) <=> x \in DOMAIN o /\ t \in DOMAIN o /\ t \notin DOMAIN Filled(f)
        /\ x \in DOMAIN Verified(f, o) => Verified(f, o)[x] = o[x]
    BY <2>1, <2>2, VerifiedAt
  <2> QED BY <2>2, <2>3, <2>4 DEF Alike
<1> QED BY <1>2, <1>3, <1>4

\* A second test after the save has the same secrets, and the same app of a token.
LEMMA VerifiedAgain ==
    ASSUME NEW f, NEW o, NEW new, NEW h, IsForm(f), StoredWell(o), ~Refused(Updated(f, o), new, h)
    PROVE  LET r == Saved(f, o, new)
           IN  /\ \A x : x \notin Removed(f) => Alike(Verified(f, o), Verified(f, r), x)
               /\ \A t \in TokenColumns : TokenClientColumns[t] \in DOMAIN r => t \in DOMAIN r
<1> DEFINE r == Saved(f, o, new)
           c == Updated(f, o)
<1>1. \A x : x \notin RuledColumns \cup Removed(f) => Alike(r, c, x)
  BY SavedAt
<1> HIDE DEF r, c
<1>2. DOMAIN f \cap AppColumns = {}
  BY DEF IsForm, AppColumns
<1>3. SecretFields \cap RuledColumns = {} /\ AppColumns \cap RuledColumns = {}
  BY DEF SecretFields, RuledColumns, AppColumns
<1>4. (TokenColumns \cup AppColumns) \cap Removed(f) = {}
  <2>1. IsProfile(f) => f.type \in {"s3", "azureblob"}
    BY DEF IsForm
  <2> QED BY <2>1, Apps DEF AppColumns, Removed, ProfileReplaces
<1>5. ASSUME NEW t \in TokenColumns
      PROVE  LET x == TokenClientColumns[t]
             IN  /\ x \in DOMAIN r <=> x \in DOMAIN o /\ t \notin DOMAIN Filled(f)
                 /\ x \in DOMAIN r => r[x] = o[x] /\ t \in DOMAIN r /\ t \in DOMAIN o
  <2> DEFINE x == TokenClientColumns[t]
  <2>1. x \in AppColumns /\ t \in SecretFields
    BY Apps
  <2>2. x \notin DOMAIN f
    BY <1>2, <2>1
  <2>3. /\ x \in DOMAIN c <=> x \in DOMAIN o /\ t \notin DOMAIN Filled(f)
        /\ x \in DOMAIN c => c[x] = o[x]
    BY <2>2, UpdatedAt DEF c
  <2>4. Alike(r, c, x) /\ Alike(r, c, t)
    BY <1>1, <1>3, <1>4, <2>1
  <2>5. x \in DOMAIN o => t \in DOMAIN o
    BY DEF StoredWell
  <2>6. t \notin DOMAIN Filled(f) => Alike(c, o, t)
    BY <2>1, UpdatedAt DEF c
  <2> QED BY <2>3, <2>4, <2>5, <2>6 DEF Alike
<1>6. ASSUME NEW x, x \notin Removed(f), x \notin SecretFields \cup AppColumns
      PROVE  Alike(Verified(f, o), Verified(f, r), x)
  <2>1. Alike(Verified(f, o), Filled(f), x) /\ Alike(Verified(f, r), Filled(f), x)
    BY <1>6, VerifiedAt
  <2> QED BY <2>1 DEF Alike
<1>7. ASSUME NEW x \in SecretFields \ Removed(f)
      PROVE  Alike(Verified(f, o), Verified(f, r), x)
  <2>1. CASE x \in DOMAIN Filled(f)
    <3>1. Alike(Verified(f, o), Filled(f), x) /\ Alike(Verified(f, r), Filled(f), x)
      BY <2>1, VerifiedAt
    <3> QED BY <3>1 DEF Alike
  <2>2. CASE x \notin DOMAIN Filled(f)
    <3>1. Alike(Verified(f, o), o, x) /\ Alike(Verified(f, r), r, x) /\ Alike(c, o, x)
      BY <2>2, VerifiedAt, UpdatedAt DEF c
    <3>2. Alike(r, c, x)
      BY <1>1, <1>3
    <3> QED BY <3>1, <3>2 DEF Alike
  <2> QED BY <2>1, <2>2
<1>8. ASSUME NEW x \in AppColumns
      PROVE  Alike(Verified(f, o), Verified(f, r), x)
  <2>1. PICK t \in TokenColumns : x = TokenClientColumns[t]
    BY Apps
  <2>2. x \notin DOMAIN f
    BY <1>2
  <2>3. /\ x \in DOMAIN Verified(f, o) <=> x \in DOMAIN o /\ t \in DOMAIN o /\ t \notin DOMAIN Filled(f)
        /\ x \in DOMAIN Verified(f, o) => Verified(f, o)[x] = o[x]
    BY <2>1, <2>2, VerifiedAt
  <2>4. /\ x \in DOMAIN Verified(f, r) <=> x \in DOMAIN r /\ t \in DOMAIN r /\ t \notin DOMAIN Filled(f)
        /\ x \in DOMAIN Verified(f, r) => Verified(f, r)[x] = r[x]
    BY <2>1, <2>2, VerifiedAt
  <2>5. /\ x \in DOMAIN r <=> x \in DOMAIN o /\ t \notin DOMAIN Filled(f)
        /\ x \in DOMAIN r => r[x] = o[x] /\ t \in DOMAIN r /\ t \in DOMAIN o
    BY <1>5, <2>1
  <2> QED BY <2>3, <2>4, <2>5 DEF Alike
<1> QED BY <1>5, <1>6, <1>7, <1>8 DEF r

\* The rules of S3 make the same of the same columns.
LEMMA SameRules ==
    ASSUME NEW c, NEW d, NEW m, NEW n, c.type = "s3", d.type = "s3",
           Alike(c, d, "s3_provider"), Alike(c, d, "s3_endpoint"), Alike(c, d, "s3_chunked")
    PROVE  \A x \in {"s3_provider", "s3_chunked"} : Alike(ApplyS3Rules(c, m), ApplyS3Rules(d, n), x)
<1>1. StoredProvider(c) = StoredProvider(d)
  BY DEF StoredProvider, ValueOf, Alike
<1>2. ValueOf(c, "s3_chunked", "true") = ValueOf(d, "s3_chunked", "true")
  BY DEF ValueOf, Alike
<1>3. /\ "s3_provider" \in DOMAIN ApplyS3Rules(c, m) /\ ApplyS3Rules(c, m).s3_provider = StoredProvider(c)
      /\ "s3_chunked" \in DOMAIN ApplyS3Rules(c, m) /\ ApplyS3Rules(c, m).s3_chunked = ValueOf(c, "s3_chunked", "true")
  BY S3RulesAt
<1>4. /\ "s3_provider" \in DOMAIN ApplyS3Rules(d, n) /\ ApplyS3Rules(d, n).s3_provider = StoredProvider(d)
      /\ "s3_chunked" \in DOMAIN ApplyS3Rules(d, n) /\ ApplyS3Rules(d, n).s3_chunked = ValueOf(d, "s3_chunked", "true")
  BY S3RulesAt
<1> QED BY <1>1, <1>2, <1>3, <1>4 DEF Alike

LEMMA VerifiedType ==
    ASSUME NEW f, NEW o, IsForm(f)
    PROVE  Verified(f, o).type = f.type
<1>1. Alike(Verified(f, o), Filled(f), "type")
  BY TypeColumns, VerifiedAt
<1> QED BY <1>1, FormType, FilledAt DEF Alike

\* What was tested before the save would be tested after it.
LEMMA TestedAgain ==
    ASSUME NEW f, NEW o, NEW new, NEW h, IsForm(f), StoredWell(o), ~Refused(Updated(f, o), new, h)
    PROVE  Agree(AsTested(f, o), AsTested(f, Saved(f, o, new)), Reads(f))
<1> DEFINE r == Saved(f, o, new)
<1>1. \A x : x \notin Removed(f) => Alike(Verified(f, o), Verified(f, r), x)
  BY VerifiedAgain
<1> HIDE DEF r
<1>2. Reads(f) \cap Removed(f) = {} /\ "s3_skip_checks" \notin Reads(f)
  BY FormReads
<1>3. \A x : x \notin RuledColumns => Alike(AsTested(f, o), Verified(f, o), x) /\ Alike(AsTested(f, r), Verified(f, r), x)
  BY S3RulesAt DEF AsTested
<1>4. ASSUME NEW x \in Reads(f) \ RuledColumns
      PROVE  Alike(AsTested(f, o), AsTested(f, r), x)
  <2>1. Alike(Verified(f, o), Verified(f, r), x)
    BY <1>1, <1>2
  <2>2. Alike(AsTested(f, o), Verified(f, o), x) /\ Alike(AsTested(f, r), Verified(f, r), x)
    BY <1>3
  <2> QED BY <2>1, <2>2 DEF Alike
<1>5. ASSUME NEW x \in Reads(f) \cap RuledColumns
      PROVE  Alike(AsTested(f, o), AsTested(f, r), x)
  <2>1. x \in {"s3_provider", "s3_chunked"}
    BY <1>2 DEF RuledColumns
  <2>2. f.type = "s3"
    BY <2>1, FormReads
  <2>3. Verified(f, o).type = "s3" /\ Verified(f, r).type = "s3"
    BY <2>2, VerifiedType
  <2>4. {"s3_provider", "s3_endpoint", "s3_chunked"} \cap Removed(f) = {}
    BY <2>2 DEF Removed, ProfileReplaces
  <2>5. /\ Alike(Verified(f, o), Verified(f, r), "s3_provider") /\ Alike(Verified(f, o), Verified(f, r), "s3_endpoint")
        /\ Alike(Verified(f, o), Verified(f, r), "s3_chunked")
    BY <1>1, <2>4
  <2> QED BY <2>1, <2>3, <2>5, SameRules DEF AsTested
<1> QED BY <1>4, <1>5 DEF Agree, r

\* What was tested is what is stored, but for columns of an older form.
LEMMA TestedIsStored ==
    ASSUME NEW f, NEW o, NEW new, NEW h, IsForm(f), StoredWell(o), ~Refused(Updated(f, o), new, h),
           {"sftp_key_file", "skip_tls_verify"} \cap (DOMAIN Saved(f, o, new) \ DOMAIN f) = {},
           "s3_v2_auth" \notin DOMAIN Saved(f, o, new)
    PROVE  Agree(Saved(f, o, new), AsTested(f, Saved(f, o, new)), Reads(f))
<1> DEFINE r == Saved(f, o, new)
           c == Updated(f, o)
           s == ApplyS3Rules(c, new)
           a == AsTested(f, r)
           v == Verified(f, r)
           sent == DOMAIN f \cup SecretFields \cup AppColumns
<1>1. /\ \A x : x \notin Removed(f) => Alike(Verified(f, o), v, x)
  BY VerifiedAgain
<1>2. /\ \A x : x \notin RuledColumns \cup Removed(f) => Alike(r, c, x)
      /\ \A x : x \notin Removed(f) => Alike(r, s, x)
  BY SavedAt
<1>3. \A x \in sent : Alike(c, Verified(f, o), x)
  BY UpdatedIsVerified
<1>4. \A x : x \notin RuledColumns => Alike(a, v, x)
  BY S3RulesAt DEF AsTested
<1>5. /\ Reads(f) \cap Removed(f) = {} /\ "s3_skip_checks" \notin Reads(f)
      /\ Reads(f) \subseteq DOMAIN f \cup SecretFields \cup Unsent
  BY FormReads
<1>6. c.type = f.type /\ v.type = f.type
  BY UpdatedLike, VerifiedType
<1>7. {"sftp_key_file", "skip_tls_verify"} \cap (DOMAIN r \ DOMAIN f) = {} /\ "s3_v2_auth" \notin DOMAIN r
  OBVIOUS
<1>8. \A x : x \notin DOMAIN f \cup SecretFields \cup AppColumns => x \notin DOMAIN v
  <2>1. \A x : x \notin SecretFields \cup AppColumns => Alike(v, Filled(f), x)
    BY VerifiedAt
  <2> QED BY <2>1, FilledAt DEF Alike
<1>9. s = ApplyS3Rules(c, new) /\ a = ApplyS3Rules(v, FALSE)
  BY DEF AsTested
<1> HIDE DEF r, c, s, a, v
<1>10. ASSUME NEW x \in Reads(f) \ RuledColumns, x \in sent
       PROVE  Alike(r, a, x)
  <2>1. Alike(r, c, x) /\ Alike(c, Verified(f, o), x) /\ Alike(Verified(f, o), v, x) /\ Alike(a, v, x)
    BY <1>1, <1>2, <1>3, <1>4, <1>5, <1>10
  <2> QED BY <2>1 DEF Alike
<1>11. ASSUME NEW x \in Reads(f) \ RuledColumns, x \notin sent
       PROVE  Alike(r, a, x)
  <2>1. x \in Unsent /\ x # "gdrive_client_id"
    BY <1>5, <1>11 DEF AppColumns
  <2>2. x \notin DOMAIN r
    BY <1>7, <1>11, <2>1 DEF Unsent
  <2>3. x \notin DOMAIN a
    BY <1>4, <1>8, <1>11 DEF Alike
  <2> QED BY <2>2, <2>3 DEF Alike
<1>12. ASSUME NEW x \in Reads(f) \cap RuledColumns
       PROVE  Alike(r, a, x)
  <2>1. x \in {"s3_provider", "s3_chunked"}
    BY <1>5 DEF RuledColumns
  <2>2. f.type = "s3"
    BY <2>1, FormReads
  <2>3. {"s3_provider", "s3_endpoint", "s3_chunked"} \cap Removed(f) = {}
    BY <2>2 DEF Removed, ProfileReplaces
  <2>4. {"s3_provider", "s3_endpoint", "s3_chunked"} \subseteq sent
    BY <2>2, FormReads
  <2>5. \A y \in {"s3_provider", "s3_endpoint", "s3_chunked"} : Alike(c, v, y)
    <3> SUFFICES ASSUME NEW y \in {"s3_provider", "s3_endpoint", "s3_chunked"} PROVE Alike(c, v, y)
      OBVIOUS
    <3>1. Alike(c, Verified(f, o), y) /\ Alike(Verified(f, o), v, y)
      BY <1>1, <1>3, <2>3, <2>4
    <3> QED BY <3>1 DEF Alike
  <2>6. Alike(s, a, x)
    BY <1>6, <1>9, <2>1, <2>2, <2>5, SameRules
  <2>7. Alike(r, s, x)
    BY <1>2, <1>5
  <2> QED BY <2>6, <2>7 DEF Alike
<1> QED BY <1>10, <1>11, <1>12 DEF Agree, r, a

LEMMA SavedWell ==
    ASSUME NEW f, NEW o, NEW new, NEW h, IsForm(f), StoredWell(o), ~Refused(Updated(f, o), new, h)
    PROVE  /\ StoredWell(Saved(f, o, new))
           /\ Saved(f, o, new).type \in Types
           /\ LET r == Saved(f, o, new)
              IN  IsProfile(r) =>
                    DOMAIN r \cap ProfileReplaces[r.type] \subseteq IF IsAzureCli(r) THEN {"azure_account"} ELSE {}
<1> DEFINE r == Saved(f, o, new)
<1>1. /\ LooksLike(r, f)
      /\ \A x \in Removed(f) : x \notin DOMAIN r
      /\ \A x : x \notin RuledColumns \cup Removed(f) => Alike(r, Updated(f, o), x)
  BY SavedAt
<1>2. \A t \in TokenColumns : TokenClientColumns[t] \in DOMAIN r => t \in DOMAIN r
  BY VerifiedAgain
<1> HIDE DEF r
<1>3. "type" \in DOMAIN r /\ r.type = f.type /\ f.type \in Types
  BY <1>1, FormType DEF LooksLike
<1>4. "s3_v2_auth" \notin DOMAIN r
  <2>1. "s3_v2_auth" \notin DOMAIN f \cup SecretFields \cup AppColumns \cup RuledColumns
    BY DEF IsForm, SecretFields, AppColumns, RuledColumns
  <2>2. Alike(Updated(f, o), o, "s3_v2_auth")
    BY <2>1, UpdatedAt
  <2> QED BY <1>1, <2>1, <2>2 DEF Alike, StoredWell
<1>5. IsProfile(r) => r.type \in {"s3", "azureblob"}
  BY <1>1, <1>3 DEF IsForm, LooksLike
<1>6. Removed(r) = Removed(f)
  BY <1>1, ReadsLike
<1>7. IsProfile(r) =>
        DOMAIN r \cap ProfileReplaces[r.type] \subseteq IF IsAzureCli(r) THEN {"azure_account"} ELSE {}
  BY <1>1, <1>6 DEF Removed
<1> QED BY <1>2, <1>3, <1>4, <1>5, <1>7 DEF r, StoredWell

\* Uploads skip the checks of the form, or the default for a form that says nothing.
LEMMA SavedChecks ==
    ASSUME NEW f, NEW o, NEW new, NEW h, IsForm(f), ~Refused(Updated(f, o), new, h), "s3_skip_checks" \in DOMAIN f
    PROVE  LET r == Saved(f, o, new)
           IN  \/ DestinationChecks(r) = f.s3_skip_checks
               \/ f.s3_skip_checks = Empty /\ DestinationChecks(r) = DefaultSkipChecks(r.s3_provider)
<1> DEFINE r == Saved(f, o, new)
           c == Updated(f, o)
           s == ApplyS3Rules(c, new)
<1>1. f.type = "s3" /\ f.s3_provider \in CheckSkippingProviders /\ "s3_provider" \in DOMAIN f
  BY FormReads DEF IsForm
<1>2. {"s3_provider", "s3_skip_checks"} \cap (SecretFields \cup AppColumns) = {}
  BY DEF SecretFields, AppColumns
<1>3. Alike(c, Filled(f), "s3_provider") /\ Alike(c, Filled(f), "s3_skip_checks")
  BY <1>1, <1>2, UpdatedAt
<1>4. c.type = "s3"
  BY <1>1, UpdatedLike
<1>5. \A x : x \notin Removed(f) => Alike(r, s, x)
  BY SavedAt
<1>6. r.type = "s3"
  <2>1. LooksLike(r, f)
    BY SavedAt
  <2> QED BY <1>1, <2>1 DEF LooksLike
<1>7. /\ "s3_provider" \in DOMAIN s /\ s.s3_provider = StoredProvider(c)
      /\ ValueOf(s, "s3_skip_checks", Empty) =
            IF StoredProvider(c) \in CheckSkippingProviders THEN AskedSkip(c, new) ELSE Empty
  BY <1>4, S3RulesAt
<1> HIDE DEF r, c, s
<1>8. {"s3_provider", "s3_skip_checks"} \cap Removed(f) = {}
  BY <1>1 DEF Removed, ProfileReplaces
<1>9. StoredProvider(c) = f.s3_provider
  <2>1. f.s3_provider # Empty
    BY <1>1 DEF CheckSkippingProviders, Empty
  <2>2. "s3_provider" \in DOMAIN c /\ c.s3_provider = f.s3_provider
    BY <1>1, <1>3, <2>1, FilledAt DEF Alike
  <2> QED BY <2>2 DEF StoredProvider, ValueOf
<1>10. "s3_provider" \in DOMAIN r /\ r.s3_provider = f.s3_provider
  BY <1>5, <1>7, <1>8, <1>9 DEF Alike
<1>11. DestinationChecks(r) = AskedSkip(c, new)
  <2>1. ValueOf(r, "s3_skip_checks", Empty) = ValueOf(s, "s3_skip_checks", Empty)
    BY <1>5, <1>8 DEF Alike, ValueOf
  <2>2. ValueOf(r, "s3_provider", Empty) = f.s3_provider
    BY <1>10 DEF ValueOf
  <2> QED BY <1>1, <1>6, <1>7, <1>9, <2>1, <2>2 DEF DestinationChecks
<1>12. CASE f.s3_skip_checks # Empty
  <2>1. "s3_skip_checks" \in DOMAIN c /\ c.s3_skip_checks = f.s3_skip_checks
    BY <1>3, <1>12, FilledAt DEF Alike
  <2> QED BY <1>11, <2>1 DEF AskedSkip, r
<1>13. CASE f.s3_skip_checks = Empty
  <2>1. "s3_skip_checks" \notin DOMAIN c
    BY <1>3, <1>13, FilledAt DEF Alike
  <2>2. AskedSkip(c, new) \in {Empty, DefaultSkipChecks(f.s3_provider)}
    BY <1>9, <2>1 DEF AskedSkip
  <2> QED BY <1>10, <1>11, <1>13, <2>2 DEF r
<1> QED BY <1>12, <1>13

-----------------------------------------------------------------------------
(* The invariant.                                                           *)

\* The picker shows what discover found in the home it was opened with.
OfferedTrue ==
    \/ offered.offers = {}
    \/ offered.type \in {"s3", "azureblob"} /\ offered.offers = Discover(offered.type, offered.home)

RowTrue == StoredWell(row) /\ NothingLeftBehind

\* The last test would give the same today, also of the connection that was saved since.
TestTrue ==
    /\ DOMAIN tested = {"form", "home", "env", "saved"}
    /\ tested # NoTest =>
          /\ tested.form \in Submitted
          /\ tested.env = FormatCredentials(AsTested(tested.form, row), tested.home)

\* And that connection has what the test had.
SavedTrue ==
    tested.saved =>
        /\ row # NoRow
        /\ LeftOvers = {} => Agree(row, AsTested(tested.form, row), Reads(row))
        /\ ChecksAreChosen

ConnInv == OfferedTrue /\ RowTrue /\ TestTrue /\ SavedTrue

LEMMA NoneStored ==
    /\ StoredWell(NoRow) /\ ~IsProfile(NoRow)
    /\ DOMAIN NoTest = {"form", "home", "env", "saved"} /\ ~NoTest.saved /\ NoTest.form = NoSettings
<1>1. DOMAIN NoRow = {"type"}
  BY DEF NoRow
<1>2. ~IsProfile(NoRow)
  BY <1>1 DEF IsProfile, ValueOf, Empty
<1>3. \A t \in TokenColumns : TokenClientColumns[t] \notin DOMAIN NoRow
  BY <1>1, Apps DEF AppColumns
<1>4. DOMAIN NoTest = {"form", "home", "env", "saved"} /\ ~NoTest.saved /\ NoTest.form = NoSettings
  BY DEF NoTest
<1> QED BY <1>1, <1>2, <1>3, <1>4 DEF StoredWell

\* The configuration of a form's test is the same for two connections that agree on what
\* is read of the form.
LEMMA SameTest ==
    ASSUME NEW f, NEW a, NEW b, NEW h, IsForm(f), LooksLike(a, f), LooksLike(b, f), Agree(a, b, Reads(f))
    PROVE  FormatCredentials(a, h) = FormatCredentials(b, h)
<1>1. Reads(a) = Reads(f)
  BY ReadsLike
<1>2. "type" \in DOMAIN a /\ a.type \in Types
  BY FormType DEF LooksLike
<1>3. a.type \notin {"s3", "azureblob"} => ~IsProfile(a) /\ ~IsProfile(b)
  BY DEF LooksLike, IsForm
<1> QED BY <1>1, <1>2, <1>3, SameFormat

LEMMA SaveKeeps ==
    ASSUME RowTrue, TestTrue, NEW form \in Submitted, NEW new, Save(form, Updated(form, row), new)
    PROVE  ConnInv'
<1> DEFINE c == Updated(form, row)
<1>1. /\ ~Refused(c, new, home)
      /\ row' = Saved(form, row, new)
      /\ tested' = IF tested.form = form THEN [tested EXCEPT !.saved = TRUE] ELSE NoTest
      /\ offered' = NoOffer
  BY DEF Save, Saved
<1>2. IsForm(form) /\ StoredWell(row)
  BY SubmittedForms DEF RowTrue
<1>3. OfferedTrue'
  BY <1>1 DEF OfferedTrue, NoOffer
<1>4. StoredWell(row') /\ row'.type \in Types
  BY <1>1, <1>2, SavedWell
<1>5. RowTrue'
  <2>1. NothingLeftBehind'
    BY <1>1, <1>2, SavedWell DEF NothingLeftBehind
  <2>2. StoredWell(row)'
    BY <1>4
  <2> QED BY <2>1, <2>2 DEF RowTrue
<1>6. CASE tested.form # form
  <2>1. tested' = NoTest
    BY <1>1, <1>6
  <2>2. TestTrue' /\ SavedTrue'
    BY <2>1, NoneStored DEF TestTrue, SavedTrue
  <2> QED BY <1>3, <1>5, <2>2 DEF ConnInv
<1>7. CASE tested.form = form
  <2>1. /\ DOMAIN tested' = {"form", "home", "env", "saved"}
        /\ tested'.form = form /\ tested'.home = tested.home /\ tested'.env = tested.env
    BY <1>1, <1>7 DEF TestTrue
  <2>2. tested # NoTest
    <3>1. "type" \in DOMAIN form
      BY <1>2 DEF IsForm
    <3>2. DOMAIN NoTest.form = {}
      BY NoneStored DEF NoSettings
    <3> QED BY <1>7, <3>1, <3>2
  <2>3. tested.env = FormatCredentials(AsTested(form, row), tested.home)
    BY <1>7, <2>2 DEF TestTrue
  <2>4. FormatCredentials(AsTested(form, row), tested.home) = FormatCredentials(AsTested(form, row'), tested.home)
    <3>1. Agree(AsTested(form, row), AsTested(form, row'), Reads(form))
      BY <1>1, <1>2, TestedAgain
    <3> QED BY <1>2, <3>1, SameTest, VerifiedLike
  <2>5. TestTrue'
    BY <2>1, <2>3, <2>4 DEF TestTrue
  <2>6. (row # NoRow)'
    <3>1. NoRow.type \notin Types
      BY PlainOptionColumns DEF NoRow, Types
    <3> QED BY <1>4, <3>1
  <2>7. (LeftOvers = {} => Agree(row, AsTested(tested.form, row), Reads(row)))'
    <3> SUFFICES ASSUME LeftOvers' = {}
                 PROVE  Agree(row', AsTested(form, row'), Reads(row'))
      BY <2>1
    <3>1. {"sftp_key_file", "skip_tls_verify"} \cap (DOMAIN row' \ DOMAIN form) = {}
      BY <2>1 DEF LeftOvers
    <3>2. "s3_v2_auth" \notin DOMAIN row'
      BY <1>4 DEF StoredWell
    <3>3. Reads(row') = Reads(form)
      BY <1>1, <1>2, SavedAt, ReadsLike
    <3>4. Agree(row', AsTested(form, row'), Reads(form))
      BY <1>1, <1>2, <3>1, <3>2, TestedIsStored
    <3> QED BY <3>3, <3>4
  <2>8. ChecksAreChosen'
    <3> SUFFICES ASSUME "s3_skip_checks" \in DOMAIN form
                 PROVE  DestinationChecks(row') = form.s3_skip_checks \/ NoChoice'
      BY <2>1 DEF ChecksAreChosen
    <3>1. \/ DestinationChecks(row') = form.s3_skip_checks
          \/ form.s3_skip_checks = Empty /\ DestinationChecks(row') = DefaultSkipChecks(row'.s3_provider)
      BY <1>1, <1>2, SavedChecks
    <3> QED BY <2>1, <3>1 DEF NoChoice
  <2>9. SavedTrue'
    BY <2>6, <2>7, <2>8 DEF SavedTrue
  <2> QED BY <1>3, <1>5, <2>5, <2>9 DEF ConnInv
<1> QED BY <1>6, <1>7

LEMMA ConnStarts ==
    ASSUME ConnInit
    PROVE  ConnInv
<1>1. offered.offers = {} /\ row = NoRow /\ tested = NoTest
  BY DEF ConnInit, NoOffer
<1> QED BY <1>1, NoneStored DEF ConnInv, OfferedTrue, RowTrue, TestTrue, SavedTrue, NothingLeftBehind

LEMMA ConnKeeps ==
    ASSUME ConnInv, [ConnNext]_connVars
    PROVE  ConnInv'
<1>1. ASSUME NEW type \in {"s3", "azureblob"}, OpenPicker(type)
      PROVE  ConnInv'
  <2>1. offered' = [type |-> type, home |-> home, offers |-> Discover(type, home)] /\ UNCHANGED <<row, tested>>
    BY <1>1 DEF OpenPicker
  <2>2. OfferedTrue'
    BY <2>1 DEF OfferedTrue
  <2>3. RowTrue' /\ TestTrue' /\ SavedTrue'
    BY <2>1 DEF ConnInv, RowTrue, TestTrue, SavedTrue, NothingLeftBehind, LeftOvers, ChecksAreChosen, NoChoice
  <2> QED BY <2>2, <2>3 DEF ConnInv
<1>2. ASSUME NEW form \in Submitted, Test(form)
      PROVE  ConnInv'
  <2> DEFINE c == IF row = NoRow THEN Created(form) ELSE Verified(form, row)
             env == FormatCredentials(ApplyS3Rules(c, FALSE), home)
  <2>1. /\ tested' = [form |-> form, home |-> home, env |-> env, saved |-> FALSE]
        /\ UNCHANGED <<offered, row>>
    BY <1>2 DEF Test
  <2>2. c = Verified(form, row)
    BY CreatedIsVerified
  <2>3. env = FormatCredentials(AsTested(form, row), home)
    BY <2>2 DEF AsTested
  <2> HIDE DEF c, env
  <2>4. TestTrue'
    BY <2>1, <2>3 DEF TestTrue
  <2>5. SavedTrue'
    BY <2>1 DEF SavedTrue
  <2>6. OfferedTrue' /\ RowTrue'
    BY <2>1 DEF ConnInv, OfferedTrue, RowTrue, NothingLeftBehind
  <2> QED BY <2>4, <2>5, <2>6 DEF ConnInv
<1>3. ASSUME NEW form \in Submitted, Create(form)
      PROVE  ConnInv'
  <2>1. row = NoRow /\ Complete(form) /\ Save(form, Created(form), TRUE)
    BY <1>3 DEF Create, NewForm
  <2>2. Created(form) = Updated(form, row)
    BY <2>1, CreatedIsUpdated, SubmittedForms DEF IsForm
  <2> QED BY <2>1, <2>2, SaveKeeps DEF ConnInv
<1>4. ASSUME NEW form \in Submitted, Update(form)
      PROVE  ConnInv'
  BY <1>4, SaveKeeps DEF Update, ConnInv
<1>5. ASSUME SignIn
      PROVE  ConnInv'
  <2>1. /\ row' = [type |-> "drive", gdrive_token |-> "signed in", gdrive_client_id |-> "own", s3_chunked |-> "true"]
        /\ tested' = NoTest /\ offered' = NoOffer
    BY <1>5 DEF SignIn
  <2>2. DOMAIN row' = {"type", "gdrive_token", "gdrive_client_id", "s3_chunked"} /\ row'.type = "drive"
    BY <2>1
  <2>3. ~IsProfile(row')
    BY <2>2 DEF IsProfile, ValueOf, Empty
  <2>4. \A t \in TokenColumns : TokenClientColumns[t] \in DOMAIN row' => t \in DOMAIN row'
    <3>1. /\ TokenClientColumns["onedrive_token"] = "onedrive_client_id"
          /\ TokenClientColumns["gdrive_token"] = "gdrive_client_id"
      BY DEF TokenClientColumns
    <3> QED BY <2>2, <3>1, Apps
  <2>5. StoredWell(row')
    BY <2>2, <2>3, <2>4, PlainOptionColumns DEF StoredWell, Types
  <2>6. StoredWell(row)'
    BY <2>5
  <2>7. RowTrue'
    BY <2>3, <2>6 DEF RowTrue, NothingLeftBehind
  <2>8. OfferedTrue' /\ TestTrue' /\ SavedTrue'
    BY <2>1, NoneStored DEF OfferedTrue, TestTrue, SavedTrue, NoOffer
  <2> QED BY <2>7, <2>8 DEF ConnInv
<1>6. ASSUME Delete
      PROVE  ConnInv'
  <2>1. row' = NoRow /\ tested' = NoTest /\ UNCHANGED offered
    BY <1>6 DEF Delete
  <2> QED BY <2>1, NoneStored DEF ConnInv, OfferedTrue, RowTrue, TestTrue, SavedTrue, NothingLeftBehind
<1>7. CASE HomeChanges \/ UNCHANGED connVars
  <2>1. UNCHANGED <<offered, row, tested>>
    BY <1>7 DEF HomeChanges, connVars
  <2> QED BY <2>1 DEF ConnInv, OfferedTrue, RowTrue, TestTrue, SavedTrue, NothingLeftBehind,
                      LeftOvers, ChecksAreChosen, NoChoice
<1> QED BY <1>1, <1>2, <1>3, <1>4, <1>5, <1>6, <1>7 DEF ConnNext

LEMMA ConnShows ==
    ASSUME ConnInv
    PROVE  WhatIsShownRuns
<1>1. OfferedIsAccepted
  <2> SUFFICES ASSUME offered.home = home, NEW o \in offered.offers
               PROVE  o.usable <=> Resolve(offered.type, o.source, o.name, home) # NotResolved
    BY DEF OfferedIsAccepted
  <2>1. offered.type \in {"s3", "azureblob"} /\ o \in Discover(offered.type, offered.home)
    BY DEF ConnInv, OfferedTrue
  <2> QED BY <2>1, OfferedResolves
<1>2. TestedIsRun
  <2> SUFFICES ASSUME tested.saved, tested.home = home, LeftOvers = {}
               PROVE  FormatCredentials(row, home) = tested.env
    BY DEF TestedIsRun
  <2> DEFINE form == tested.form
  <2>1. tested # NoTest
    BY NoneStored
  <2>2. form \in Submitted /\ tested.env = FormatCredentials(AsTested(form, row), home)
    BY <2>1 DEF ConnInv, TestTrue
  <2>3. IsForm(form)
    BY <2>2, SubmittedForms
  <2>4. Agree(row, AsTested(form, row), Reads(row)) /\ row # NoRow
    BY DEF ConnInv, SavedTrue
  <2>5. "type" \in DOMAIN row /\ row.type \in Types /\ (IsProfile(row) => row.type \in {"s3", "azureblob"})
    BY <2>4 DEF ConnInv, RowTrue, StoredWell
  <2>6. row.type = AsTested(form, row).type
    BY <2>4, <2>5 DEF Agree, Alike, Reads
  <2>7. row.type \notin {"s3", "azureblob"} => ~IsProfile(row) /\ ~IsProfile(AsTested(form, row))
    BY <2>3, <2>5, <2>6, VerifiedLike DEF LooksLike, IsForm
  <2> QED BY <2>2, <2>4, <2>5, <2>7, SameFormat
<1>3. WorkerReadsTheSame
  BY WorkerReads DEF WorkerReadsTheSame, ConnInv, RowTrue, StoredWell
<1>4. NothingLeftBehind
  BY DEF ConnInv, RowTrue
<1>5. ChecksAreChosen
  BY DEF ConnInv, SavedTrue, ChecksAreChosen
<1> QED BY <1>1, <1>2, <1>3, <1>4, <1>5 DEF WhatIsShownRuns

\* Whatever homes, forms and earlier connections there are: a profile is offered as usable
\* exactly if it can be used, a saved connection runs with the configuration that was tested,
\* on the central node and on a worker, keeps no credential that its profile replaces, and
\* skips the checks that the form says (cloud_connection_manager.create, update, verify;
\* rclone_connection; local_credentials.discover, resolve).
THEOREM ConnectionsRunAsShown == ConnSpec => []WhatIsShownRuns
<1>1. ConnInit => ConnInv
  BY ConnStarts
<1>2. ConnInv /\ [ConnNext]_connVars => ConnInv'
  BY ConnKeeps
<1>3. ConnInv => WhatIsShownRuns
  BY ConnShows
<1> QED BY <1>1, <1>2, <1>3, PTL DEF ConnSpec
=============================================================================
