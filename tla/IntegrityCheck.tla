--------------------------- MODULE IntegrityCheck ---------------------------
(***************************************************************************)
(* What an integrity check concludes (utils/job_runner.py): which hash it  *)
(* compares, how files without that hash are compared, and the outcome it  *)
(* mails.  A side is a function from the names of its files to what rclone *)
(* can know of each: the content (equal contents have equal hashes, of any *)
(* type) and which hashes the storage recorded.  The names are compared as *)
(* trees (utils/file_utils.py), which lose files where a cloud has both    *)
(* "a" and "a/b".                                                          *)
(***************************************************************************)
EXTENDS Integers, FiniteSets, Functions

CONSTANT Names  \* the paths both sides may have, as their places in the sort order

ASSUME NamesAreSorted == Names \subseteq Nat

\* Which paths are below which, as "a/b" is below "a": a path sorts before what is below it.
Nestings == SUBSET {p \in Names \X Names : p[1] < p[2]}

NoHash == 0
File   == [content : {1, 2}, crc32c : BOOLEAN, md5 : BOOLEAN]
Kinds  == {"local", "s3", "other"}

\* Local files can be read; S3 that stores a CRC32C has it, or a usable MD5, for some of
\* its objects, other clouds an MD5 for some.
FilesOf(kind) ==
    {f \in File : /\ kind = "local" => f.crc32c /\ f.md5
                  /\ kind = "other" => ~f.crc32c}

\* The names below a file: only a cloud has them.
Clashes(side, nested) == {n \in DOMAIN side : \E m \in DOMAIN side : <<m, n>> \in nested}

Sides(kind, nested) ==
    {side \in UNION {[present -> FilesOf(kind)] : present \in SUBSET Names} :
        kind = "local" => Clashes(side, nested) = {}}

\* A check of two local sides has the hash of the fastest kind, any other the one the
\* clouds recorded: CRC32C needs S3 on at least one side and only local or S3 sides.
HashType(srcKind, dstKind, download, supported) ==
    LET kinds == {srcKind, dstKind} IN
    IF kinds = {"local"} THEN IF supported THEN "crc32c" ELSE "sha256"
    ELSE IF "s3" \in kinds /\ kinds \subseteq {"local", "s3"} /\ ~download /\ supported
    THEN "crc32c"
    ELSE "md5"

\* The hash rclone prints for a file: with download it computes it, else it has only
\* what the storage recorded.
HashOf(f, type, download) ==
    IF \/ download
       \/ type = "sha256"
       \/ type = "crc32c" /\ f.crc32c
       \/ type = "md5" /\ f.md5
    THEN f.content ELSE NoHash

Entries(side, type, download) == [n \in DOMAIN side |-> HashOf(side[n], type, download)]

\* generate_file_tree: a name below a file has no place in the tree, the exception is logged,
\* and the tree is what it was by then.
Tree(entries, nested) ==
    Restrict(entries, {n \in DOMAIN entries : \A c \in Clashes(entries, nested) : n < c})

\* Mutant: files without a hash on both sides count as equal.
DiffersOrUnknown(a, b, n) == n \notin DOMAIN b \/ a[n] # b[n]

\* remove_identical_branches: what is left of one side.  (Siblings that are not in the
\* order of their titles, such as "a-b" and the folder "a", can take equal ones with them,
\* but only where something differs.)
Differs(a, b, n) == n \notin DOMAIN b \/ a[n] # b[n] \/ a[n] = NoHash

LeftOver(a, b) == {n \in DOMAIN a : Differs(a, b, n)}

\* run_hashsum after both passes: in a CRC32C check, files without a CRC32C on one side
\* are compared by MD5, and left out if that is missing too.
Compare(src, dst, type, download, nested) ==
    LET a == Entries(src, type, download)
        b == Entries(dst, type, download)
        fallback == {n \in DOMAIN a \cap DOMAIN b : type = "crc32c" /\ NoHash \in {a[n], b[n]}}
        md5(side, n) == HashOf(side[n], "md5", download)
        uncheckable == {n \in fallback : NoHash \in {md5(src, n), md5(dst, n)}}
        merged(side, e) == [n \in DOMAIN e \ uncheckable |->
                                IF n \in fallback THEN md5(side, n) ELSE e[n]]
        left  == Tree(merged(src, a), nested)
        right == Tree(merged(dst, b), nested) IN
    [srcTree |-> LeftOver(left, right), dstTree |-> LeftOver(right, left),
     fallback |-> Cardinality(fallback \ uncheckable), uncheckable |-> uncheckable]

Outcome(result) ==
    IF result.srcTree # {} \/ result.dstTree # {} THEN "DIFFERENT"
    ELSE IF result.uncheckable # {} THEN "IDENTICAL, but"
    ELSE "IDENTICAL"

-----------------------------------------------------------------------------
Same(src, dst, n) ==
    /\ n \in DOMAIN src \cap DOMAIN dst
    /\ src[n].content = dst[n].content

\* It says IDENTICAL only if every file that has a place in one of the trees is the same on
\* both sides (all files, of sides that have none below another), and with some files left
\* out only if all the others are.  It says DIFFERENT only if a file differs, or has no hash
\* that could be compared.
VerdictHolds ==
    \A srcKind, dstKind \in Kinds, download, supported \in BOOLEAN, nested \in Nestings :
        LET type == HashType(srcKind, dstKind, download, supported) IN
        \A src \in Sides(srcKind, nested), dst \in Sides(dstKind, nested) :
            LET result  == Compare(src, dst, type, download, nested)
                outcome == Outcome(result)
                placed  == DOMAIN Tree(src, nested) \cup DOMAIN Tree(dst, nested) IN
            /\ outcome = "IDENTICAL" => \A n \in placed : Same(src, dst, n)
            /\ outcome = "IDENTICAL, but" => \A n \in placed \ result.uncheckable : Same(src, dst, n)
            /\ outcome = "DIFFERENT" =>
                  \E n \in DOMAIN src \cup DOMAIN dst :
                      \/ ~Same(src, dst, n)
                      \/ type = "md5" /\ ~(src[n].md5 /\ dst[n].md5)
=============================================================================
