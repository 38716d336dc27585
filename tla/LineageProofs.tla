--------------------------- MODULE LineageProofs ----------------------------
(***************************************************************************)
(* The lineage of a project directory, for any imports, jobs and legacy    *)
(* files.                                                                  *)
(*                                                                         *)
(* A version pointer never dangles, wherever the process stops: that needs *)
(* no condition (PointersInv).                                             *)
(*                                                                         *)
(* The rest holds as long as the user makes only originals the active      *)
(* resume. A tailored file keeps the suffix of the version it was made     *)
(* from, so that as the active resume it gives the tiers of two lineages   *)
(* the same file names. Without it the names tell the tiers apart:         *)
(* everything a builder writes is Shaped for its tier, and a tailored or a *)
(* final file is Apart from all of them. LineageInv is the inductive       *)
(* invariant: what the files of each tier hold (FilesInv), that a pointer  *)
(* names a file of its tier (ConfigInv), that what an operation has read   *)
(* before a write still holds when it makes the next one (OpInv), and how  *)
(* the tiers rebuilt since the last selection descend from it (ChainInv).  *)
(***************************************************************************)
EXTENDS Lineage, TLAPS

ConfigFields ==
    {"active", "job", "base", "baseFrom", "structure", "structureFrom", "refine",
     "refineFrom", "standard", "final", "finalFrom", "finalJob", "evidenceFile",
     "activeEvidence"}

\* What PointersResolve rests on: a builder reaches its pointer with the artifact
\* written, and files are never removed.
PointersInv ==
    /\ DOMAIN config = ConfigFields
    /\ PointersResolve
    /\ op.at = "pointer" => /\ op.path \in DOMAIN files
                            /\ op.tier \in {"base", "structure", "refine", "final"}

\* Writing a file keeps the others and adds the one written.
LEMMA WrittenDomain ==
    ASSUME NEW path, NEW doc
    PROVE  DOMAIN Written(path, doc) = DOMAIN files \cup {path}
  BY DEF Written

LEMMA InitPointers == Init => PointersInv
<1> SUFFICES ASSUME Init PROVE PointersInv
  OBVIOUS
<1> PICK standard \in DOMAIN Legacy \cup {NoPath} :
          config = [active |-> NoPath, job |-> NoJob,
                    base |-> NoPath, baseFrom |-> NoPath,
                    structure |-> NoPath, structureFrom |-> NoPath,
                    refine |-> NoPath, refineFrom |-> NoPath, standard |-> standard,
                    final |-> NoPath, finalFrom |-> NoPath, finalJob |-> NoJob,
                    evidenceFile |-> NoEvidence, activeEvidence |-> NoEvidence]
  BY DEF Init
<1>1. DOMAIN config = ConfigFields
  BY DEF ConfigFields
<1>2. PointersResolve
  <2>1. DOMAIN files = Imports \cup DOMAIN Legacy
    BY DEF Init
  <2> QED
    BY <2>1 DEF PointersResolve
<1>3. op.at # "pointer"
  BY DEF Init, Idle
<1> QED
  BY <1>1, <1>2, <1>3 DEF PointersInv

LEMMA NextPointers == PointersInv /\ [Next]_vars => PointersInv'
<1> SUFFICES ASSUME PointersInv, [Next]_vars PROVE PointersInv'
  OBVIOUS
<1> USE DEF PointersInv, ConfigFields
<1>1. ASSUME NEW p \in DOMAIN files, SelectResume(p) PROVE PointersInv'
  BY <1>1 DEF SelectResume, PointersResolve
<1>2. ASSUME NEW j \in Jobs, SelectJob(j) PROVE PointersInv'
  BY <1>2 DEF SelectJob, PointersResolve
<1>3. ASSUME NEW activate \in BOOLEAN, AddEvidence(activate) PROVE PointersInv'
  BY <1>3 DEF AddEvidence, PointersResolve
<1>4. CASE BuildBase
  <2>1. PICK path, doc, source : /\ files' = Written(path, doc)
                                 /\ op' = Pointer("base", path, source)
                                 /\ config' = config
    BY <1>4 DEF BuildBase
  <2>2. DOMAIN files' = DOMAIN files \cup {path}
    BY <2>1, WrittenDomain
  <2> QED
    BY <2>1, <2>2 DEF Pointer, PointersResolve
<1>5. CASE BuildStructure
  BY <1>5 DEF BuildStructure, PointersResolve
<1>6. CASE SaveEvidencePointers
  <2>1. op'.at # "pointer"
    BY <1>6 DEF SaveEvidencePointers
  <2> QED
    BY <1>6, <2>1 DEF SaveEvidencePointers, PointersResolve
<1>7. CASE RefuseStructure
  BY <1>7 DEF RefuseStructure, Idle, PointersResolve
<1>8. CASE WriteStructure
  <2>1. PICK path, doc : /\ files' = Written(path, doc)
                         /\ op' = Pointer("structure", path, op.source)
                         /\ config' = config
    BY <1>8 DEF WriteStructure
  <2>2. DOMAIN files' = DOMAIN files \cup {path}
    BY <2>1, WrittenDomain
  <2> QED
    BY <2>1, <2>2 DEF Pointer, PointersResolve
<1>9. CASE BuildRefine
  <2>1. PICK source, doc : /\ files' = Written(VersionPath(source, "refine"), doc)
                           /\ op' = Pointer("refine", VersionPath(source, "refine"), source)
                           /\ config' = config
    BY <1>9 DEF BuildRefine
  <2>2. DOMAIN files' = DOMAIN files \cup {VersionPath(source, "refine")}
    BY <2>1, WrittenDomain
  <2> QED
    BY <2>1, <2>2 DEF Pointer, PointersResolve
<1>10. CASE SetPointer
  <2>1. op.at = "pointer" /\ op.path \in DOMAIN files /\ op' = Idle /\ files' = files
    BY <1>10 DEF SetPointer
  <2>2. /\ DOMAIN config' = ConfigFields
        /\ \A f \in {"base", "structure", "refine", "standard", "final"} :
               config'[f] \in {config[f], op.path}
    <3>1. CASE op.tier = "base"
      BY <1>10, <3>1 DEF SetPointer
    <3>2. CASE op.tier = "structure"
      BY <1>10, <3>2 DEF SetPointer
    <3>3. CASE op.tier = "refine"
      BY <1>10, <3>3 DEF SetPointer
    <3>4. CASE op.tier = "final"
      BY <1>10, <3>4 DEF SetPointer
    <3> QED
      BY <2>1, <3>1, <3>2, <3>3, <3>4
  <2> QED
    BY <2>1, <2>2 DEF PointersResolve, Idle
<1>11. CASE OpenSession
  BY <1>11 DEF OpenSession, PointersResolve
<1>12. CASE CommitSession
  <2>1. PICK path, doc : files' = Written(path, doc)
    BY <1>12 DEF CommitSession
  <2>2. DOMAIN files' = DOMAIN files \cup {path}
    BY <2>1, WrittenDomain
  <2>3. config' = config /\ op'.at # "pointer"
    BY <1>12 DEF CommitSession, Idle
  <2> QED
    BY <2>2, <2>3 DEF PointersResolve
<1>13. ASSUME NEW j \in Jobs, Fit(j) PROVE PointersInv'
  BY <1>13 DEF Fit, PointersResolve
<1>14. CASE StopFit
  BY <1>14 DEF StopFit, Idle, PointersResolve
<1>15. CASE OpenFit
  BY <1>15 DEF OpenFit, PointersResolve
<1>16. CASE CommitFit
  <2>1. PICK path, doc : files' = Written(path, doc)
    BY <1>16 DEF CommitFit
  <2>2. DOMAIN files' = DOMAIN files \cup {path}
    BY <2>1, WrittenDomain
  <2>3. config' = config /\ op'.at # "pointer"
    BY <1>16 DEF CommitFit
  <2> QED
    BY <2>2, <2>3 DEF PointersResolve
<1>17. CASE WriteFinal
  <2>1. PICK doc : /\ files' = Written(FinalPath(op.source, op.job), doc)
                   /\ op'.path = FinalPath(op.source, op.job) /\ op'.tier = "final"
                   /\ config' = config
    BY <1>17 DEF WriteFinal
  <2>2. DOMAIN files' = DOMAIN files \cup {FinalPath(op.source, op.job)}
    BY <2>1, WrittenDomain
  <2> QED
    BY <2>1, <2>2 DEF PointersResolve
<1>18. CASE Crash
  BY <1>18 DEF Crash, Idle, PointersResolve
<1>19. CASE UNCHANGED vars
  BY <1>19 DEF vars, PointersResolve
<1> QED
  BY <1>1, <1>2, <1>3, <1>4, <1>5, <1>6, <1>7, <1>8, <1>9, <1>10, <1>11, <1>12,
     <1>13, <1>14, <1>15, <1>16, <1>17, <1>18, <1>19 DEF Next

\* Every version pointer of config.json names a file that exists, in every
\* reachable state, stops between two writes included.
THEOREM PointersAlwaysResolve == Spec => []PointersResolve
<1>1. PointersInv => PointersResolve
  BY DEF PointersInv
<1> QED
  BY <1>1, InitPointers, NextPointers, PTL DEF Spec

-----------------------------------------------------------------------------
(* Names.  With only originals selectable, a base, a structure and a refine  *)
(* have names of their own, which no tailored and no final file has.         *)

Known == ToSet(KnownSuffixes)

\* The parts of a name (the prover does not know that a literal is a string).
NamePart == STRING \cup {"working"} \cup Known

\* The names of files: dash-separated parts, the first one no version suffix.
Named == {p \in Seq(NamePart) : Len(p) >= 1 /\ p[1] \notin Known}

\* A name with one version suffix, once or repeated.
Shaped(s) == {p \in Named : Len(p) >= 2 /\ \A i \in 2 .. Len(p) : p[i] = s}

\* Every part after the first is s, if there is one.
Uniform(p, s) == p \in Named /\ \A i \in 2 .. Len(p) : p[i] = s

LEMMA KnownParts == Known = {"original", "base", "structure", "refine", "standard"}
    BY DEF Known, KnownSuffixes, ToSet

LEMMA OneOrMore == \A n \in Nat : n >= 1 /\ n # 1 => n >= 2
    OBVIOUS

LEMMA SeqOfMore ==
    ASSUME NEW p \in Seq(STRING)
    PROVE  p \in Seq(NamePart)
    BY DEF NamePart

LEMMA SuffixesAreParts ==
    /\ \A s \in {"original", "base", "structure", "refine", "standard", "working"} : s \in NamePart
    /\ Jobs \subseteq NamePart
    BY KnownParts, LineageAssumption DEF NamePart

LEMMA TailParts ==
    ASSUME NEW p \in Named
    PROVE  ToSet(Tail(p)) = {p[i] : i \in 2 .. Len(p)}
<1>1. /\ p \in Seq(NamePart) /\ Len(p) \in Nat /\ Len(p) >= 1
      /\ Tail(p) \in Seq(NamePart) /\ Len(Tail(p)) = Len(p) - 1
      /\ \A i \in 1 .. Len(p) - 1 : Tail(p)[i] = p[i + 1]
    BY DEF Named
<1>2. DOMAIN Tail(p) = 1 .. Len(p) - 1
    BY <1>1
<1>3. ASSUME NEW w \in ToSet(Tail(p)) PROVE w \in {p[i] : i \in 2 .. Len(p)}
    <2>1. PICK i \in 1 .. Len(p) - 1 : w = Tail(p)[i]
        BY <1>2, <1>3 DEF ToSet
    <2>2. w = p[i + 1] /\ i + 1 \in 2 .. Len(p)
        BY <1>1, <2>1
    <2> QED
        BY <2>2
<1>4. ASSUME NEW i \in 2 .. Len(p) PROVE p[i] \in ToSet(Tail(p))
    <2>1. i - 1 \in 1 .. Len(p) - 1 /\ Tail(p)[i - 1] = p[i]
        BY <1>1
    <2> QED
        BY <1>2, <2>1 DEF ToSet
<1> QED
    BY <1>3, <1>4

LEMMA ImportsAreUniform == \A p \in Imports : Uniform(p, "original")
<1> TAKE p \in Imports
<1>1. p \in Seq(NamePart) /\ p # <<>> /\ Head(p) \notin Known /\ ToSet(Tail(p)) \subseteq {"original"}
    BY LineageAssumption, SeqOfMore DEF NoPath, Known
<1>2. p \in Named
    BY <1>1 DEF Named
<1>3. \A i \in 2 .. Len(p) : p[i] \in ToSet(Tail(p))
    BY <1>2, TailParts
<1> QED
    BY <1>1, <1>2, <1>3 DEF Uniform

\* The three tiers are told apart by their names, and from the originals.
LEMMA ShapesDiffer ==
    /\ \A s, t \in Known : s # t => Shaped(s) \cap Shaped(t) = {}
    /\ \A s \in Known \ {"original"} : Shaped(s) \cap Imports = {}
    /\ \A s \in Known : \A p \in Shaped(s) : p # NoPath /\ p \in Named /\ Uniform(p, s)
<1>1. \A s, t : s # t => Shaped(s) \cap Shaped(t) = {}
    BY DEF Shaped, Named
<1>2. \A s : s # "original" => Shaped(s) \cap Imports = {}
    BY ImportsAreUniform DEF Shaped, Named, Uniform
<1>3. \A s : \A p \in Shaped(s) : p # NoPath /\ p \in Named /\ Uniform(p, s)
    BY DEF Shaped, Named, NoPath, Uniform
<1> QED
    BY <1>1, <1>2, <1>3

LEMMA ReplacedName ==
    ASSUME NEW p \in Named, NEW part \in Known, NEW new \in NamePart
    PROVE  LET q == ReplaceAll(p, part, new)
           IN  /\ q \in Named /\ Len(q) = Len(p) /\ q[1] = p[1]
               /\ \A i \in 2 .. Len(p) : q[i] = IF p[i] = part THEN new ELSE p[i]
<1> DEFINE q == ReplaceAll(p, part, new)
<1>1. p \in Seq(NamePart) /\ Len(p) \in Nat /\ Len(p) >= 1 /\ p[1] \notin Known
    BY DEF Named
<1>2. q = [i \in 1 .. Len(p) |-> IF p[i] = part THEN new ELSE p[i]]
    BY DEF ReplaceAll
<1>3. q \in Seq(NamePart) /\ Len(q) = Len(p)
    BY <1>1, <1>2
<1>4. \A i \in 1 .. Len(p) : q[i] = IF p[i] = part THEN new ELSE p[i]
    BY <1>2
<1>5. q[1] = p[1]
    BY <1>1, <1>4
<1> HIDE DEF q
<1>6. q \in Named
    BY <1>1, <1>3, <1>5 DEF Named
<1>7. \A i \in 2 .. Len(p) : q[i] = IF p[i] = part THEN new ELSE p[i]
    BY <1>1, <1>4
<1> QED
    BY <1>3, <1>5, <1>6, <1>7 DEF q

LEMMA AppendedName ==
    ASSUME NEW p \in Named, NEW new \in NamePart
    PROVE  LET q == Append(p, new)
           IN  /\ q \in Named /\ Len(q) = Len(p) + 1 /\ Len(q) >= 2
               /\ \A i \in 1 .. Len(p) : q[i] = p[i]
               /\ q[Len(q)] = new
<1>1. p \in Seq(NamePart) /\ Len(p) \in Nat /\ Len(p) >= 1 /\ p[1] \notin Known
    BY DEF Named
<1> DEFINE q == Append(p, new)
<1>2. /\ q \in Seq(NamePart) /\ Len(q) = Len(p) + 1
      /\ \A i \in 1 .. Len(p) : q[i] = p[i]
      /\ q[Len(p) + 1] = new
    BY <1>1
<1> HIDE DEF q
<1>3. q[1] = p[1] /\ Len(q) >= 2 /\ q[Len(q)] = new
    BY <1>1, <1>2
<1>4. q \in Named
    BY <1>1, <1>2, <1>3 DEF Named
<1> QED
    BY <1>2, <1>3, <1>4 DEF q

\* A new version of a file is named after it, with its own suffix.
LEMMA VersionName ==
    ASSUME NEW p \in Named, NEW s \in NamePart
    PROVE  LET q == VersionPath(p, s)
           IN  q \in Named /\ q[1] = p[1] /\ \E i \in 2 .. Len(q) : q[i] = s
<1> DEFINE found == {i \in DOMAIN KnownSuffixes : KnownSuffixes[i] \in ToSet(Tail(p))}
           q == VersionPath(p, s)
<1>1. CASE found = {}
    <2>1. q = Append(p, s)
        BY <1>1 DEF VersionPath
    <2>2. /\ q \in Named /\ Len(q) >= 2 /\ q[Len(q)] = s
          /\ \A i \in 1 .. Len(p) : q[i] = p[i]
        BY <2>1, AppendedName
    <2>3. 1 \in 1 .. Len(p) /\ Len(q) \in 2 .. Len(q)
        BY <2>2 DEF Named
    <2> QED
        BY <2>2, <2>3
<1>2. CASE found # {}
    <2> DEFINE part == KnownSuffixes[Min(found)]
    <2>1. Min(found) \in found
        <3>1. found \subseteq 1 .. 5
            BY DEF KnownSuffixes
        <3>2. \E x \in found : \A y \in found : x =< y
            <4> HIDE DEF found
            <4> DEFINE From(k) == found \cap k .. 5
            <4>1. \A k \in 1 .. 5 : From(k) = {} \/ \E x \in From(k) : \A y \in From(k) : x =< y
                <5>1. \A k \in 1 .. 5 : k \in found => \A y \in From(k) : k =< y
                    BY <3>1
                <5>2. \A k \in 1 .. 4 : k \notin found => From(k) = From(k + 1)
                    BY <3>1
                <5>3. From(5) = {} \/ 5 \in found
                    BY <3>1
                <5> HIDE DEF From
                <5>4. \A k \in 1 .. 5 : k \in found => k \in From(k)
                    BY DEF From
                <5> QED
                    BY <5>1, <5>2, <5>3, <5>4
            <4>2. From(1) = found
                BY <3>1
            <4> HIDE DEF From
            <4> QED
                BY <1>2, <4>1, <4>2
        <3> QED
            BY <3>2 DEF Min
    <2>2. part \in Known /\ part \in ToSet(Tail(p))
        BY <2>1 DEF Known, ToSet
    <2>3. q = ReplaceAll(p, part, s)
        BY <1>2 DEF VersionPath
    <2>4. PICK i \in 2 .. Len(p) : p[i] = part
        BY <2>2, TailParts
    <2> HIDE DEF part, q, found
    <2>5. /\ q \in Named /\ Len(q) = Len(p) /\ q[1] = p[1]
          /\ \A j \in 2 .. Len(p) : q[j] = IF p[j] = part THEN s ELSE p[j]
        BY <2>2, <2>3, ReplacedName
    <2> QED
        BY <2>4, <2>5 DEF q
<1> QED
    BY <1>1, <1>2

\* The versions of an original and of the tiers have one suffix only.
LEMMA VersionShape ==
    ASSUME NEW p, NEW old \in Known, Uniform(p, old), NEW s \in NamePart
    PROVE  VersionPath(p, s) \in Named /\ Uniform(VersionPath(p, s), s) /\ Len(VersionPath(p, s)) >= 2
<1> DEFINE found == {i \in DOMAIN KnownSuffixes : KnownSuffixes[i] \in ToSet(Tail(p))}
           q == VersionPath(p, s)
<1>1. /\ p \in Named /\ Len(p) \in Nat /\ Len(p) >= 1
      /\ \A i \in 2 .. Len(p) : p[i] = old
      /\ ToSet(Tail(p)) = {p[i] : i \in 2 .. Len(p)}
    BY TailParts DEF Uniform, Named
<1>2. CASE Len(p) = 1
    <2>1. found = {}
        BY <1>1, <1>2
    <2>2. q = Append(p, s)
        BY <2>1 DEF VersionPath
    <2> HIDE DEF q
    <2>3. q \in Named /\ Len(q) = Len(p) + 1 /\ q[Len(q)] = s
        BY <1>1, <2>2, AppendedName
    <2>4. Len(q) = 2 /\ q[2] = s
        BY <1>2, <2>3
    <2>5. Uniform(q, s)
        BY SMTT(30), <2>3, <2>4 DEF Uniform
    <2> QED
        BY <2>3, <2>4, <2>5 DEF q
<1>3. CASE Len(p) # 1
    <2> Len(p) >= 2
        BY <1>1, <1>3, OneOrMore
    <2>1. PICK k \in DOMAIN KnownSuffixes : KnownSuffixes[k] = old
        BY DEF Known, ToSet
    <2>2. ToSet(Tail(p)) = {old}
        BY <1>1, <1>3
    <2>3. \A i, j \in DOMAIN KnownSuffixes : KnownSuffixes[i] = KnownSuffixes[j] => i = j
        BY DEF KnownSuffixes
    <2>4. found = {k}
        BY <2>1, <2>2, <2>3
    <2>5. k \in Int
        BY DEF KnownSuffixes
    <2>6. Min(found) = k
        BY <2>4, <2>5 DEF Min
    <2>7. q = ReplaceAll(p, old, s)
        BY <2>1, <2>4, <2>6 DEF VersionPath
    <2> HIDE DEF q, found
    <2>8. /\ q \in Named /\ Len(q) = Len(p)
          /\ \A j \in 2 .. Len(p) : q[j] = IF p[j] = old THEN s ELSE p[j]
        BY <1>1, <2>7, ReplacedName
    <2>9. \A j \in 2 .. Len(q) : q[j] = s
        BY <1>1, <2>8
    <2>10. Uniform(q, s) /\ Len(q) >= 2
        BY <1>3, <2>8, <2>9 DEF Uniform
    <2> QED
        BY <2>8, <2>10 DEF q
<1> QED
    BY <1>2, <1>3

LEMMA BaseShape == \A p \in Imports : BasePath(p) \in Shaped("base")
<1> TAKE p \in Imports
<1> DEFINE q == BasePath(p)
<1>1. /\ p \in Named /\ Len(p) \in Nat /\ Len(p) >= 1
      /\ \A i \in 2 .. Len(p) : p[i] = "original"
      /\ ToSet(Tail(p)) = {p[i] : i \in 2 .. Len(p)}
    BY ImportsAreUniform, TailParts DEF Uniform, Named
<1>4. "base" \in NamePart /\ "original" \in Known
    BY SuffixesAreParts, KnownParts
<1>2. CASE Len(p) = 1
    <2>1. "original" \notin ToSet(Tail(p))
        BY <1>1, <1>2
    <2>2. q = Append(p, "base")
        BY <2>1 DEF BasePath
    <2> HIDE DEF q
    <2>3. q \in Named /\ Len(q) = Len(p) + 1 /\ q[Len(q)] = "base"
        BY <1>1, <1>4, <2>2, AppendedName
    <2>4. Len(q) = 2 /\ q[2] = "base"
        BY <1>2, <2>3
    <2>5. q \in Shaped("base")
        <3>1. \A i \in 2 .. Len(q) : q[i] = "base"
            BY <2>4
        <3>2. Len(q) >= 2
            BY <2>4
        <3> QED
            BY <2>3, <3>1, <3>2 DEF Shaped
    <2> QED
        BY <2>5 DEF q
<1>3. CASE Len(p) # 1
    <2> Len(p) >= 2
        BY <1>1, <1>3, OneOrMore
    <2>1. "original" \in ToSet(Tail(p))
        <3>1. 2 \in 2 .. Len(p)
            BY <1>1, <1>3
        <3> QED
            BY <1>1, <3>1
    <2>2. q = ReplaceAll(p, "original", "base")
        BY <2>1 DEF BasePath
    <2> HIDE DEF q
    <2>3. /\ q \in Named /\ Len(q) = Len(p)
          /\ \A j \in 2 .. Len(p) : q[j] = IF p[j] = "original" THEN "base" ELSE p[j]
        BY <1>1, <1>4, <2>2, ReplacedName
    <2>4. \A j \in 2 .. Len(q) : q[j] = "base"
        BY <1>1, <2>3
    <2>5. q \in Shaped("base")
        BY <1>3, <2>3, <2>4 DEF Shaped
    <2> QED
        BY <2>5 DEF q
<1> QED
    BY <1>2, <1>3

\* A name no original and no tier has.
Apart(p) == p \in Named /\ p \notin Imports /\ \A s \in Known : p \notin Shaped(s)

LEMMA WorkingName ==
    ASSUME NEW p \in Named
    PROVE  Apart(WorkingPath(p))
<1> DEFINE r == IF Last(p) = "original" THEN Front(p) ELSE p
           q == WorkingPath(p)
<1>1. p \in Seq(NamePart) /\ Len(p) \in Nat /\ Len(p) >= 1 /\ p[1] \notin Known
    BY DEF Named
<1>2. r \in Seq(NamePart) /\ Len(r) \in Nat /\ Len(r) >= 1 /\ r[1] = p[1]
    <2>1. CASE Last(p) = "original"
        <3>1. Len(p) >= 2
            BY <1>1, <2>1, KnownParts DEF Last
        <3> QED
            BY <1>1, <2>1, <3>1 DEF Front
    <2> QED
        BY <1>1, <2>1
<1>3. q = <<"working">> \o r
    BY DEF WorkingPath
<1> HIDE DEF q, r
<1>4. q \in Seq(NamePart) /\ Len(q) >= 2 /\ q[1] = "working" /\ q[2] = r[1]
    <2> DEFINE w == "working"
    <2>1. w \in NamePart
        BY SuffixesAreParts
    <2> HIDE DEF w
    <2>2. <<w>> \in Seq(NamePart) /\ Len(<<w>>) = 1 /\ <<w>>[1] = w
        BY <2>1
    <2>3. q = <<w>> \o r
        BY <1>3 DEF w
    <2>4. q \in Seq(NamePart) /\ Len(q) >= 2 /\ q[1] = w /\ q[2] = r[1]
        BY <1>2, <2>2, <2>3
    <2> QED
        BY <2>4 DEF w
<1>5. q \in Named
    BY <1>4, KnownParts DEF Named
<1>6. \A s \in Known : ~Uniform(q, s)
    BY <1>1, <1>2, <1>4 DEF Uniform
<1> QED
    BY <1>5, <1>6, KnownParts, ImportsAreUniform, ShapesDiffer DEF Apart, q

LEMMA FinalName ==
    ASSUME NEW p \in Named, NEW j \in Jobs
    PROVE  Apart(FinalPath(p, j))
<1> DEFINE q == FinalPath(p, j)
<1>1. j \in NamePart /\ j \notin Known
    BY LineageAssumption, SuffixesAreParts DEF Known
<1>2. q \in Named /\ \E i \in 2 .. Len(q) : q[i] = j
    BY <1>1, VersionName DEF FinalPath
<1> HIDE DEF q
<1>3. \A s \in Known : ~Uniform(q, s)
    BY <1>1, <1>2 DEF Uniform
<1> QED
    BY <1>2, <1>3, KnownParts, ImportsAreUniform, ShapesDiffer DEF Apart, q

-----------------------------------------------------------------------------
(* The invariant.                                                          *)

IsDocument(d) == DOMAIN d = {"of", "canonical", "bullets", "edits"}

\* The imports with content in some evidence file.
Receipted == UNION {evidence[f] : f \in EvidenceFiles}

\* What holds of the files: originals are as imported, every base and refine has
\* its bullets, and what a structure lost is on record.
FilesInv ==
    /\ \A p \in DOMAIN files : p \in Named /\ IsDocument(files[p])
    /\ \A p \in Imports : p \in DOMAIN files /\ files[p] = Imported(p)
    /\ \A p \in DOMAIN files : p \in Shaped("base") \cup Shaped("refine") =>
           files[p].bullets = TRUE /\ files[p].canonical = FALSE
    /\ \A p \in DOMAIN files : p \in Shaped("structure") =>
           files[p].bullets = TRUE /\ files[p].of \in Receipted

Built == {"base", "structure", "refine"}

\* Every pointer names a file of its own tier.
ConfigInv ==
    /\ DOMAIN config = ConfigFields
    /\ config.active \in Imports \cup {NoPath}
    /\ config.standard \in Shaped("standard") \cup {NoPath}
    /\ \A tier \in Built : config[tier] # NoPath => config[tier] \in Shaped(tier) \cap DOMAIN files
    /\ config.evidenceFile \in EvidenceFiles \cup {NoEvidence}
    /\ config.activeEvidence \in EvidenceFiles \cup {NoEvidence}
    /\ DOMAIN evidence = EvidenceFiles
    /\ session # NoSession => session.resume \in DOMAIN files

\* What a tier's builder reads, and the name of what it writes.
SourceOf(tier) == IF tier = "base" THEN BaseSource(config)
                  ELSE IF tier = "structure" THEN StructureSource(config)
                  ELSE RefineSource(config)
VersionOf(tier, from) == IF tier = "base" THEN BasePath(from) ELSE VersionPath(from, tier)

\* What an operation has read still holds when it makes its next write.
OpInv ==
    /\ op.at = "pointer" =>
           /\ op.tier \in Built \cup {"final"}
           /\ op.tier \in Built =>
                  /\ op.from = SourceOf(op.tier) /\ op.path = VersionOf(op.tier, op.from)
                  /\ op.path \in Shaped(op.tier) \cap DOMAIN files
                  /\ op.from # NoPath /\ op.from \in DOMAIN files
                  /\ files[op.path].of = files[op.from].of
    /\ op.at \in {"seed", "structure"} =>
           op.source = StructureSource(config) /\ op.source # NoPath /\ op.source \in DOMAIN files
    /\ op.at = "seed" => files[op.source].of \in evidence[SeedFile(config)]
    /\ op.at = "structure" => /\ ReadEvidence(config) \in EvidenceFiles
                              /\ files[op.source].of \in evidence[ReadEvidence(config)]
    /\ op.at \in {"fit", "fitcommit", "fitfinal"} => op.source \in DOMAIN files /\ op.job \in Jobs
    /\ op.at = "fitfinal" => WorkingPath(op.source) \in DOMAIN files

\* The tiers rebuilt since the selection descend from one another and from it.
ChainInv ==
    /\ rebuilt \in 0 .. 3
    /\ rebuilt >= 1 => /\ config.active \in Imports
                       /\ config.base = BasePath(config.active)
                       /\ config.baseFrom = config.active
                       /\ files[config.base].of = files[config.active].of
    /\ rebuilt >= 2 => /\ config.structure = VersionPath(config.base, "structure")
                       /\ config.structureFrom = config.base
                       /\ files[config.structure].of = files[config.active].of
    /\ rebuilt >= 3 => /\ config.refine = VersionPath(config.structure, "refine")
                       /\ config.refineFrom = config.structure
                       /\ files[config.refine].of = files[config.active].of

LineageInv == FilesInv /\ ConfigInv /\ OpInv /\ ChainInv

-----------------------------------------------------------------------------
(* What the invariant says of a builder's source and of a write.           *)

LEMMA LegacyNames ==
    ASSUME NEW p \in DOMAIN Legacy
    PROVE  p \in Shaped("standard")
<1>1. /\ p \in Seq(NamePart) /\ Len(p) \in Nat /\ Len(p) >= 2 /\ Head(p) \notin Known
      /\ ToSet(Tail(p)) = {"standard"}
    BY LineageAssumption, SeqOfMore DEF Known
<1>2. p \in Named
    BY <1>1 DEF Named
<1>3. \A i \in 2 .. Len(p) : p[i] = "standard"
    BY <1>1, <1>2, TailParts
<1> QED
    BY <1>1, <1>2, <1>3 DEF Shaped

\* A name that is Uniform with another suffix has its versions in their tier.
LEMMA TierName ==
    ASSUME NEW p, NEW old \in Known, Uniform(p, old), NEW s \in Known
    PROVE  VersionPath(p, s) \in Shaped(s)
<1>1. s \in NamePart
    BY DEF NamePart
<1>2. VersionPath(p, s) \in Named /\ Uniform(VersionPath(p, s), s) /\ Len(VersionPath(p, s)) >= 2
    BY <1>1, VersionShape
<1> QED
    BY <1>2 DEF Uniform, Shaped

\* An original or a base, read as a document.
LEMMA PlainSource ==
    ASSUME FilesInv, ConfigInv, NEW source \in {BaseSource(config), StructureSource(config)},
           source # NoPath
    PROVE  /\ source \in DOMAIN files /\ IsDocument(files[source])
           /\ source \in Imports \cup Shaped("base")
           /\ files[source].bullets = TRUE /\ files[source].canonical = FALSE
           /\ VersionPath(source, "structure") \in Shaped("structure")
           /\ VersionPath(source, "refine") \in Shaped("refine")
<1>1. source = config.active \/ (config.base # NoPath /\ source = config.base)
    BY DEF BaseSource, StructureSource
<1>2. CASE source = config.active
    <2>1. source \in Imports /\ source \in DOMAIN files /\ files[source] = Imported(source)
        BY <1>2 DEF ConfigInv, FilesInv
    <2>2. Uniform(source, "original")
        BY <2>1, ImportsAreUniform
    <2>3. files[source].bullets = TRUE /\ files[source].canonical = FALSE /\ IsDocument(files[source])
        BY <2>1 DEF Imported, IsDocument
    <2> QED
        BY <2>1, <2>2, <2>3, TierName, KnownParts
<1>3. CASE config.base # NoPath /\ source = config.base
    <2>1. source \in Shaped("base") /\ source \in DOMAIN files
        BY <1>3 DEF ConfigInv, Built
    <2>2. Uniform(source, "base")
        BY <2>1 DEF Shaped, Uniform
    <2>3. files[source].bullets = TRUE /\ files[source].canonical = FALSE /\ IsDocument(files[source])
        BY <2>1 DEF FilesInv
    <2> QED
        BY <2>1, <2>2, <2>3, TierName, KnownParts
<1> QED
    BY <1>1, <1>2, <1>3

LEMMA ValidatedDocument ==
    ASSUME NEW d, IsDocument(d)
    PROVE  /\ IsDocument(Validated(d)) /\ Validated(d).of = d.of
           /\ d.canonical = FALSE => Validated(d) = d
BY DEF IsDocument, Validated

\* A refine is built from a document whose bullets it reads.
LEMMA RefineDocument ==
    ASSUME FilesInv, ConfigInv, NEW source, source = RefineSource(config), source # NoPath
    PROVE  LET d == RefineInput(config, source)
           IN  /\ source \in DOMAIN files /\ IsDocument(d)
               /\ d.bullets = TRUE /\ d.canonical = FALSE /\ d.of = files[source].of
               /\ VersionPath(source, "refine") \in Shaped("refine")
<1> DEFINE d == RefineInput(config, source)
<1>1. CASE config.structure # NoPath
    <2>1. source = config.structure
        BY <1>1 DEF RefineSource
    <2>2. source \in Shaped("structure") /\ source \in DOMAIN files
        BY <1>1, <2>1 DEF ConfigInv, Built
    <2>3. files[source].bullets = TRUE /\ IsDocument(files[source])
        BY <2>2 DEF FilesInv
    <2>4. d = [files[source] EXCEPT !.canonical = FALSE]
        BY <2>1 DEF RefineInput, Projected
    <2>5. IsDocument(d) /\ d.bullets = TRUE /\ d.canonical = FALSE /\ d.of = files[source].of
        BY <2>3, <2>4 DEF IsDocument
    <2>6. Uniform(source, "structure")
        BY <2>2 DEF Shaped, Uniform
    <2> QED
        BY <2>2, <2>5, <2>6, TierName, KnownParts
<1>2. CASE config.structure = NoPath
    <2>1. source = StructureSource(config)
        BY <1>2 DEF RefineSource
    <2>2. /\ source \in DOMAIN files /\ IsDocument(files[source])
          /\ files[source].bullets = TRUE /\ files[source].canonical = FALSE
          /\ VersionPath(source, "refine") \in Shaped("refine")
        BY <2>1, PlainSource
    <2>3. d = Validated(files[source])
        BY <1>2 DEF RefineInput
    <2>4. d = files[source]
        BY <2>2, <2>3, ValidatedDocument
    <2> QED
        BY <2>2, <2>4
<1> QED
    BY <1>1, <1>2

\* The tiers rebuilt have files of their own.
LEMMA ChainNames ==
    ASSUME ConfigInv, ChainInv
    PROVE  /\ rebuilt >= 1 => config.base # NoPath /\ config.base \in Shaped("base") \cap DOMAIN files
           /\ rebuilt >= 2 => /\ config.structure # NoPath
                              /\ config.structure \in Shaped("structure") \cap DOMAIN files
           /\ rebuilt >= 3 => config.refine # NoPath /\ config.refine \in Shaped("refine") \cap DOMAIN files
<1>1. ASSUME rebuilt >= 1
      PROVE  config.base # NoPath /\ config.base \in Shaped("base") \cap DOMAIN files
    <2>1. config.base \in Shaped("base")
        BY <1>1, BaseShape DEF ChainInv
    <2>2. config.base # NoPath
        BY <2>1, ShapesDiffer, KnownParts
    <2> QED
        BY <2>1, <2>2 DEF ConfigInv, Built
<1>2. ASSUME rebuilt >= 2
      PROVE  config.structure # NoPath /\ config.structure \in Shaped("structure") \cap DOMAIN files
    <2>1. config.base \in Shaped("base")
        BY <1>1, <1>2 DEF ChainInv
    <2>2. Uniform(config.base, "base")
        BY <2>1 DEF Shaped, Uniform
    <2>3. config.structure \in Shaped("structure")
        BY <1>2, <2>2, TierName, KnownParts DEF ChainInv
    <2>4. config.structure # NoPath
        BY <2>3, ShapesDiffer, KnownParts
    <2> QED
        BY <2>3, <2>4 DEF ConfigInv, Built
<1>3. ASSUME rebuilt >= 3
      PROVE  config.refine # NoPath /\ config.refine \in Shaped("refine") \cap DOMAIN files
    <2>1. config.structure \in Shaped("structure")
        BY <1>2, <1>3 DEF ChainInv
    <2>2. Uniform(config.structure, "structure")
        BY <2>1 DEF Shaped, Uniform
    <2>3. config.refine \in Shaped("refine")
        BY <1>3, <2>2, TierName, KnownParts DEF ChainInv
    <2>4. config.refine # NoPath
        BY <2>3, ShapesDiffer, KnownParts
    <2> QED
        BY <2>3, <2>4 DEF ConfigInv, Built
<1> QED
    BY <1>1, <1>2, <1>3

\* A write keeps FilesInv when what it writes has what its tier must have.
LEMMA FilesAfterWrite ==
    ASSUME FilesInv, NEW path \in Named \ Imports, NEW doc, IsDocument(doc),
           files' = Written(path, doc), evidence' = evidence,
           path \in Shaped("base") \cup Shaped("refine") => doc.bullets = TRUE /\ doc.canonical = FALSE,
           path \in Shaped("structure") => doc.bullets = TRUE /\ doc.of \in Receipted
    PROVE  /\ FilesInv'
           /\ DOMAIN files' = DOMAIN files \cup {path} /\ files'[path] = doc
           /\ \A p \in DOMAIN files : p # path => files'[p] = files[p]
<1>1. /\ DOMAIN files' = DOMAIN files \cup {path} /\ files'[path] = doc
      /\ \A p \in DOMAIN files : p # path => files'[p] = files[p]
    BY DEF Written
<1>2. Receipted' = Receipted
    BY DEF Receipted
<1>3. \A p \in DOMAIN files' : p \in Named /\ IsDocument(files'[p])
    BY <1>1 DEF FilesInv
<1>4. \A p \in Imports : p \in DOMAIN files' /\ files'[p] = Imported(p)
    BY <1>1 DEF FilesInv
<1>5. \A p \in DOMAIN files' : p \in Shaped("base") \cup Shaped("refine") =>
          files'[p].bullets = TRUE /\ files'[p].canonical = FALSE
    BY <1>1 DEF FilesInv
<1>6. \A p \in DOMAIN files' : p \in Shaped("structure") =>
          files'[p].bullets = TRUE /\ files'[p].of \in Receipted'
    BY <1>1, <1>2 DEF FilesInv
<1> QED
    BY <1>1, <1>3, <1>4, <1>5, <1>6 DEF FilesInv

\* A file of no tier is written: nothing else notices.
LEMMA ApartWrite ==
    ASSUME LineageInv, NEW path, Apart(path), NEW doc, IsDocument(doc),
           files' = Written(path, doc), evidence' = evidence, rebuilt' = rebuilt, config' = config
    PROVE  /\ FilesInv' /\ ChainInv'
           /\ DOMAIN files' = DOMAIN files \cup {path}
<1>1. /\ path \in Named \ Imports
      /\ \A s \in Built : path \notin Shaped(s)
    BY KnownParts DEF Apart, Built
<1>2. /\ FilesInv' /\ DOMAIN files' = DOMAIN files \cup {path}
      /\ \A p \in DOMAIN files : p # path => files'[p] = files[p]
    BY <1>1, FilesAfterWrite DEF LineageInv, Built
<1>3. /\ \A tier \in Built : config[tier] # NoPath =>
             config[tier] \in DOMAIN files /\ files'[config[tier]] = files[config[tier]]
      /\ config.active \in Imports => files'[config.active] = files[config.active]
    BY <1>1, <1>2 DEF LineageInv, ConfigInv, FilesInv
<1>4. ChainInv'
    BY <1>3, ChainNames DEF LineageInv, ChainInv, Built
<1> QED
    BY <1>2, <1>4

-----------------------------------------------------------------------------
(* The invariant is inductive.                                             *)

LEMMA InitLineage == Init => LineageInv
<1> SUFFICES ASSUME Init PROVE LineageInv
    OBVIOUS
<1> PICK standard \in DOMAIN Legacy \cup {NoPath} :
          config = [active |-> NoPath, job |-> NoJob,
                    base |-> NoPath, baseFrom |-> NoPath,
                    structure |-> NoPath, structureFrom |-> NoPath,
                    refine |-> NoPath, refineFrom |-> NoPath, standard |-> standard,
                    final |-> NoPath, finalFrom |-> NoPath, finalJob |-> NoJob,
                    evidenceFile |-> NoEvidence, activeEvidence |-> NoEvidence]
    BY DEF Init
<1>1. /\ DOMAIN files = Imports \cup DOMAIN Legacy
      /\ \A p \in Imports : files[p] = Imported(p)
      /\ \A p \in DOMAIN Legacy : files[p] = Imported(Legacy[p])
    BY LineageAssumption DEF Init
<1>2. FilesInv
    <2>1. \A p \in DOMAIN files : p \in Named /\ p \notin Shaped("structure")
                                  /\ p \notin Shaped("base") /\ p \notin Shaped("refine")
        <3>1. \A p \in Imports : p \in Named /\ p \notin Shaped("structure")
                                 /\ p \notin Shaped("base") /\ p \notin Shaped("refine")
            BY ImportsAreUniform, ShapesDiffer, KnownParts DEF Uniform
        <3>2. \A p \in DOMAIN Legacy : p \in Named /\ p \notin Shaped("structure")
                                       /\ p \notin Shaped("base") /\ p \notin Shaped("refine")
            BY LegacyNames, ShapesDiffer, KnownParts
        <3> QED
            BY <1>1, <3>1, <3>2
    <2>2. \A p : IsDocument(Imported(p))
        BY DEF IsDocument, Imported
    <2>3. \A p \in DOMAIN files : IsDocument(files[p])
        BY <1>1, <2>2
    <2> QED
        BY <1>1, <2>1, <2>3 DEF FilesInv
<1>3. ConfigInv
    <2>1. config.standard \in Shaped("standard") \cup {NoPath}
        BY LegacyNames
    <2>2. \A tier \in Built : config[tier] = NoPath
        BY DEF Built
    <2>3. DOMAIN config = ConfigFields
        BY DEF ConfigFields
    <2>4. config.active = NoPath /\ config.evidenceFile = NoEvidence /\ config.activeEvidence = NoEvidence
        OBVIOUS
    <2>5. DOMAIN evidence = EvidenceFiles /\ session = NoSession
        BY DEF Init
    <2> QED
        BY <2>1, <2>2, <2>3, <2>4, <2>5 DEF ConfigInv
<1>4. OpInv
    BY DEF Init, Idle, OpInv
<1>5. ChainInv
    BY DEF Init, ChainInv
<1> QED
    BY <1>2, <1>3, <1>4, <1>5 DEF LineageInv

\* A step that writes no file and no pointer, and starts or ends nothing that the
\* invariant watches.
LEMMA QuietStep ==
    ASSUME LineageInv, files' = files, rebuilt' = rebuilt,
           DOMAIN evidence' = EvidenceFiles, Receipted \subseteq Receipted',
           DOMAIN config' = ConfigFields,
           \A f \in ConfigFields \ {"job", "evidenceFile", "activeEvidence"} : config'[f] = config[f],
           config'.evidenceFile \in EvidenceFiles \cup {NoEvidence},
           config'.activeEvidence \in EvidenceFiles \cup {NoEvidence},
           session' # NoSession => session'.resume \in DOMAIN files
    PROVE  FilesInv' /\ ConfigInv' /\ ChainInv'
<1>1. FilesInv'
    BY DEF LineageInv, FilesInv
<1>2. /\ config'.active = config.active /\ config'.standard = config.standard
      /\ \A tier \in Built : config'[tier] = config[tier]
      /\ config'.baseFrom = config.baseFrom /\ config'.structureFrom = config.structureFrom
      /\ config'.refineFrom = config.refineFrom
    BY DEF ConfigFields, Built
<1>3. ConfigInv'
    BY <1>2 DEF LineageInv, ConfigInv
<1>4. config'.base = config.base /\ config'.structure = config.structure /\ config'.refine = config.refine
    BY <1>2 DEF Built
<1>5. ChainInv'
    BY <1>2, <1>4 DEF LineageInv, ChainInv
<1> QED
    BY <1>1, <1>3, <1>5

LEMMA NextSelectResume ==
    ASSUME LineageInv, ~SelectTailored, NEW p \in DOMAIN files, SelectResume(p)
    PROVE  LineageInv'
<1>1. /\ files' = files /\ evidence' = evidence /\ session' = session /\ op' = op /\ op = Idle
      /\ rebuilt' = 0 /\ p \in Imports /\ config' = [config EXCEPT !.active = p]
    BY DEF SelectResume
<1>2. /\ DOMAIN config' = ConfigFields /\ config'.active = p /\ config'.standard = config.standard
      /\ \A tier \in Built : config'[tier] = config[tier]
      /\ config'.evidenceFile = config.evidenceFile /\ config'.activeEvidence = config.activeEvidence
    BY <1>1 DEF LineageInv, ConfigInv, ConfigFields, Built
<1>3. FilesInv'
    BY <1>1 DEF LineageInv, FilesInv, Receipted
<1>4. ConfigInv'
    BY <1>1, <1>2 DEF LineageInv, ConfigInv
<1>5. OpInv'
    BY <1>1 DEF OpInv, Idle
<1>6. ChainInv'
    BY <1>1 DEF ChainInv
<1> QED
    BY <1>3, <1>4, <1>5, <1>6 DEF LineageInv

LEMMA NextBuildBase ==
    ASSUME LineageInv, BuildBase
    PROVE  LineageInv'
<1> DEFINE source == BaseSource(config)
           path == BasePath(source)
<1>1. /\ op = Idle /\ source # NoPath /\ source \in DOMAIN files
      /\ files' = Written(path, Validated(files[source]))
      /\ op' = Pointer("base", path, source)
      /\ config' = config /\ evidence' = evidence /\ session' = session /\ rebuilt' = rebuilt
    BY DEF BuildBase, Ready
<1>2. /\ IsDocument(files[source]) /\ files[source].bullets = TRUE /\ files[source].canonical = FALSE
      /\ source \in Imports
    BY <1>1, PlainSource DEF LineageInv, BaseSource, ConfigInv
<1>3. Validated(files[source]) = files[source]
    BY <1>2, ValidatedDocument
<1>4. path \in Shaped("base") /\ path \notin Imports /\ path \in Named /\ path \notin Shaped("structure")
      /\ path \notin Shaped("refine")
    BY <1>2, BaseShape, ShapesDiffer, KnownParts
<1> HIDE DEF path
<1>5. /\ FilesInv' /\ DOMAIN files' = DOMAIN files \cup {path} /\ files'[path] = files[source]
      /\ \A p \in DOMAIN files : p # path => files'[p] = files[p]
    BY <1>1, <1>2, <1>3, <1>4, FilesAfterWrite DEF LineageInv
<1>6. ConfigInv'
    BY <1>1, <1>5 DEF LineageInv, ConfigInv
<1>7. source # path
    BY <1>2, <1>4
<1>8. OpInv'
    <2>1. op'.at = "pointer" /\ op'.tier = "base" /\ op'.path = path /\ op'.from = source
        BY <1>1 DEF Pointer
    <2>2. op'.from = SourceOf(op.tier)' /\ op'.path = VersionOf(op'.tier, op'.from)
        BY <1>1, <2>1 DEF SourceOf, VersionOf, BaseSource, path
    <2>3. files'[op'.path].of = files'[op'.from].of
        BY <1>1, <1>5, <1>7, <2>1
    <2> QED
        BY <1>1, <1>4, <1>5, <2>1, <2>2, <2>3 DEF OpInv, Built
<1>9. ChainInv'
    <2>1. files'[config.active] = files[config.active] /\ files'[path].of = files[config.active].of
        BY <1>1, <1>5, <1>7 DEF BaseSource
    <2>2. rebuilt >= 1 => config.base = path
        BY <1>1 DEF LineageInv, ChainInv, BaseSource, path
    <2>3. rebuilt >= 2 => files'[config.structure] = files[config.structure]
        BY <1>4, <1>5, ChainNames DEF LineageInv
    <2>4. rebuilt >= 3 => files'[config.refine] = files[config.refine]
        BY <1>4, <1>5, ChainNames DEF LineageInv
    <2> QED
        BY <1>1, <2>1, <2>2, <2>3, <2>4 DEF LineageInv, ChainInv
<1> QED
    BY <1>5, <1>6, <1>8, <1>9 DEF LineageInv

LEMMA NextBuildStructure ==
    ASSUME LineageInv, BuildStructure
    PROVE  LineageInv'
<1> DEFINE source == StructureSource(config)
           seed == SeedFile(config)
<1>1. /\ op = Idle /\ source # NoPath /\ source \in DOMAIN files
      /\ evidence' = [evidence EXCEPT ![seed] = @ \cup {files[source].of}]
      /\ op' = [at |-> "seed", source |-> source]
      /\ config' = config /\ files' = files /\ session' = session /\ rebuilt' = rebuilt
    BY DEF BuildStructure, Ready
<1>2. seed \in EvidenceFiles /\ DOMAIN evidence = EvidenceFiles
    BY DEF LineageInv, ConfigInv, SeedFile, ReadEvidence, EvidenceFiles, NoEvidence
<1> HIDE DEF seed
<1>3. /\ DOMAIN evidence' = EvidenceFiles /\ evidence'[seed] = evidence[seed] \cup {files[source].of}
      /\ \A f \in EvidenceFiles : evidence[f] \subseteq evidence'[f]
    BY <1>1, <1>2
<1>4. Receipted \subseteq Receipted'
    BY <1>3 DEF Receipted
<1>5. DOMAIN config' = ConfigFields
    BY <1>1 DEF LineageInv, ConfigInv
<1>6. FilesInv' /\ ConfigInv' /\ ChainInv'
    BY <1>1, <1>3, <1>4, <1>5, QuietStep DEF LineageInv, ConfigInv
<1>7. OpInv'
    <2>1. op'.at = "seed" /\ op'.source = source
        BY <1>1
    <2>2. files'[op'.source].of \in evidence'[SeedFile(config)']
        BY <1>1, <1>3, <2>1 DEF seed
    <2> QED
        BY <1>1, <2>1, <2>2 DEF OpInv
<1> QED
    BY <1>6, <1>7 DEF LineageInv

LEMMA NextSaveEvidencePointers ==
    ASSUME LineageInv, SaveEvidencePointers
    PROVE  LineageInv'
<1> DEFINE seed == SeedFile(config)
<1>1. /\ op.at = "seed" /\ op' = [op EXCEPT !.at = "structure"]
      /\ config' = [config EXCEPT !.evidenceFile = seed, !.activeEvidence = seed]
      /\ files' = files /\ evidence' = evidence /\ session' = session /\ rebuilt' = rebuilt
    BY DEF SaveEvidencePointers
<1>2. seed \in EvidenceFiles /\ DOMAIN config = ConfigFields
    BY DEF LineageInv, ConfigInv, SeedFile, ReadEvidence, EvidenceFiles, NoEvidence
<1>3. /\ op.source = StructureSource(config) /\ op.source # NoPath /\ op.source \in DOMAIN files
      /\ files[op.source].of \in evidence[seed]
    BY <1>1 DEF LineageInv, OpInv
<1> HIDE DEF seed
<1>4. /\ DOMAIN config' = ConfigFields
      /\ \A f \in ConfigFields \ {"job", "evidenceFile", "activeEvidence"} : config'[f] = config[f]
      /\ config'.evidenceFile = seed /\ config'.activeEvidence = seed
      /\ config'.base = config.base /\ config'.active = config.active
    BY <1>1, <1>2 DEF ConfigFields
<1>5. FilesInv' /\ ConfigInv' /\ ChainInv'
    <2>1. Receipted' = Receipted /\ DOMAIN evidence' = EvidenceFiles
        BY <1>1 DEF LineageInv, ConfigInv, Receipted
    <2>2. session' # NoSession => session'.resume \in DOMAIN files
        BY <1>1 DEF LineageInv, ConfigInv
    <2> QED
        BY <1>1, <1>2, <1>4, <2>1, <2>2, QuietStep
<1>6. OpInv'
    <2>1. op'.at # "pointer" /\ op'.at \notin {"seed", "fit", "fitcommit", "fitfinal"}
        BY <1>1
    <2>2. op'.source = op.source
        BY <1>1
    <2>3. StructureSource(config)' = StructureSource(config)
        BY <1>4 DEF StructureSource
    <2>4. ReadEvidence(config)' = seed
        BY <1>2, <1>4 DEF ReadEvidence, EvidenceFiles, NoEvidence
    <2>5. /\ op'.source = StructureSource(config)' /\ op'.source # NoPath /\ op'.source \in DOMAIN files'
          /\ ReadEvidence(config)' \in EvidenceFiles
          /\ files'[op'.source].of \in evidence'[ReadEvidence(config)']
        BY <1>1, <1>2, <1>3, <2>2, <2>3, <2>4
    <2> QED
        BY <2>1, <2>5 DEF OpInv
<1> QED
    BY <1>5, <1>6 DEF LineageInv

LEMMA NextWriteStructure ==
    ASSUME LineageInv, WriteStructure
    PROVE  LineageInv'
<1> DEFINE source == StructureSource(config)
           path == VersionPath(source, "structure")
           doc == [Validated(files[source]) EXCEPT !.canonical = TRUE]
<1>1. /\ op.at = "structure" /\ op.source = source /\ source # NoPath /\ source \in DOMAIN files
      /\ files[source].of \in evidence[ReadEvidence(config)]
    BY DEF WriteStructure, LineageInv, OpInv
<1>2. /\ files' = Written(path, doc) /\ op' = Pointer("structure", path, source)
      /\ config' = config /\ evidence' = evidence /\ session' = session /\ rebuilt' = rebuilt
    BY <1>1 DEF WriteStructure
<1>3. /\ IsDocument(files[source]) /\ files[source].bullets = TRUE /\ files[source].canonical = FALSE
      /\ source \in Imports \cup Shaped("base")
      /\ path \in Shaped("structure")
    BY <1>1, PlainSource DEF LineageInv
<1>4. path \in Named \ Imports /\ path \notin Shaped("base") \cup Shaped("refine") /\ source # path
    BY <1>3, ShapesDiffer, KnownParts
<1>5. IsDocument(doc) /\ doc.bullets = TRUE /\ doc.of = files[source].of
    <2>1. doc = [files[source] EXCEPT !.canonical = TRUE]
        BY <1>3, ValidatedDocument
    <2> QED
        BY <1>3, <2>1 DEF IsDocument
<1>6. doc.of \in Receipted
    <2>2. ReadEvidence(config) \in EvidenceFiles
        BY <1>1 DEF LineageInv, OpInv
    <2> QED
        BY <1>1, <1>5, <2>2 DEF Receipted
<1> HIDE DEF path, doc
<1>7. /\ FilesInv' /\ DOMAIN files' = DOMAIN files \cup {path} /\ files'[path] = doc
      /\ \A p \in DOMAIN files : p # path => files'[p] = files[p]
    BY <1>2, <1>3, <1>4, <1>5, <1>6, FilesAfterWrite DEF LineageInv
<1>8. ConfigInv'
    BY <1>2, <1>7 DEF LineageInv, ConfigInv
<1>9. OpInv'
    <2>1. op'.at = "pointer" /\ op'.tier = "structure" /\ op'.path = path /\ op'.from = source
        BY <1>2 DEF Pointer
    <2>2. op'.from = SourceOf(op.tier)' /\ op'.path = VersionOf(op'.tier, op'.from)
        BY <1>2, <2>1 DEF SourceOf, VersionOf, path
    <2>3. files'[op'.path].of = files'[op'.from].of
        BY <1>1, <1>4, <1>5, <1>7, <2>1
    <2> QED
        BY <1>1, <1>3, <1>7, <2>1, <2>2, <2>3 DEF OpInv, Built
<1>10. ChainInv'
    <2>1. rebuilt >= 1 => /\ files'[config.active] = files[config.active]
                          /\ files'[config.base] = files[config.base]
                          /\ source = config.base /\ doc.of = files[config.active].of
        <3>1. ASSUME rebuilt >= 1
              PROVE  config.base # NoPath /\ config.base \in Shaped("base") \cap DOMAIN files
            BY <3>1, ChainNames DEF LineageInv
        <3>2. ASSUME rebuilt >= 1
              PROVE  config.active \in Imports /\ config.active \in DOMAIN files
                     /\ files[config.base].of = files[config.active].of
            BY <3>2 DEF LineageInv, ChainInv, FilesInv
        <3> QED
            BY <1>4, <1>5, <1>7, <3>1, <3>2 DEF StructureSource
    <2>2. rebuilt >= 2 => config.structure = path
        BY <2>1 DEF LineageInv, ChainInv, path
    <2>3. rebuilt >= 3 => files'[config.refine] = files[config.refine]
        BY <1>4, <1>7, ChainNames DEF LineageInv
    <2> QED
        BY <1>2, <1>7, <2>1, <2>2, <2>3 DEF LineageInv, ChainInv
<1> QED
    BY <1>7, <1>8, <1>9, <1>10 DEF LineageInv

LEMMA NextBuildRefine ==
    ASSUME LineageInv, BuildRefine
    PROVE  LineageInv'
<1> DEFINE source == RefineSource(config)
           path == VersionPath(source, "refine")
           doc == RefineInput(config, source)
<1>1. /\ op = Idle /\ source # NoPath /\ source \in DOMAIN files
      /\ files' = Written(path, doc) /\ op' = Pointer("refine", path, source)
      /\ config' = config /\ evidence' = evidence /\ session' = session /\ rebuilt' = rebuilt
    BY DEF BuildRefine, Ready
<1>2. /\ IsDocument(doc) /\ doc.bullets = TRUE /\ doc.canonical = FALSE /\ doc.of = files[source].of
      /\ path \in Shaped("refine")
    BY <1>1, RefineDocument DEF LineageInv
<1>3. source \in Imports \cup Shaped("base") \cup Shaped("structure")
    <2>1. CASE config.structure # NoPath
        BY <2>1 DEF RefineSource, LineageInv, ConfigInv, Built
    <2>2. CASE config.structure = NoPath
        BY <1>1, <2>2, PlainSource DEF RefineSource, LineageInv
    <2> QED
        BY <2>1, <2>2
<1>4. path \in Named \ Imports /\ path \notin Shaped("base") \cup Shaped("structure") /\ source # path
    BY <1>2, <1>3, ShapesDiffer, KnownParts
<1> HIDE DEF path, doc
<1>5. /\ FilesInv' /\ DOMAIN files' = DOMAIN files \cup {path} /\ files'[path] = doc
      /\ \A p \in DOMAIN files : p # path => files'[p] = files[p]
    BY <1>1, <1>2, <1>4, FilesAfterWrite DEF LineageInv
<1>6. ConfigInv'
    BY <1>1, <1>5 DEF LineageInv, ConfigInv
<1>7. OpInv'
    <2>1. op'.at = "pointer" /\ op'.tier = "refine" /\ op'.path = path /\ op'.from = source
        BY <1>1 DEF Pointer
    <2>2. op'.from = SourceOf(op.tier)' /\ op'.path = VersionOf(op'.tier, op'.from)
        BY <1>1, <2>1 DEF SourceOf, VersionOf, path
    <2>3. files'[op'.path].of = files'[op'.from].of
        BY <1>1, <1>2, <1>4, <1>5, <2>1
    <2> QED
        BY <1>1, <1>2, <1>5, <2>1, <2>2, <2>3 DEF OpInv, Built
<1>8. ChainInv'
    <2>1. rebuilt >= 1 => /\ files'[config.active] = files[config.active]
                          /\ files'[config.base] = files[config.base]
        BY <1>4, <1>5, ChainNames DEF LineageInv, ChainInv, FilesInv
    <2>2. rebuilt >= 2 => files'[config.structure] = files[config.structure]
        BY <1>4, <1>5, ChainNames DEF LineageInv
    <2>3. rebuilt >= 3 => /\ config.refine = path /\ source = config.structure
                          /\ doc.of = files[config.active].of
        BY <1>2, ChainNames DEF LineageInv, ChainInv, RefineSource, path
    <2> QED
        BY <1>1, <1>5, <2>1, <2>2, <2>3 DEF LineageInv, ChainInv
<1> QED
    BY <1>5, <1>6, <1>7, <1>8 DEF LineageInv

LEMMA NextSetPointer ==
    ASSUME LineageInv, SetPointer
    PROVE  LineageInv'
<1>1. /\ op.at = "pointer" /\ op' = Idle
      /\ files' = files /\ evidence' = evidence /\ session' = session
      /\ rebuilt' = IF rebuilt < 3 /\ op.tier = Tiers[rebuilt + 1] THEN rebuilt + 1 ELSE rebuilt
    BY DEF SetPointer
<1>2. /\ op.tier \in Built \cup {"final"}
      /\ op.tier \in Built =>
             /\ op.from = SourceOf(op.tier) /\ op.path = VersionOf(op.tier, op.from)
             /\ op.path \in Shaped(op.tier) \cap DOMAIN files
             /\ op.from # NoPath /\ op.from \in DOMAIN files
             /\ files[op.path].of = files[op.from].of
    BY <1>1 DEF LineageInv, OpInv
<1>3. /\ DOMAIN config = ConfigFields /\ rebuilt \in 0 .. 3
      /\ Tiers[1] = "base" /\ Tiers[2] = "structure" /\ Tiers[3] = "refine"
    BY DEF LineageInv, ConfigInv, ChainInv, Tiers
<1>4. FilesInv'
    BY <1>1 DEF LineageInv, FilesInv, Receipted
<1>5. OpInv'
    BY <1>1 DEF OpInv, Idle
<1>6. CASE op.tier = "base"
    <2>1. config' = [config EXCEPT !.base = op.path, !.baseFrom = op.from]
        BY <1>6 DEF SetPointer
    <2>2. /\ DOMAIN config' = ConfigFields /\ config'.base = op.path /\ config'.baseFrom = op.from
          /\ \A f \in ConfigFields \ {"base", "baseFrom"} : config'[f] = config[f]
        BY <1>3, <2>1 DEF ConfigFields
    <2>3. /\ config'.active = config.active /\ config'.standard = config.standard
          /\ config'.structure = config.structure /\ config'.structureFrom = config.structureFrom
          /\ config'.refine = config.refine /\ config'.refineFrom = config.refineFrom
          /\ config'.evidenceFile = config.evidenceFile /\ config'.activeEvidence = config.activeEvidence
        BY <2>2 DEF ConfigFields
    <2>4. /\ op.from = config.active /\ op.path = BasePath(config.active)
          /\ op.path \in Shaped("base") \cap DOMAIN files /\ config.active # NoPath
          /\ files[op.path].of = files[config.active].of
        BY <1>2, <1>6 DEF SourceOf, VersionOf, BaseSource, Built
    <2>5. ConfigInv'
        BY <1>1, <2>2, <2>3, <2>4 DEF LineageInv, ConfigInv, Built
    <2>6. ChainInv'
        <3>1. config.active \in Imports
            BY <2>4 DEF LineageInv, ConfigInv
        <3>2. rebuilt >= 1 => config'.base = config.base
            BY <2>2, <2>4 DEF LineageInv, ChainInv
        <3>3. (rebuilt = 0 /\ rebuilt' = 1) \/ (rebuilt >= 1 /\ rebuilt' = rebuilt)
            BY <1>1, <1>3, <1>6
        <3> QED
            BY <1>1, <1>3, <2>2, <2>3, <2>4, <3>1, <3>2, <3>3 DEF LineageInv, ChainInv
    <2> QED
        BY <1>4, <1>5, <2>5, <2>6 DEF LineageInv
<1>7. CASE op.tier = "structure"
    <2>1. config' = [config EXCEPT !.structure = op.path, !.structureFrom = op.from]
        BY <1>7 DEF SetPointer
    <2>2. /\ DOMAIN config' = ConfigFields /\ config'.structure = op.path
          /\ config'.structureFrom = op.from
          /\ \A f \in ConfigFields \ {"structure", "structureFrom"} : config'[f] = config[f]
        BY <1>3, <2>1 DEF ConfigFields
    <2>3. /\ config'.active = config.active /\ config'.standard = config.standard
          /\ config'.base = config.base /\ config'.baseFrom = config.baseFrom
          /\ config'.refine = config.refine /\ config'.refineFrom = config.refineFrom
          /\ config'.evidenceFile = config.evidenceFile /\ config'.activeEvidence = config.activeEvidence
        BY <2>2 DEF ConfigFields
    <2>4. /\ op.from = StructureSource(config)
          /\ op.path = VersionPath(op.from, "structure")
          /\ op.path \in Shaped("structure") \cap DOMAIN files
          /\ files[op.path].of = files[op.from].of
        BY <1>2, <1>7 DEF SourceOf, VersionOf, Built
    <2>5. ConfigInv'
        BY <1>1, <2>2, <2>3, <2>4 DEF LineageInv, ConfigInv, Built
    <2>6. ChainInv'
        <3>1. rebuilt >= 1 => op.from = config.base
            BY <2>4, ChainNames DEF LineageInv, StructureSource
        <3>2. rebuilt >= 2 => config'.structure = config.structure
            BY <2>2, <2>4, <3>1 DEF LineageInv, ChainInv
        <3>3. (rebuilt = 1 /\ rebuilt' = 2) \/ (rebuilt # 1 /\ rebuilt' = rebuilt)
            BY <1>1, <1>3, <1>7
        <3> QED
            BY <1>1, <1>3, <2>2, <2>3, <2>4, <3>1, <3>2, <3>3 DEF LineageInv, ChainInv
    <2> QED
        BY <1>4, <1>5, <2>5, <2>6 DEF LineageInv
<1>8. CASE op.tier = "refine"
    <2>1. config' = [config EXCEPT !.refine = op.path, !.refineFrom = op.from]
        BY <1>8 DEF SetPointer
    <2>2. /\ DOMAIN config' = ConfigFields /\ config'.refine = op.path
          /\ config'.refineFrom = op.from
          /\ \A f \in ConfigFields \ {"refine", "refineFrom"} : config'[f] = config[f]
        BY <1>3, <2>1 DEF ConfigFields
    <2>3. /\ config'.active = config.active /\ config'.standard = config.standard
          /\ config'.base = config.base /\ config'.baseFrom = config.baseFrom
          /\ config'.structure = config.structure /\ config'.structureFrom = config.structureFrom
          /\ config'.evidenceFile = config.evidenceFile /\ config'.activeEvidence = config.activeEvidence
        BY <2>2 DEF ConfigFields
    <2>4. /\ op.from = RefineSource(config)
          /\ op.path = VersionPath(op.from, "refine")
          /\ op.path \in Shaped("refine") \cap DOMAIN files
          /\ files[op.path].of = files[op.from].of
        BY <1>2, <1>8 DEF SourceOf, VersionOf, Built
    <2>5. ConfigInv'
        BY <1>1, <2>2, <2>3, <2>4 DEF LineageInv, ConfigInv, Built
    <2>6. ChainInv'
        <3>1. rebuilt >= 2 => op.from = config.structure
            BY <2>4, ChainNames DEF LineageInv, RefineSource
        <3>2. rebuilt >= 3 => config'.refine = config.refine
            BY <2>2, <2>4, <3>1 DEF LineageInv, ChainInv
        <3>3. (rebuilt = 2 /\ rebuilt' = 3) \/ (rebuilt # 2 /\ rebuilt' = rebuilt)
            BY <1>1, <1>3, <1>8
        <3> QED
            BY <1>1, <1>3, <2>2, <2>3, <2>4, <3>1, <3>2, <3>3 DEF LineageInv, ChainInv
    <2> QED
        BY <1>4, <1>5, <2>5, <2>6 DEF LineageInv
<1>9. CASE op.tier = "final"
    <2>1. config' = [config EXCEPT !.final = op.path, !.finalFrom = op.from, !.finalJob = op.job]
        BY <1>9 DEF SetPointer
    <2>2. /\ DOMAIN config' = ConfigFields
          /\ \A f \in ConfigFields \ {"final", "finalFrom", "finalJob"} : config'[f] = config[f]
        BY <1>3, <2>1 DEF ConfigFields
    <2>3. /\ config'.active = config.active /\ config'.standard = config.standard
          /\ config'.base = config.base /\ config'.baseFrom = config.baseFrom
          /\ config'.structure = config.structure /\ config'.structureFrom = config.structureFrom
          /\ config'.refine = config.refine /\ config'.refineFrom = config.refineFrom
          /\ config'.evidenceFile = config.evidenceFile /\ config'.activeEvidence = config.activeEvidence
        BY <2>2 DEF ConfigFields
    <2>4. rebuilt' = rebuilt
        BY <1>1, <1>3, <1>9
    <2>5. ConfigInv'
        BY <1>1, <2>2, <2>3 DEF LineageInv, ConfigInv, Built
    <2>6. ChainInv'
        BY <1>1, <2>3, <2>4 DEF LineageInv, ChainInv
    <2> QED
        BY <1>4, <1>5, <2>5, <2>6 DEF LineageInv
<1> QED
    BY <1>2, <1>6, <1>7, <1>8, <1>9 DEF Built

LEMMA NextWorkingFile ==
    ASSUME LineageInv, NEW path, Apart(path), NEW doc, IsDocument(doc),
           files' = Written(path, doc), evidence' = evidence, rebuilt' = rebuilt,
           config' = config, session' = session
    PROVE  /\ FilesInv' /\ ConfigInv' /\ ChainInv'
           /\ DOMAIN files' = DOMAIN files \cup {path}
<1>1. FilesInv' /\ ChainInv' /\ DOMAIN files' = DOMAIN files \cup {path}
    BY ApartWrite
<1>2. ConfigInv'
    BY <1>1 DEF LineageInv, ConfigInv
<1> QED
    BY <1>1, <1>2

LEMMA NextCommitSession ==
    ASSUME LineageInv, CommitSession
    PROVE  LineageInv'
<1> DEFINE path == WorkingPath(session.resume)
           read == Validated(files[session.resume])
<1>1. PICK doc \in {read, [read EXCEPT !.edits = @ \cup {session.job}]} :
          /\ op = Idle /\ session # NoSession
          /\ files' = Written(path, doc)
          /\ config' = config /\ evidence' = evidence /\ session' = session /\ op' = op
          /\ rebuilt' = rebuilt
    BY DEF CommitSession
<1>2. session.resume \in Named /\ IsDocument(read)
    BY <1>1, ValidatedDocument DEF LineageInv, ConfigInv, FilesInv
<1>3. IsDocument(doc)
    BY <1>1, <1>2 DEF IsDocument
<1>4. Apart(path)
    BY <1>2, WorkingName
<1>5. FilesInv' /\ ConfigInv' /\ ChainInv'
    BY <1>1, <1>3, <1>4, NextWorkingFile
<1>6. OpInv'
    BY <1>1 DEF OpInv, Idle
<1> QED
    BY <1>5, <1>6 DEF LineageInv

LEMMA NextCommitFit ==
    ASSUME LineageInv, CommitFit
    PROVE  LineageInv'
<1> DEFINE path == WorkingPath(op.source)
           doc == Validated(files[op.source])
<1>1. /\ op.at = "fitcommit" /\ files' = Written(path, doc)
      /\ op' = [op EXCEPT !.at = "fitfinal"]
      /\ config' = config /\ evidence' = evidence /\ session' = session /\ rebuilt' = rebuilt
    BY DEF CommitFit
<1>2. op.source \in DOMAIN files /\ op.job \in Jobs
    BY <1>1 DEF LineageInv, OpInv
<1>3. op.source \in Named /\ IsDocument(doc)
    BY <1>2, ValidatedDocument DEF LineageInv, FilesInv
<1>4. Apart(path)
    BY <1>3, WorkingName
<1>5. FilesInv' /\ ConfigInv' /\ ChainInv' /\ DOMAIN files' = DOMAIN files \cup {path}
    BY <1>1, <1>3, <1>4, NextWorkingFile
<1>6. OpInv'
    <2>1. op'.at = "fitfinal" /\ op'.source = op.source /\ op'.job = op.job
        BY <1>1
    <2> QED
        BY <1>2, <1>5, <2>1 DEF OpInv
<1> QED
    BY <1>5, <1>6 DEF LineageInv

LEMMA NextWriteFinal ==
    ASSUME LineageInv, WriteFinal
    PROVE  LineageInv'
<1> DEFINE path == FinalPath(op.source, op.job)
           doc == files[WorkingPath(op.source)]
<1>1. /\ op.at = "fitfinal" /\ files' = Written(path, doc)
      /\ op' = [at |-> "pointer", tier |-> "final", path |-> path, from |-> op.source, job |-> op.job]
      /\ config' = config /\ evidence' = evidence /\ session' = session /\ rebuilt' = rebuilt
    BY DEF WriteFinal
<1>2. op.source \in DOMAIN files /\ op.job \in Jobs /\ WorkingPath(op.source) \in DOMAIN files
    BY <1>1 DEF LineageInv, OpInv
<1>3. op.source \in Named /\ IsDocument(doc)
    BY <1>2 DEF LineageInv, FilesInv
<1>4. Apart(path)
    BY <1>2, <1>3, FinalName
<1>5. FilesInv' /\ ConfigInv' /\ ChainInv'
    BY <1>1, <1>3, <1>4, NextWorkingFile
<1>6. OpInv'
    <2>1. op'.at = "pointer" /\ op'.tier = "final"
        BY <1>1
    <2> QED
        BY <2>1 DEF OpInv, Built
<1> QED
    BY <1>5, <1>6 DEF LineageInv

LEMMA NextLineage == ~SelectTailored /\ LineageInv /\ [Next]_vars => LineageInv'
<1> SUFFICES ASSUME ~SelectTailored, LineageInv, [Next]_vars PROVE LineageInv'
    OBVIOUS
<1>0. /\ DOMAIN config = ConfigFields /\ DOMAIN evidence = EvidenceFiles
      /\ session # NoSession => session.resume \in DOMAIN files
      /\ config.evidenceFile \in EvidenceFiles \cup {NoEvidence}
      /\ config.activeEvidence \in EvidenceFiles \cup {NoEvidence}
    BY DEF LineageInv, ConfigInv
<1>1. ASSUME NEW p \in DOMAIN files, SelectResume(p) PROVE LineageInv'
    BY <1>1, NextSelectResume
<1>2. ASSUME NEW j \in Jobs, SelectJob(j) PROVE LineageInv'
    <2>1. /\ op = Idle /\ op' = op /\ files' = files /\ evidence' = evidence /\ session' = session
          /\ rebuilt' = rebuilt /\ config' = [config EXCEPT !.job = j]
        BY <1>2 DEF SelectJob
    <2>2. /\ DOMAIN config' = ConfigFields
          /\ \A f \in ConfigFields \ {"job", "evidenceFile", "activeEvidence"} : config'[f] = config[f]
          /\ config'.evidenceFile = config.evidenceFile /\ config'.activeEvidence = config.activeEvidence
        BY <1>0, <2>1 DEF ConfigFields
    <2>3. FilesInv' /\ ConfigInv' /\ ChainInv'
        BY <1>0, <2>1, <2>2, QuietStep DEF Receipted
    <2>4. OpInv'
        BY <2>1 DEF OpInv, Idle
    <2> QED
        BY <2>3, <2>4 DEF LineageInv
<1>3. ASSUME NEW activate \in BOOLEAN, AddEvidence(activate) PROVE LineageInv'
    <2>1. /\ op = Idle /\ op' = op /\ files' = files /\ evidence' = evidence /\ session' = session
          /\ rebuilt' = rebuilt
          /\ config' = [config EXCEPT !.evidenceFile = "user-confirmed-evidence",
                                      !.activeEvidence = IF activate THEN "user-confirmed-evidence" ELSE @]
        BY <1>3 DEF AddEvidence
    <2>2. /\ DOMAIN config' = ConfigFields
          /\ \A f \in ConfigFields \ {"job", "evidenceFile", "activeEvidence"} : config'[f] = config[f]
          /\ config'.evidenceFile \in EvidenceFiles \cup {NoEvidence}
          /\ config'.activeEvidence \in EvidenceFiles \cup {NoEvidence}
        BY <1>0, <2>1 DEF ConfigFields, EvidenceFiles
    <2>3. FilesInv' /\ ConfigInv' /\ ChainInv'
        BY <1>0, <2>1, <2>2, QuietStep DEF Receipted
    <2>4. OpInv'
        BY <2>1 DEF OpInv, Idle
    <2> QED
        BY <2>3, <2>4 DEF LineageInv
<1>4. CASE BuildBase
    BY <1>4, NextBuildBase
<1>5. CASE BuildStructure
    BY <1>5, NextBuildStructure
<1>6. CASE SaveEvidencePointers
    BY <1>6, NextSaveEvidencePointers
<1>7. CASE WriteStructure
    BY <1>7, NextWriteStructure
<1>8. CASE BuildRefine
    BY <1>8, NextBuildRefine
<1>9. CASE SetPointer
    BY <1>9, NextSetPointer
<1>10. CASE CommitSession
    BY <1>10, NextCommitSession
<1>11. CASE CommitFit
    BY <1>11, NextCommitFit
<1>12. CASE WriteFinal
    BY <1>12, NextWriteFinal
<1>13. CASE RefuseStructure \/ StopFit \/ Crash
    <2>1. /\ op' = Idle /\ files' = files /\ evidence' = evidence /\ session' = session
          /\ rebuilt' = rebuilt /\ config' = config
        BY <1>13 DEF RefuseStructure, StopFit, Crash
    <2>2. FilesInv' /\ ConfigInv' /\ ChainInv'
        BY <1>0, <2>1, QuietStep DEF Receipted
    <2>3. OpInv'
        BY <2>1 DEF OpInv, Idle
    <2> QED
        BY <2>2, <2>3 DEF LineageInv
<1>14. CASE OpenSession
    <2>1. /\ op = Idle /\ op' = op /\ files' = files /\ evidence' = evidence /\ config' = config
          /\ rebuilt' = rebuilt /\ session'.resume \in DOMAIN files
        BY <1>14 DEF OpenSession, Ready
    <2>2. FilesInv' /\ ConfigInv' /\ ChainInv'
        BY <1>0, <2>1, QuietStep DEF Receipted
    <2>3. OpInv'
        BY <2>1 DEF OpInv, Idle
    <2> QED
        BY <2>2, <2>3 DEF LineageInv
<1>15. ASSUME NEW j \in Jobs, Fit(j) PROVE LineageInv'
    <2>1. /\ files' = files /\ evidence' = evidence /\ session' = session
          /\ rebuilt' = rebuilt /\ config' = [config EXCEPT !.job = j]
          /\ op' = [at |-> "fit", source |-> Resolved(config), job |-> j]
          /\ Resolved(config) \in DOMAIN files
        BY <1>15 DEF Fit, Ready
    <2>2. /\ DOMAIN config' = ConfigFields
          /\ \A f \in ConfigFields \ {"job", "evidenceFile", "activeEvidence"} : config'[f] = config[f]
          /\ config'.evidenceFile = config.evidenceFile /\ config'.activeEvidence = config.activeEvidence
        BY <1>0, <2>1 DEF ConfigFields
    <2>3. FilesInv' /\ ConfigInv' /\ ChainInv'
        BY <1>0, <2>1, <2>2, QuietStep DEF Receipted
    <2>4. OpInv'
        BY <2>1 DEF OpInv
    <2> QED
        BY <2>3, <2>4 DEF LineageInv
<1>16. CASE OpenFit
    <2>1. /\ op.at = "fit" /\ op' = [op EXCEPT !.at = "fitcommit"] /\ files' = files
          /\ evidence' = evidence /\ config' = config /\ rebuilt' = rebuilt
          /\ session'.resume = op.source
        BY <1>16 DEF OpenFit
    <2>2. op.source \in DOMAIN files /\ op.job \in Jobs
        BY <2>1 DEF LineageInv, OpInv
    <2>3. FilesInv' /\ ConfigInv' /\ ChainInv'
        BY <1>0, <2>1, <2>2, QuietStep DEF Receipted
    <2>4. op'.at = "fitcommit" /\ op'.source = op.source /\ op'.job = op.job
        BY <2>1
    <2>5. OpInv'
        BY <2>1, <2>2, <2>4 DEF OpInv
    <2> QED
        BY <2>3, <2>5 DEF LineageInv
<1>17. CASE UNCHANGED vars
    BY <1>17 DEF vars, LineageInv, FilesInv, ConfigInv, OpInv, ChainInv, Receipted, SourceOf
<1> QED
    BY <1>1, <1>2, <1>3, <1>4, <1>5, <1>6, <1>7, <1>8, <1>9, <1>10, <1>11, <1>12,
       <1>13, <1>14, <1>15, <1>16, <1>17 DEF Next

-----------------------------------------------------------------------------
(* What the invariant gives.                                               *)

LEMMA LineageUnbroken == LineageInv => RebuiltLineage
<1> SUFFICES ASSUME LineageInv, rebuilt = 3 PROVE RebuiltLineage
    BY DEF RebuiltLineage
<1>1. config.refine # NoPath
    BY ChainNames DEF LineageInv
<1>2. Resolved(config) = config.refine
    <2> DEFINE pointers == <<config.refine, config.standard, config.structure, config.base, config.active>>
               set == {i \in DOMAIN pointers : pointers[i] # NoPath}
    <2>1. DOMAIN pointers = 1 .. 5 /\ pointers[1] = config.refine
        OBVIOUS
    <2> HIDE DEF pointers
    <2>2. 1 \in set /\ set \subseteq 1 .. 5
        BY <1>1, <2>1
    <2> HIDE DEF set
    <2>3. Min(set) = 1
        <3>1. \A x \in set : (\A y \in set : x =< y) <=> x = 1
            BY <2>2
        <3>2. Min(set) = CHOOSE x \in set : \A y \in set : x =< y
            BY DEF Min
        <3>3. Min(set) \in set /\ \A y \in set : Min(set) =< y
            BY <2>2, <3>1, <3>2
        <3> QED
            BY <3>1, <3>3
    <2>4. set # {}
        BY <2>2
    <2> QED
        BY <2>1, <2>3, <2>4 DEF Resolved, FirstSet, pointers, set
<1>3. \A p \in {config.base, config.structure, config.refine} : files[p].of = files[config.active].of
    BY DEF LineageInv, ChainInv
<1> QED
    BY <1>2, <1>3 DEF RebuiltLineage, LineageInv, ChainInv

LEMMA ContentSafe == LineageInv => ContentKeptOrReceipted
<1> SUFFICES ASSUME LineageInv PROVE ContentKeptOrReceipted
    OBVIOUS
<1>1. \A tier \in Built : config[tier] # NoPath =>
          /\ config[tier] \in Shaped(tier) \cap DOMAIN files
          /\ files[config[tier]].bullets = TRUE
    BY DEF LineageInv, ConfigInv, FilesInv, Built
<1>2. BuildersKeepBullets
    BY <1>1 DEF BuildersKeepBullets, Built
<1>3. config.structure # NoPath =>
          files[config.structure].of \in UNION {evidence[f] : f \in EvidenceFiles}
    BY <1>1 DEF LineageInv, FilesInv, Built, Receipted
<1>4. op.at = "structure" => files[op.source].of \in evidence[ReadEvidence(config)]
    BY DEF LineageInv, OpInv
<1> QED
    BY <1>2, <1>3, <1>4 DEF ContentKeptOrReceipted, DroppedContentReceipted

\* What a step may write over (the body of EarlierVersionsUntouched).
Untouched ==
    wrote' # NoPath /\ wrote' \in DOMAIN files =>
        /\ wrote' \notin Imports
        /\ wrote' \notin TierFiles(config, IF op'.at = "pointer" THEN op'.tier ELSE "final")

LEMMA WriteUntouched ==
    ASSUME NEW path, wrote' = path, path \notin Imports,
           path \notin TierFiles(config, IF op'.at = "pointer" THEN op'.tier ELSE "final")
    PROVE  Untouched
BY DEF Untouched

LEMMA StepUntouched == LineageInv /\ Next => Untouched
<1> SUFFICES ASSUME LineageInv, Next PROVE Untouched
    OBVIOUS
<1>0. /\ config.active \in Imports \cup {NoPath}
      /\ config.standard \in Shaped("standard") \cup {NoPath}
      /\ config.base \in Shaped("base") \cup {NoPath}
      /\ config.structure \in Shaped("structure") \cup {NoPath}
      /\ config.refine \in Shaped("refine") \cup {NoPath}
    BY DEF LineageInv, ConfigInv, Built
<1>1. ASSUME NEW path, Apart(path), NEW tier
      PROVE  path \notin Imports /\ path \notin TierFiles(config, tier)
    BY <1>0, <1>1, KnownParts DEF TierFiles, Apart, Named, NoPath
<1>2. CASE wrote' = NoPath
    BY <1>2 DEF Untouched
<1>3. CASE BuildBase
    <2> DEFINE source == BaseSource(config)
               path == BasePath(source)
    <2>1. wrote' = path /\ op' = Pointer("base", path, source)
          /\ source # NoPath
        BY <1>3 DEF BuildBase, Ready
    <2>2. path \in Shaped("base")
        BY <1>0, <2>1, BaseShape DEF BaseSource
    <2>3. path \notin Imports /\ path \notin {config.active, config.standard}
        BY <1>0, <2>2, ShapesDiffer, KnownParts
    <2>4. op'.at = "pointer" /\ op'.tier = "base"
        BY <2>1 DEF Pointer
    <2> HIDE DEF path, source
    <2> QED
        BY <2>1, <2>3, <2>4, WriteUntouched DEF TierFiles
<1>4. CASE WriteStructure
    <2> DEFINE source == StructureSource(config)
               path == VersionPath(source, "structure")
    <2>1. op.source = source /\ source # NoPath
        BY <1>4 DEF WriteStructure, LineageInv, OpInv
    <2>2. wrote' = path /\ op' = Pointer("structure", path, source)
        BY <1>4, <2>1 DEF WriteStructure
    <2>3. path \in Shaped("structure")
        BY <2>1, PlainSource DEF LineageInv
    <2>4. path \notin Imports /\ path \notin {config.active, config.standard, config.base}
        BY <1>0, <2>3, ShapesDiffer, KnownParts
    <2>5. op'.at = "pointer" /\ op'.tier = "structure"
        BY <2>2 DEF Pointer
    <2> HIDE DEF path, source
    <2> QED
        BY <2>2, <2>4, <2>5, WriteUntouched DEF TierFiles
<1>5. CASE BuildRefine
    <2> DEFINE source == RefineSource(config)
               path == VersionPath(source, "refine")
    <2>1. wrote' = path /\ op' = Pointer("refine", path, source) /\ source # NoPath
        BY <1>5 DEF BuildRefine, Ready
    <2>3. path \in Shaped("refine")
        BY <2>1, RefineDocument DEF LineageInv
    <2>4. path \notin Imports /\ path \notin {config.active, config.standard, config.base, config.structure}
        BY <1>0, <2>3, ShapesDiffer, KnownParts
    <2>5. op'.at = "pointer" /\ op'.tier = "refine"
        BY <2>1 DEF Pointer
    <2> HIDE DEF path, source
    <2> QED
        BY <2>1, <2>4, <2>5, WriteUntouched DEF TierFiles
<1>6. CASE CommitSession
    <2>1. wrote' = WorkingPath(session.resume) /\ session # NoSession
        BY <1>6 DEF CommitSession
    <2>2. Apart(WorkingPath(session.resume))
        BY <2>1, WorkingName DEF LineageInv, ConfigInv, FilesInv
    <2> QED
        BY <1>1, <2>1, <2>2, WriteUntouched
<1>7. CASE CommitFit
    <2>1. wrote' = WorkingPath(op.source) /\ op.at = "fitcommit"
        BY <1>7 DEF CommitFit
    <2>2. Apart(WorkingPath(op.source))
        BY <2>1, WorkingName DEF LineageInv, OpInv, FilesInv
    <2> QED
        BY <1>1, <2>1, <2>2, WriteUntouched
<1>8. CASE WriteFinal
    <2>1. wrote' = FinalPath(op.source, op.job) /\ op.at = "fitfinal"
        BY <1>8 DEF WriteFinal
    <2>2. Apart(FinalPath(op.source, op.job))
        BY <2>1, FinalName DEF LineageInv, OpInv, FilesInv
    <2> QED
        BY <1>1, <2>1, <2>2, WriteUntouched
<1> QED
    BY <1>2, <1>3, <1>4, <1>5, <1>6, <1>7, <1>8
       DEF Next, SelectResume, SelectJob, AddEvidence, BuildStructure, SaveEvidencePointers,
           RefuseStructure, SetPointer, OpenSession, Fit, StopFit, OpenFit, Crash

\* As long as the user makes only originals the active resume: once base, structure
\* and refine are rebuilt in order after a selection, tailoring starts from the
\* refine of that selection, each tier derived from the one before, whatever an
\* earlier resume, a stop or a fit in between left behind.
THEOREM SpecRebuiltLineage ==
    ASSUME ~SelectTailored
    PROVE  Spec => []RebuiltLineage
<1>1. LineageInv /\ [Next]_vars => LineageInv'
    BY NextLineage
<1> QED
    BY <1>1, InitLineage, LineageUnbroken, PTL DEF Spec

\* Under the same condition no builder loses content: every version a pointer names
\* has its bullets, and what structure drops is on record as evidence, in the file
\* the ledger gate reads while it decides.
THEOREM SpecContentKeptOrReceipted ==
    ASSUME ~SelectTailored
    PROVE  Spec => []ContentKeptOrReceipted
<1>1. LineageInv /\ [Next]_vars => LineageInv'
    BY NextLineage
<1> QED
    BY <1>1, InitLineage, ContentSafe, PTL DEF Spec

\* Under the same condition no step writes over an imported original, and none
\* over a version an earlier stage's pointer names.
THEOREM SpecEarlierVersionsUntouched ==
    ASSUME ~SelectTailored
    PROVE  Spec => EarlierVersionsUntouched
<1>1. LineageInv /\ [Next]_vars => LineageInv'
    BY NextLineage
<1>2. LineageInv /\ [Next]_vars => [Untouched]_vars
    BY StepUntouched
<1>3. Spec => [][Untouched]_vars
    BY <1>1, <1>2, InitLineage, PTL DEF Spec
<1>4. EarlierVersionsUntouched <=> [][Untouched]_vars
    BY DEF EarlierVersionsUntouched, Untouched
<1> QED
    BY <1>3, <1>4

=============================================================================
