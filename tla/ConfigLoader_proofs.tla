------------------------- MODULE ConfigLoader_proofs -------------------------
(***************************************************************************)
(* What the merge of configuration documents promises, for all documents.  *)
(***************************************************************************)
EXTENDS ConfigLoader, TLAPS

(* The keys above a key above p are above p. *)
LEMMA AboveAbove ==
  ASSUME NEW p \in Seq(STRING), NEW q \in Above(p), NEW r \in Above(q)
  PROVE  r \in Above(p)
<1>1. PICK n \in 0 .. Len(p) - 1 : q = SubSeq(p, 1, n)
  BY DEF Above
<1>2. Len(q) = n /\ q \in Seq(STRING)
  BY <1>1
<1>3. PICK m \in 0 .. Len(q) - 1 : r = SubSeq(q, 1, m)
  BY DEF Above
<1>4. m \in 0 .. n - 1
  BY <1>2, <1>3
<1>5. r = SubSeq(p, 1, m)
  <2>1. \A i \in 1 .. m : q[i] = p[i]
    BY <1>1, <1>4
  <2> QED
    BY <1>1, <1>2, <1>3, <1>4, <2>1
<1> QED
  BY <1>4, <1>5 DEF Above

(* Only the root is above a top level key. *)
LEMMA AboveTopLevel ==
  ASSUME NEW key \in STRING
  PROVE  Above(<<key>>) = {<<>>}
<1>1. Len(<<key>>) = 1
  OBVIOUS
<1>2. SubSeq(<<key>>, 1, 0) = <<>>
  OBVIOUS
<1>3. 0 .. Len(<<key>>) - 1 = {0}
  BY <1>1
<1>4. Above(<<key>>) = {SubSeq(<<key>>, 1, n) : n \in {0}}
  BY <1>3 DEF Above
<1> QED
  BY <1>2, <1>4

(* A setting of the merged document is that of the upper document if it    *)
(* decides the path, else that of the lower.                               *)
LEMMA MergeGet ==
  ASSUME NEW base, NEW over, NEW p
  PROVE  Get(Merge(base, over), p) =
           IF Decides(over, p) THEN Get(over, p) ELSE Get(base, p)
<1> DEFINE m == Merge(base, over)
<1>1. p \in DOMAIN m <=> \/ p \in DOMAIN over
                         \/ /\ p \in DOMAIN base
                            /\ \A q \in Above(p) : q \in DOMAIN over => over[q] = Dict
  BY DEF Merge
<1>2. p \in DOMAIN m => m[p] = IF p \in DOMAIN over THEN over[p] ELSE base[p]
  BY DEF Merge
<1>3. CASE p \in DOMAIN over
  BY <1>1, <1>2, <1>3 DEF Get, Decides
<1>4. CASE p \notin DOMAIN over /\ Decides(over, p)
  BY <1>1, <1>4 DEF Get, Decides
<1>5. CASE ~ Decides(over, p)
  BY <1>1, <1>2, <1>5 DEF Get, Decides
<1> QED
  BY <1>3, <1>4, <1>5

\* A merge invents no keys.
LEMMA MergeDomain ==
  ASSUME NEW base, NEW over
  PROVE  DOMAIN Merge(base, over) \subseteq DOMAIN base \cup DOMAIN over
BY DEF Merge

(* _deep_merge makes a document of two documents. *)
THEOREM MergeIsDocument ==
  ASSUME NEW base, NEW over, IsDocument(base), IsDocument(over)
  PROVE  IsDocument(Merge(base, over))
<1> DEFINE m == Merge(base, over)
<1>1. DOMAIN m \subseteq Seq(STRING)
  BY MergeDomain DEF IsDocument
<1>2. <<>> \in DOMAIN m /\ m[<<>>] = Dict
  BY DEF IsDocument, Merge
<1>3. ASSUME NEW p \in DOMAIN m, NEW q \in Above(p)
      PROVE  q \in DOMAIN m /\ m[q] = Dict
  <2>1. CASE p \in DOMAIN over
    <3>1. q \in DOMAIN over /\ over[q] = Dict
      BY <1>3, <2>1 DEF IsDocument
    <3> QED
      BY <3>1 DEF Merge
  <2>2. CASE p \notin DOMAIN over
    <3>1. /\ p \in DOMAIN base
          /\ \A r \in Above(p) : r \in DOMAIN over => over[r] = Dict
      BY <1>3, <2>2 DEF Merge
    <3>2. q \in DOMAIN base /\ base[q] = Dict
      BY <1>3, <3>1 DEF IsDocument
    <3>3. \A r \in Above(q) : r \in Above(p)
      BY <1>1, <1>3, AboveAbove
    <3>4. q \in DOMAIN over => over[q] = Dict
      BY <1>3, <3>1
    <3>5. q \in DOMAIN m
      BY <3>1, <3>2, <3>3 DEF Merge
    <3> QED
      BY <3>2, <3>4, <3>5 DEF Merge
  <2> QED
    BY <2>1, <2>2
<1> QED
  BY <1>1, <1>2, <1>3 DEF IsDocument

(* Of three layers merged one over the other, the highest that decides a   *)
(* path gives its setting.                                                 *)
THEOREM ThreeLayers ==
  ASSUME NEW b, NEW o, NEW l, NEW p
  PROVE  Get(Merge(Merge(b, o), l), p) =
           CASE Decides(l, p) -> Get(l, p)
             [] ~ Decides(l, p) /\ Decides(o, p) -> Get(o, p)
             [] OTHER -> Get(b, p)
<1>1. Get(Merge(Merge(b, o), l), p) =
        IF Decides(l, p) THEN Get(l, p) ELSE Get(Merge(b, o), p)
  BY MergeGet
<1>2. Get(Merge(b, o), p) = IF Decides(o, p) THEN Get(o, p) ELSE Get(b, p)
  BY MergeGet
<1> QED
  BY <1>1, <1>2

(* A layer's data is a document when its file's is. *)
LEMMA LayersAreDocuments ==
  ASSUME NEW org, NEW project, IsDocument(org.doc), IsDocument(project.doc)
  PROVE  IsDocument(OrgData(org)) /\ IsDocument(ProjectData(project))
<1>1. IsDocument(Empty)
  <2>1. DOMAIN Empty = {<<>>} /\ Empty[<<>>] = Dict
    BY DEF Empty
  <2>2. Above(<<>>) = {}
    BY DEF Above
  <2> QED
    BY <2>1, <2>2 DEF IsDocument
<1> QED
  BY <1>1 DEF OrgData, ProjectData, LayerData

(* load() makes a document, whatever state the files are in. *)
THEOREM LoadIsDocument ==
  ASSUME NEW org, NEW project, IsDocument(org.doc), IsDocument(project.doc)
  PROVE  IsDocument(Load(org, project).raw)
BY BuiltinAssumption, LayersAreDocuments, MergeIsDocument DEF Load

(* load() gives every path the value of the highest layer that decides it, *)
(* and its source map names the layer of a plain top level value.          *)
THEOREM LoadPrecedence ==
  ASSUME NEW org, NEW project, IsDocument(org.doc), IsDocument(project.doc)
  PROVE  HighestLayerWins(Load(org, project))
<1> DEFINE b == Builtin
           o == OrgData(org)
           l == ProjectData(project)
           raw == Merge(Merge(b, o), l)
           sources == SourceMap(b, o, l)
           layers == [project_config |-> l, org_config |-> o, builtin_default |-> b]
           paths == DOMAIN l \cup DOMAIN o \cup DOMAIN b
<1>1. IsDocument(b) /\ IsDocument(o) /\ IsDocument(l)
  BY BuiltinAssumption, LayersAreDocuments
<1>2. DOMAIN raw \subseteq paths
  BY MergeDomain
<1>3. ASSUME NEW p \in paths
      PROVE  Get(raw, p) = CASE Decides(l, p) -> Get(l, p)
                             [] ~ Decides(l, p) /\ Decides(o, p) -> Get(o, p)
                             [] OTHER -> Get(b, p)
  BY ThreeLayers
<1>4. ASSUME NEW key \in DOMAIN sources
      PROVE  raw[<<key>>] = layers[sources[key]][<<key>>]
  <2> DEFINE all == DOMAIN b \cup DOMAIN o \cup DOMAIN l
  <2>1. PICK q \in all : Len(q) = 1 /\ key = q[1]
    BY DEF SourceMap
  <2>2. q \in Seq(STRING)
    BY <1>1 DEF IsDocument
  <2>3. q = <<key>> /\ key \in STRING
    BY <2>1, <2>2
  <2>4. Above(q) = {<<>>}
    BY <2>3, AboveTopLevel
  <2>5. \A d \in {b, o, l} : Decides(d, q) <=> q \in DOMAIN d
    BY <1>1, <2>4 DEF Decides, IsDocument
  <2>6. Get(raw, q) = IF q \in DOMAIN l THEN l[q]
                      ELSE IF q \in DOMAIN o THEN o[q] ELSE b[q]
    BY <2>1, <2>5, ThreeLayers DEF Get
  <2>7. q \in DOMAIN raw
    BY <2>1, <2>4, <2>5, <1>1 DEF Merge, IsDocument
  <2>8. raw[q] = IF q \in DOMAIN l THEN l[q]
                 ELSE IF q \in DOMAIN o THEN o[q] ELSE b[q]
    BY <2>6, <2>7 DEF Get
  <2>9. sources[key] = IF q \in DOMAIN l THEN "project_config"
                       ELSE IF q \in DOMAIN o THEN "org_config"
                       ELSE "builtin_default"
    BY <2>3 DEF SourceMap
  <2>10. CASE q \in DOMAIN l
    BY <2>10, <2>3, <2>8, <2>9
  <2>11. CASE q \notin DOMAIN l /\ q \in DOMAIN o
    BY <2>11, <2>3, <2>8, <2>9
  <2>12. CASE q \notin DOMAIN l /\ q \notin DOMAIN o
    BY <2>12, <2>3, <2>8, <2>9
  <2> QED
    BY <2>10, <2>11, <2>12
<1>5. /\ Load(org, project).raw = raw
      /\ Load(org, project).sources = sources
      /\ Load(org, project).layers = layers
  BY DEF Load
<1> HIDE DEF raw, sources
<1> QED
  BY <1>2, <1>3, <1>4, <1>5 DEF HighestLayerWins
=============================================================================
