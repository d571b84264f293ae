--------------------------- MODULE ImageFilesProofs ---------------------------
(***************************************************************************)
(* Proofs about ImageFiles, for any number of sends, batches, layers and   *)
(* names in a telegram.                                                    *)
(*                                                                         *)
(* JudgementHolds is not inductive: an upload that ends could bring in an  *)
(* image under an old judgement, and a renaming could leave another file   *)
(* of the same image behind.  Neither happens if every image comes from a  *)
(* send of its batch (Provenance) and has one name (OneName).              *)
(***************************************************************************)
EXTENDS ImageFiles, TLAPS

-----------------------------------------------------------------------------
(* The name a file gets is a name, of the same image. *)
LEMMA FinalNameLemma ==
  ASSUME new \in Names, NEW old \in Names
  PROVE  /\ FinalName(old) \in Names
         /\ FinalName(old).prefix = new.prefix
         /\ FinalName(old).status = new.status
  BY DEF FinalName, Names

(* The head of what is left to do is a field of a telegram. *)
LEMMA TodoLemma ==
  ASSUME TypeOK, todo # <<>>
  PROVE  new \in Fields /\ Tail(todo) \in Seq(Fields)
  BY DEF TypeOK, new

LEMMA AnsweredLemma ==
  ASSUME TypeOK, todo # <<>>, new \in Names,
         NEW answer \in {"ok", "not_found", "error"}, Answered(answer)
  PROVE  /\ judged' \in [Prefixes -> {Unjudged} \cup
                           [status : Statuses, answer : {"ok", "not_found", "error"}]]
         /\ todo' \in Seq(Fields)
         /\ UNCHANGED <<tmp_dir, upload, batch>>
         /\ new.prefix \in Prefixes
         /\ \A p \in Prefixes :
              \/ judged'[p] = judged[p] /\ (p = new.prefix => answer = "not_found")
              \/ p = new.prefix /\ judged'[p] = [status |-> new.status, answer |-> answer]
<1>1. new.prefix \in Prefixes /\ new.status \in Statuses
  BY DEF Names
<1>2. judged' = judged \/ judged' = [judged EXCEPT ![new.prefix] =
                                       [status |-> new.status, answer |-> answer]]
  BY DEF Answered
<1> QED
  BY <1>1, <1>2, TodoLemma DEF Answered, TypeOK

(* Every name in a directory is a name the program gives, and the history  *)
(* of judgements is one.                                                   *)
THEOREM TypeCorrect == Spec => []TypeOK
<1>1. Init => TypeOK
  BY NoBatchAssumption DEF Init, TypeOK
<1>2. TypeOK /\ [Next]_vars => TypeOK'
  <2> SUFFICES ASSUME TypeOK, [Next]_vars PROVE TypeOK'
    OBVIOUS
  <2>1. ASSUME NEW s \in Sends, NEW b \in Batches, NEW layers \in [Layers -> Statuses],
               Generate(s, b, layers)
        PROVE  TypeOK'
    <3>1. {[prefix |-> <<b, l>>, status |-> layers[l], ext |-> "jpg"] : l \in Layers}
             \in SUBSET Names
      <4> SUFFICES ASSUME NEW l \in Layers
                   PROVE  [prefix |-> <<b, l>>, status |-> layers[l], ext |-> "jpg"] \in Names
        OBVIOUS
      <4> QED BY DEF Names, Prefixes
    <3> QED BY <2>1, <3>1 DEF Generate, TypeOK
  <2>2. ASSUME NEW s \in Sends, MoveImages(s) PROVE TypeOK'
    BY <2>2 DEF MoveImages, TypeOK
  <2>3. ASSUME NEW n \in 1 .. MaxNames, NEW fields \in [1 .. n -> Fields],
               ResultChange(fields)
        PROVE  TypeOK'
    <3>1. fields \in Seq(Fields)
      BY MaxNamesAssumption
    <3> QED BY <2>3, <3>1 DEF ResultChange, TypeOK
  <2>4. CASE SkipField
    BY <2>4, TodoLemma DEF SkipField, TypeOK
  <2>5. CASE NotFound \/ AlreadyExists \/ RenameFails
    BY <2>5, AnsweredLemma DEF NotFound, AlreadyExists, RenameFails, TypeOK
  <2>6. CASE Renamed
    <3>1. PICK old \in DifferentMatches : image_dir' = (image_dir \ {old}) \cup {FinalName(old)}
      BY <2>6 DEF Renamed
    <3>2. old \in Names
      BY DEF DifferentMatches, Matches, TypeOK
    <3>3. image_dir' \subseteq Names
      BY <2>6, <3>1, <3>2, FinalNameLemma DEF Renamed, TypeOK
    <3> QED BY <2>6, <3>3, AnsweredLemma DEF Renamed, TypeOK
  <2>7. CASE UNCHANGED vars
    BY <2>7 DEF vars, TypeOK
  <2> QED
    BY <2>1, <2>2, <2>3, <2>4, <2>5, <2>6, <2>7 DEF Next, Rename
<1> QED
  BY <1>1, <1>2, PTL DEF Spec

-----------------------------------------------------------------------------
(* Where an image comes from: those of a running upload are of its batch,  *)
(* those in the image directory of a batch whose upload is over.           *)
Provenance ==
  /\ \A s \in Sends : upload[s] = "idle" <=> batch[s] = NoBatch
  /\ \A s \in Sends : \A f \in tmp_dir[s] :
       upload[s] = "running" /\ f.prefix[1] = batch[s]
  /\ \A f \in image_dir : \E s \in Sends : upload[s] = "over" /\ f.prefix[1] = batch[s]

(* An image of a batch sent once is there under one name. *)
OneName ==
  /\ \A s \in Sends : \A f, g \in tmp_dir[s] : f.prefix = g.prefix => f = g
  /\ \A f, g \in image_dir : SentOnce(f.prefix[1]) /\ f.prefix = g.prefix => f = g

IInv == Provenance /\ OneName /\ JudgementHolds

(* As JudgementHolds, about one prefix. *)
Holds(p) ==
  judged[p].answer = "ok" =>
    /\ \E f \in image_dir : f.prefix = p /\ f.status = judged[p].status
    /\ SentOnce(p[1]) => \A f \in image_dir : f.prefix = p => f.status = judged[p].status

LEMMA HoldsLemma == JudgementHolds <=> \A p \in Prefixes : Holds(p)
  BY DEF JudgementHolds, Holds

LEMMA InitIInv == Init => IInv
<1> SUFFICES ASSUME Init PROVE IInv
  OBVIOUS
<1>1. \A p \in Prefixes : judged[p].answer = "none"
  BY DEF Init, Unjudged
<1>2. JudgementHolds
  BY <1>1 DEF JudgementHolds
<1>3. Provenance /\ OneName
  BY DEF Init, Provenance, OneName
<1> QED
  BY <1>2, <1>3 DEF IInv

LEMMA NextProvenance ==
  ASSUME TypeOK, Provenance, [Next]_vars PROVE Provenance'
<1>1. ASSUME NEW s \in Sends, NEW b \in Batches, NEW layers \in [Layers -> Statuses],
             Generate(s, b, layers)
      PROVE  Provenance'
  <2>1. \A f \in tmp_dir'[s] : f.prefix[1] = b
    BY <1>1 DEF Generate, TypeOK
  <2>2. batch'[s] = b /\ b # NoBatch /\ upload'[s] = "running"
    BY <1>1, NoBatchAssumption DEF Generate, TypeOK
  <2>3. \A t \in Sends \ {s} : /\ tmp_dir'[t] = tmp_dir[t] /\ upload'[t] = upload[t]
                               /\ batch'[t] = batch[t]
    BY <1>1 DEF Generate, TypeOK
  <2>4. upload[s] = "idle" /\ image_dir' = image_dir
    BY <1>1 DEF Generate
  <2> QED BY <2>1, <2>2, <2>3, <2>4 DEF Provenance
<1>2. ASSUME NEW s \in Sends, MoveImages(s) PROVE Provenance'
  <2>1. /\ upload[s] = "running" /\ upload'[s] = "over" /\ tmp_dir'[s] = {}
        /\ batch' = batch
        /\ \A t \in Sends \ {s} : tmp_dir'[t] = tmp_dir[t] /\ upload'[t] = upload[t]
    BY <1>2 DEF MoveImages, TypeOK
  <2>2. \A f \in image_dir' : f \in image_dir \/ f \in tmp_dir[s]
    BY <1>2 DEF MoveImages
  <2> QED BY <2>1, <2>2 DEF Provenance
<1>3. CASE SkipField \/ NotFound \/ AlreadyExists \/ RenameFails \/ UNCHANGED vars
  BY <1>3 DEF SkipField, NotFound, AlreadyExists, RenameFails, Answered, vars, Provenance
<1>4. CASE Renamed
  <2>1. PICK old \in DifferentMatches : image_dir' = (image_dir \ {old}) \cup {FinalName(old)}
    BY <1>4 DEF Renamed
  <2>2. old \in image_dir /\ old.prefix = new.prefix /\ old \in Names
    BY DEF DifferentMatches, Matches, TypeOK
  <2>3. FinalName(old).prefix = old.prefix
    BY <1>4, <2>2, FinalNameLemma DEF Renamed
  <2> QED BY <1>4, <2>1, <2>2, <2>3 DEF Renamed, Answered, Provenance
<1>5. ASSUME NEW fields, ResultChange(fields) PROVE Provenance'
  BY <1>5 DEF ResultChange, Provenance
<1> QED
  BY <1>1, <1>2, <1>3, <1>4, <1>5 DEF Next, Rename

(* A step never turns a batch into one that was sent once. *)
LEMMA SentOnceLemma ==
  ASSUME TypeOK, Provenance, [Next]_vars, NEW b \in Batches, SentOnce(b)'
  PROVE  SentOnce(b)
<1>1. ASSUME NEW s \in Sends, NEW c \in Batches, NEW layers \in [Layers -> Statuses],
             Generate(s, c, layers)
      PROVE  SentOnce(b)
  <2> SUFFICES ASSUME NEW t \in Sends, NEW u \in Sends, batch[t] = b, batch[u] = b
               PROVE  t = u
    BY DEF SentOnce
  <2>1. batch[s] = NoBatch
    BY <1>1 DEF Generate, Provenance
  <2>2. t # s /\ u # s
    BY <2>1, NoBatchAssumption
  <2>3. batch'[t] = b /\ batch'[u] = b
    BY <1>1, <2>2 DEF Generate, TypeOK
  <2> QED BY <2>3 DEF SentOnce
<1>2. CASE UNCHANGED batch
  BY <1>2 DEF SentOnce
<1>3. CASE Rename
  BY <1>2, <1>3 DEF Rename, SkipField, NotFound, AlreadyExists, Renamed, RenameFails,
                    Answered
<1> QED
  BY <1>1, <1>2, <1>3 DEF Next, MoveImages, ResultChange, vars

LEMMA NextOneName ==
  ASSUME TypeOK, Provenance, OneName, [Next]_vars PROVE OneName'
<1>0. \A f \in image_dir : f.prefix[1] \in Batches
  BY DEF TypeOK, Names, Prefixes
<1>1. ASSUME NEW s \in Sends, NEW b \in Batches, NEW layers \in [Layers -> Statuses],
             Generate(s, b, layers)
      PROVE  OneName'
  <2>1. \A f, g \in tmp_dir'[s] : f.prefix = g.prefix => f = g
    BY <1>1 DEF Generate, TypeOK
  <2>2. \A t \in Sends \ {s} : tmp_dir'[t] = tmp_dir[t]
    BY <1>1 DEF Generate, TypeOK
  <2>3. image_dir' = image_dir
    BY <1>1 DEF Generate
  <2>4. \A f \in image_dir : SentOnce(f.prefix[1])' => SentOnce(f.prefix[1])
    BY <1>0, SentOnceLemma
  <2> QED BY <2>1, <2>2, <2>3, <2>4 DEF OneName
<1>2. ASSUME NEW s \in Sends, MoveImages(s) PROVE OneName'
  <2>1. /\ upload[s] = "running" /\ tmp_dir'[s] = {} /\ batch' = batch
        /\ \A t \in Sends \ {s} : tmp_dir'[t] = tmp_dir[t]
    BY <1>2 DEF MoveImages, TypeOK
  <2>2. \A f \in image_dir' : f \in image_dir \/ f \in tmp_dir[s]
    BY <1>2 DEF MoveImages
  <2>3. \A f \in image_dir, g \in tmp_dir[s] :
           SentOnce(f.prefix[1]) => f.prefix # g.prefix
    BY <2>1 DEF Provenance, SentOnce
  <2>4. \A f \in image_dir' : SentOnce(f.prefix[1])' = SentOnce(f.prefix[1])
    BY <2>1 DEF SentOnce
  <2>5. \A f, g \in image_dir' : SentOnce(f.prefix[1]) /\ f.prefix = g.prefix => f = g
    BY <2>2, <2>3 DEF OneName
  <2> QED BY <2>1, <2>4, <2>5 DEF OneName
<1>3. CASE SkipField \/ NotFound \/ AlreadyExists \/ RenameFails \/ UNCHANGED vars
  BY <1>3 DEF SkipField, NotFound, AlreadyExists, RenameFails, Answered, vars, OneName,
     SentOnce
<1>4. CASE Renamed
  <2>1. PICK old \in DifferentMatches : image_dir' = (image_dir \ {old}) \cup {FinalName(old)}
    BY <1>4 DEF Renamed
  <2>2. old \in image_dir /\ old.prefix = new.prefix /\ old \in Names
    BY DEF DifferentMatches, Matches, TypeOK
  <2>3. FinalName(old).prefix = old.prefix
    BY <1>4, <2>2, FinalNameLemma DEF Renamed
  <2>4. tmp_dir' = tmp_dir /\ batch' = batch
    BY <1>4 DEF Renamed, Answered
  <2>5. \A b : SentOnce(b)' = SentOnce(b)
    BY <2>4 DEF SentOnce
  <2> QED BY <2>1, <2>2, <2>3, <2>4, <2>5 DEF OneName
<1>5. ASSUME NEW fields, ResultChange(fields) PROVE OneName'
  BY <1>5 DEF ResultChange, OneName, SentOnce
<1> QED
  BY <1>1, <1>2, <1>3, <1>4, <1>5 DEF Next, Rename

LEMMA NextHolds ==
  ASSUME TypeOK, Provenance, OneName, [Next]_vars, NEW p \in Prefixes, Holds(p)
  PROVE  Holds(p)'
<1>1. ASSUME NEW s \in Sends, NEW b \in Batches, NEW layers \in [Layers -> Statuses],
             Generate(s, b, layers)
      PROVE  Holds(p)'
  <2>1. p[1] \in Batches
    BY DEF Prefixes
  <2>2. SentOnce(p[1])' => SentOnce(p[1])
    BY <2>1, SentOnceLemma
  <2> QED BY <1>1, <2>2 DEF Generate, Holds
<1>2. ASSUME NEW s \in Sends, MoveImages(s) PROVE Holds(p)'
  <2> SUFFICES ASSUME judged[p].answer = "ok" PROVE Holds(p)'
    BY <1>2 DEF MoveImages, Holds
  <2>1. PICK f \in image_dir : f.prefix = p /\ f.status = judged[p].status
    BY DEF Holds
  <2>2. PICK t \in Sends : upload[t] = "over" /\ batch[t] = p[1]
    BY <2>1 DEF Provenance
  <2>3. SentOnce(p[1]) => \A g \in tmp_dir[s] : g.prefix # p
    BY <1>2, <2>2 DEF SentOnce, MoveImages, Provenance
  <2>4. \A g \in image_dir' : g \in image_dir \/ g \in tmp_dir[s]
    BY <1>2 DEF MoveImages
  <2>5. image_dir \subseteq image_dir' /\ judged' = judged /\ SentOnce(p[1])' = SentOnce(p[1])
    BY <1>2 DEF MoveImages, SentOnce
  <2> QED BY <2>1, <2>3, <2>4, <2>5 DEF Holds
<1>3. CASE SkipField \/ UNCHANGED vars
  BY <1>3 DEF SkipField, vars, Holds, SentOnce
<1>4. ASSUME NEW fields, ResultChange(fields) PROVE Holds(p)'
  BY <1>4 DEF ResultChange, Holds, SentOnce
<1>5. CASE NotFound \/ RenameFails
  <2>1. PICK answer \in {"not_found", "error"} : Answered(answer)
    BY <1>5 DEF NotFound, RenameFails
  <2>2. /\ todo # <<>> /\ new \in Names /\ image_dir' = image_dir
    BY <1>5 DEF NotFound, RenameFails
  <2>3. judged'[p] = judged[p] \/ judged'[p].answer # "ok"
    BY <2>1, <2>2, AnsweredLemma
  <2>4. SentOnce(p[1])' = SentOnce(p[1])
    BY <2>1 DEF Answered, SentOnce
  <2> QED BY <2>2, <2>3, <2>4 DEF Holds
<1>6. CASE AlreadyExists
  <2>1. /\ todo # <<>> /\ new \in Names /\ image_dir' = image_dir /\ Answered("ok")
        /\ Matches # {} /\ DifferentMatches = {}
    BY <1>6 DEF AlreadyExists
  <2>2. \/ p # new.prefix /\ judged'[p] = judged[p]
        \/ p = new.prefix /\ judged'[p] = [status |-> new.status, answer |-> "ok"]
    BY <2>1, AnsweredLemma
  <2>3. SentOnce(p[1])' = SentOnce(p[1])
    BY <2>1 DEF Answered, SentOnce
  <2>4. CASE p # new.prefix
    BY <2>1, <2>2, <2>3, <2>4 DEF Holds
  <2>5. CASE p = new.prefix
    BY <2>1, <2>2, <2>5 DEF Holds, Matches, DifferentMatches
  <2> QED BY <2>4, <2>5
<1>7. CASE Renamed
  <2>1. /\ todo # <<>> /\ new \in Names /\ Answered("ok")
    BY <1>7 DEF Renamed
  <2>2. PICK old \in DifferentMatches : image_dir' = (image_dir \ {old}) \cup {FinalName(old)}
    BY <1>7 DEF Renamed
  <2>3. old \in image_dir /\ old.prefix = new.prefix /\ old \in Names
    BY DEF DifferentMatches, Matches, TypeOK
  <2>4. FinalName(old).prefix = new.prefix /\ FinalName(old).status = new.status
    BY <2>1, <2>3, FinalNameLemma
  <2>5. \/ p # new.prefix /\ judged'[p] = judged[p]
        \/ p = new.prefix /\ judged'[p] = [status |-> new.status, answer |-> "ok"]
    BY <2>1, AnsweredLemma
  <2>6. SentOnce(p[1])' = SentOnce(p[1])
    BY <2>1 DEF Answered, SentOnce
  <2>7. CASE p # new.prefix
    BY <2>2, <2>3, <2>4, <2>5, <2>6, <2>7 DEF Holds
  <2>8. CASE p = new.prefix
    <3>1. FinalName(old) \in image_dir'
      BY <2>2
    <3>2. SentOnce(p[1]) => \A f \in image_dir : f.prefix = p => f = old
      BY <2>3, <2>8 DEF OneName
    <3> QED BY <2>2, <2>4, <2>5, <2>6, <2>8, <3>1, <3>2 DEF Holds
  <2> QED BY <2>7, <2>8
<1> QED
  BY <1>1, <1>2, <1>3, <1>4, <1>5, <1>6, <1>7 DEF Next, Rename

LEMMA Invariance == Spec => []IInv
<1>1. TypeOK /\ IInv /\ [Next]_vars => IInv'
  <2> SUFFICES ASSUME TypeOK, IInv, [Next]_vars PROVE IInv'
    OBVIOUS
  <2>1. Provenance' /\ OneName'
    BY NextProvenance, NextOneName DEF IInv
  <2>2. \A p \in Prefixes : Holds(p)'
    BY NextHolds, HoldsLemma DEF IInv
  <2>3. JudgementHolds'
    BY <2>2 DEF JudgementHolds, Holds
  <2> QED BY <2>1, <2>3 DEF IInv
<1> QED
  BY <1>1, InitIInv, TypeCorrect, PTL DEF Spec

(* An image reported as renamed stays under its judgement, and under no    *)
(* other if its batch was sent once, whatever comes in between.            *)
THEOREM JudgementsLast == Spec => []JudgementHolds
  BY Invariance, PTL DEF IInv
=============================================================================
