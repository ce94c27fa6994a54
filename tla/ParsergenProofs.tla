-------------------------- MODULE ParsergenProofs --------------------------
(***************************************************************************)
(* Whatever grammars, names and failures of fopen there are, main releases *)
(* what it acquires once, and its exit code tells what it has written.     *)
(***************************************************************************)
EXTENDS Parsergen, TLAPS

(* What is held when exactly the resources of H are. *)
Holding(H) == held = [r \in Resource |-> IF r \in H THEN 1 ELSE 0]

Opened == {"options", "input"}
Spoken == Opened \cup {"ib", "line_endings", "errors"}
Parsed == Spoken \cup {"parsed_spec"}
Ruled  == Parsed \cup {"rule_records"}
Headed == Ruled \cup {"header_fname", "header_file"}

(* What each statement of main finds acquired. *)
Acquired(l, H) ==
  /\ l = "get_options" => H = {}
  /\ l = "open_input" => H = {"options"}
  /\ l = "parse" => H = Opened
  /\ l = "rules" => H = Parsed
  /\ l = "open_header" => H = Ruled
  /\ l = "open_source" => H = Headed
  /\ l \in {"generate", "crashed"} => H = Ruled \cup Outputs
  /\ l = "cleanup_outputs" => Ruled \subseteq H /\ H \subseteq Ruled \cup Outputs
  /\ l = "cleanup_rules" => H = Ruled
  /\ l = "cleanup_parse" => H = IF parsed = NoSpec THEN Spoken ELSE Parsed
  /\ l = "cleanup_files" => {"options"} \subseteq H /\ H \subseteq Opened
  /\ l = "exit" => H = {}

HeldInv ==
  /\ \E H \in SUBSET Resource : Holding(H) /\ Acquired(pc, H)
  /\ pc \in {"rules", "open_header", "open_source", "generate", "crashed",
             "cleanup_outputs", "cleanup_rules"} => parsed # NoSpec

LEMMA GetHolds ==
  ASSUME NEW H \in SUBSET Resource, NEW rs \in SUBSET Resource,
         Holding(H), Get(rs), H \cap rs = {}
  PROVE  Holding(H \cup rs)'
BY DEF Holding, Get

LEMMA FreeHolds ==
  ASSUME NEW H \in SUBSET Resource, NEW rs \in SUBSET Resource,
         Holding(H), Free(rs), rs \subseteq H
  PROVE  Holding(H \ rs)'
BY DEF Holding, Free

LEMMA HoldingSame ==
  ASSUME NEW H \in SUBSET Resource, Holding(H), UNCHANGED held
  PROVE  Holding(H)'
BY DEF Holding

LEMMA Positive ==
  ASSUME NEW H \in SUBSET Resource, Holding(H), NEW A \in SUBSET Resource
  PROVE  {r \in A : held[r] > 0} = A \cap H
BY DEF Holding

(* Init and every step keep it. *)
LEMMA HeldInit == Init => HeldInv
<1> SUFFICES ASSUME Init PROVE HeldInv
  OBVIOUS
<1>1. Holding({}) /\ Acquired(pc, {})
  BY DEF Init, Holding, Acquired
<1> QED
  BY <1>1 DEF Init, HeldInv

LEMMA HeldNext == HeldInv /\ [Next]_vars => HeldInv'
<1> SUFFICES ASSUME HeldInv, [Next]_vars PROVE HeldInv'
  OBVIOUS
<1> PICK H \in SUBSET Resource : Holding(H) /\ Acquired(pc, H)
  BY DEF HeldInv
<1> DEFINE names == Opened \cup Spoken \cup Parsed \cup Ruled \cup Headed \cup Outputs
<1>0. names \subseteq Resource
  BY DEF Opened, Spoken, Parsed, Ruled, Headed, Outputs, Resource
<1>1. CASE get_options
  <2>1. H = {}
    BY <1>1 DEF get_options, Acquired
  <2>2. CASE Get({"options"}) /\ pc' = "open_input"
    <3>1. Holding({"options"})'
      BY <2>1, <2>2, GetHolds DEF Resource
    <3> QED
      BY <3>1, <2>2 DEF HeldInv, Acquired, Resource
  <2>3. CASE pc' = "exit" /\ UNCHANGED held
    <3>1. Holding({})'
      BY <2>1, <2>3, HoldingSame
    <3> QED
      BY <3>1, <2>3 DEF HeldInv, Acquired
  <2> QED
    BY <1>1, <2>2, <2>3 DEF get_options, Goto
<1>2. CASE OpenInput
  <2>1. H = {"options"}
    BY <1>2 DEF OpenInput, Acquired
  <2>2. CASE Get({"input"}) /\ pc' = "parse"
    <3>1. Holding({"options"} \cup {"input"})'
      BY <2>1, <2>2, GetHolds DEF Resource
    <3>2. {"options"} \cup {"input"} = Opened
      BY DEF Opened
    <3> QED
      BY <1>0, <3>1, <3>2, <2>2 DEF HeldInv, Acquired
  <2>3. CASE pc' = "cleanup_files" /\ UNCHANGED held
    <3>1. Holding({"options"})'
      BY <2>1, <2>3, HoldingSame
    <3> QED
      BY <3>1, <2>3 DEF HeldInv, Acquired, Opened, Resource
  <2> QED
    BY <1>2, <2>2, <2>3 DEF OpenInput, Goto
<1>3. CASE ParseSpec
  <2>1. H = Opened /\ parsed' = spec
    BY <1>3 DEF ParseSpec, Acquired
  <2>2. CASE spec = NoSpec
    <3>1. Holding(Opened \cup {"ib", "errors", "line_endings"})'
      BY <2>1, <2>2, <1>3, GetHolds DEF ParseSpec, Resource, Opened
    <3>2. Opened \cup {"ib", "errors", "line_endings"} = Spoken
      BY DEF Spoken
    <3> QED
      BY <1>0, <3>1, <3>2, <2>1, <2>2, <1>3 DEF HeldInv, Acquired, ParseSpec, Goto
  <2>3. CASE spec # NoSpec
    <3>1. Holding(Opened \cup {"ib", "errors", "line_endings", "parsed_spec"})'
      BY <2>1, <2>3, <1>3, GetHolds DEF ParseSpec, Resource, Opened
    <3>2. Opened \cup {"ib", "errors", "line_endings", "parsed_spec"} = Parsed
      BY DEF Spoken, Parsed
    <3> QED
      BY <1>0, <3>1, <3>2, <2>1, <2>3, <1>3 DEF HeldInv, Acquired, ParseSpec, Goto
  <2> QED
    BY <2>2, <2>3
<1>4. CASE BuildRules
  <2>1. H = Parsed /\ parsed # NoSpec /\ parsed' = parsed
    BY <1>4 DEF BuildRules, Acquired, HeldInv
  <2>2. Holding(Parsed \cup {"rule_records"})'
    BY <2>1, <1>4, GetHolds DEF BuildRules, Resource, Parsed, Spoken, Opened
  <2>3. Parsed \cup {"rule_records"} = Ruled
    BY DEF Ruled
  <2>4. pc' \in {"open_header", "cleanup_rules"}
    BY <1>4 DEF BuildRules, Goto
  <2> QED
    BY <1>0, <2>1, <2>2, <2>3, <2>4 DEF HeldInv, Acquired
<1>5. CASE OpenHeader
  <2>1. H = Ruled /\ parsed # NoSpec /\ parsed' = parsed
    BY <1>5 DEF OpenHeader, Acquired, HeldInv
  <2>2. CASE Get({"header_fname", "header_file"}) /\ pc' = "open_source"
    <3>1. Holding(Ruled \cup {"header_fname", "header_file"})'
      BY <2>1, <2>2, GetHolds DEF Resource, Ruled, Parsed, Spoken, Opened
    <3>2. Ruled \cup {"header_fname", "header_file"} = Headed
      BY DEF Headed
    <3> QED
      BY <1>0, <2>1, <2>2, <3>1, <3>2 DEF HeldInv, Acquired
  <2>3. CASE Get({"header_fname"}) /\ pc' = "cleanup_outputs"
    <3>1. Holding(Ruled \cup {"header_fname"})'
      BY <2>1, <2>3, GetHolds DEF Resource, Ruled, Parsed, Spoken, Opened
    <3>2. Ruled \cup {"header_fname"} \subseteq Ruled \cup Outputs
      BY DEF Outputs
    <3> QED
      BY <1>0, <2>1, <2>3, <3>1, <3>2 DEF HeldInv, Acquired
  <2> QED
    BY <1>5, <2>2, <2>3 DEF OpenHeader, Goto
<1>6. CASE OpenSource
  <2>1. H = Headed /\ parsed # NoSpec /\ parsed' = parsed
    BY <1>6 DEF OpenSource, Acquired, HeldInv
  <2>2. CASE Get({"src_fname", "src_file"}) /\ pc' = "generate"
    <3>1. Holding(Headed \cup {"src_fname", "src_file"})'
      BY <2>1, <2>2, GetHolds DEF Resource, Headed, Ruled, Parsed, Spoken, Opened
    <3>2. Headed \cup {"src_fname", "src_file"} = Ruled \cup Outputs
      BY DEF Headed, Outputs
    <3> QED
      BY <1>0, <2>1, <2>2, <3>1, <3>2 DEF HeldInv, Acquired
  <2>3. CASE Get({"src_fname"}) /\ pc' = "cleanup_outputs"
    <3>1. Holding(Headed \cup {"src_fname"})'
      BY <2>1, <2>3, GetHolds DEF Resource, Headed, Ruled, Parsed, Spoken, Opened
    <3>2. /\ Ruled \subseteq Headed \cup {"src_fname"}
          /\ Headed \cup {"src_fname"} \subseteq Ruled \cup Outputs
      BY DEF Headed, Outputs
    <3> QED
      BY <1>0, <2>1, <2>3, <3>1, <3>2 DEF HeldInv, Acquired
  <2> QED
    BY <1>6, <2>2, <2>3 DEF OpenSource, Goto
<1>7. CASE Generate \/ Overrun
  <2>1. H = Ruled \cup Outputs /\ parsed # NoSpec /\ parsed' = parsed
    BY <1>7 DEF Generate, Overrun, Acquired, HeldInv
  <2>2. Holding(H)' /\ pc' \in {"crashed", "cleanup_outputs"}
    BY <1>7, HoldingSame DEF Generate, Overrun, Goto
  <2> QED
    BY <2>1, <2>2 DEF HeldInv, Acquired
<1>8. CASE CleanupOutputs
  <2>1. /\ Ruled \subseteq H /\ H \subseteq Ruled \cup Outputs
        /\ parsed # NoSpec /\ parsed' = parsed
    BY <1>8 DEF CleanupOutputs, Acquired, HeldInv
  <2>2. Free(Outputs \cap H)
    BY <1>8, <1>0, Positive DEF CleanupOutputs
  <2>3. Holding(H \ (Outputs \cap H))'
    BY <2>2, FreeHolds
  <2>4. H \ (Outputs \cap H) = Ruled
    BY <2>1 DEF Outputs, Ruled, Parsed, Spoken, Opened
  <2> QED
    BY <1>0, <1>8, <2>1, <2>3, <2>4 DEF HeldInv, Acquired, CleanupOutputs, Goto
<1>9. CASE CleanupRules
  <2>1. H = Ruled /\ parsed # NoSpec /\ parsed' = parsed
    BY <1>9 DEF CleanupRules, Acquired, HeldInv
  <2>2. Holding(Ruled \ {"rule_records"})'
    BY <2>1, <1>9, FreeHolds DEF CleanupRules, Ruled
  <2>3. Ruled \ {"rule_records"} = Parsed
    BY DEF Ruled, Parsed, Spoken, Opened
  <2> QED
    BY <1>0, <1>9, <2>1, <2>2, <2>3 DEF HeldInv, Acquired, CleanupRules, Goto
<1>10. CASE CleanupParse
  <2>1. H = (IF parsed = NoSpec THEN Spoken ELSE Parsed)
    BY <1>10 DEF CleanupParse, Acquired
  <2>2. \E R \in SUBSET Resource : Free(R) /\ R \subseteq H /\ H \ R = Opened
    <3>1. CASE parsed = NoSpec
      <4>1. Free(Spoken \ Opened)
        <5>1. {"line_endings", "errors", "ib"} \cup {} = Spoken \ Opened
          BY DEF Spoken, Opened
        <5> QED
          BY <5>1, <3>1, <1>10 DEF CleanupParse
      <4>2. H \ (Spoken \ Opened) = Opened
        BY <2>1, <3>1 DEF Spoken, Opened
      <4> QED
        BY <4>1, <4>2, <2>1, <3>1
    <3>2. CASE parsed # NoSpec
      <4>1. Free(Parsed \ Opened)
        <5>1. {"line_endings", "errors", "ib"} \cup {"parsed_spec"} = Parsed \ Opened
          BY DEF Parsed, Spoken, Opened
        <5> QED
          BY <5>1, <3>2, <1>10 DEF CleanupParse
      <4>2. H \ (Parsed \ Opened) = Opened
        BY <2>1, <3>2 DEF Parsed, Spoken, Opened
      <4> QED
        BY <4>1, <4>2, <2>1, <3>2
    <3> QED
      BY <3>1, <3>2
  <2>3. Holding(Opened)'
    <3>1. PICK R \in SUBSET Resource : Free(R) /\ R \subseteq H /\ H \ R = Opened
      BY <2>2
    <3> QED
      BY <3>1, FreeHolds
  <2>4. pc' = "cleanup_files"
    BY <1>10 DEF CleanupParse, Goto
  <2>5. Opened \in SUBSET Resource /\ {"options"} \subseteq Opened
    BY DEF Opened, Resource
  <2> QED
    BY <2>3, <2>4, <2>5 DEF HeldInv, Acquired
<1>11. CASE CleanupFiles
  <2>1. {"options"} \subseteq H /\ H \subseteq Opened
    BY <1>11 DEF CleanupFiles, Acquired
  <2>2. Free({"options"} \cup ({"input"} \cap H))
    BY <1>11, Positive DEF CleanupFiles, Resource
  <2>3. {"options"} \cup ({"input"} \cap H) = H
    BY <2>1 DEF Opened
  <2>4. Holding(H \ H)'
    BY <2>2, <2>3, FreeHolds
  <2>5. pc' = "exit" /\ H \ H = {}
    BY <1>11 DEF CleanupFiles, Goto
  <2> QED
    BY <2>4, <2>5 DEF HeldInv, Acquired
<1>12. CASE UNCHANGED vars
  <2>1. Holding(H)'
    BY <1>12, HoldingSame DEF vars
  <2> QED
    BY <2>1, <1>12 DEF HeldInv, Acquired, vars
<1> QED
  BY <1>1, <1>2, <1>3, <1>4, <1>5, <1>6, <1>7, <1>8, <1>9, <1>10, <1>11, <1>12 DEF Next

(* Every run of main, whichever gotos it takes, releases each file, buffer *)
(* and array that it acquired once and nothing else.                       *)
THEOREM ReleasedOnceCorrect == Spec => []ReleasedOnce
<1>1. HeldInv => ReleasedOnce
  BY DEF HeldInv, ReleasedOnce, Holding, Acquired
<1> QED
  BY <1>1, HeldInit, HeldNext, PTL DEF Spec

-----------------------------------------------------------------------------
(* What the exit code will tell is settled before the cleanup. *)
Told ==
  IF res = 1 THEN /\ \A f \in DOMAIN disk : disk[f] = Empty
                  /\ DOMAIN disk \subseteq {HeaderName}
  ELSE IF base + 2 < OBUF_SIZE
       THEN /\ disk[HeaderName] = Printed("header", spec)
            /\ disk[SourceName] = Printed("source", spec)
            /\ resolve_rule_calls(spec) = <<>>
       ELSE disk[HeaderName] = Mixed

Early  == {"get_options", "open_input", "parse", "rules", "open_header"}
Output == {"open_header", "open_source", "generate", "crashed"}
Late   == {"cleanup_outputs", "cleanup_rules", "cleanup_parse", "cleanup_files", "exit"}

DiskInv ==
  /\ base \in Lengths
  /\ pc \in Early => res = 0 /\ DOMAIN disk = {}
  /\ pc = "rules" => parsed = spec
  /\ pc \in Output => rules = spec /\ resolve_rule_calls(spec) = <<>>
  /\ pc = "open_source" => /\ res = 0 /\ DOMAIN disk = {HeaderName}
                           /\ disk[HeaderName] = Empty
  /\ pc \in {"generate", "crashed"} => res = 0 /\ DOMAIN disk = {HeaderName, SourceName}
  /\ pc \in Late => Told

LEMMA StoreContent ==
  ASSUME NEW name, NEW content, Store(name, content)
  PROVE  /\ DOMAIN disk' = DOMAIN disk \cup {name}
         /\ disk'[name] = content
         /\ \A f \in DOMAIN disk : f # name => disk'[f] = disk[f]
BY DEF Store

LEMMA SameNames ==
  ASSUME UNCHANGED base
  PROVE  HeaderName' = HeaderName /\ SourceName' = SourceName
BY DEF HeaderName, SourceName

LEMMA NamesDiffer ==
  ASSUME base \in Lengths
  PROVE  HeaderName = SourceName <=> ~(base + 2 < OBUF_SIZE)
<1>1. base \in Nat
  BY LengthAssumption
<1>2. ".h" # ".c"
  OBVIOUS
<1> QED
  BY <1>1, <1>2 DEF HeaderName, SourceName, OutputName, OBUF_SIZE

LEMMA ToldSame ==
  ASSUME Told, UNCHANGED <<base, spec, disk, res>>
  PROVE  Told'
BY SameNames DEF Told

LEMMA DiskInit == Init => DiskInv
BY DEF Init, DiskInv, Early, Output, Late

LEMMA DiskNext == DiskInv /\ [Next]_vars => DiskInv'
<1> SUFFICES ASSUME DiskInv, [Next]_vars PROVE DiskInv'
  OBVIOUS
<1> USE DEF Goto
<1>1. CASE get_options
  <2>1. /\ res = 0 /\ DOMAIN disk = {}
        /\ base' = base /\ spec' = spec /\ disk' = disk
    BY <1>1 DEF get_options, DiskInv, Early
  <2>2. CASE pc' = "open_input" /\ res' = res
    BY <2>1, <2>2 DEF DiskInv, Early, Output, Late
  <2>3. CASE pc' = "exit" /\ res' = 1
    <3>1. Told'
      BY <2>1, <2>3 DEF Told
    <3> QED
      BY <2>1, <2>3, <3>1 DEF DiskInv, Early, Output
  <2> QED
    BY <1>1, <2>2, <2>3 DEF get_options
<1>2. CASE OpenInput
  <2>1. /\ res = 0 /\ DOMAIN disk = {}
        /\ base' = base /\ spec' = spec /\ disk' = disk
    BY <1>2 DEF OpenInput, DiskInv, Early
  <2>2. CASE pc' = "parse" /\ res' = res
    BY <2>1, <2>2 DEF DiskInv, Early, Output, Late
  <2>3. CASE pc' = "cleanup_files" /\ res' = 1
    <3>1. Told'
      BY <2>1, <2>3 DEF Told
    <3> QED
      BY <2>1, <2>3, <3>1 DEF DiskInv, Early, Output
  <2> QED
    BY <1>2, <2>2, <2>3 DEF OpenInput
<1>3. CASE ParseSpec
  <2>1. /\ res = 0 /\ DOMAIN disk = {} /\ parsed' = spec
        /\ base' = base /\ spec' = spec /\ disk' = disk
    BY <1>3 DEF ParseSpec, DiskInv, Early
  <2>2. CASE pc' = "rules" /\ res' = res
    BY <2>1, <2>2 DEF DiskInv, Early, Output, Late
  <2>3. CASE pc' = "cleanup_parse" /\ res' = 1
    <3>1. Told'
      BY <2>1, <2>3 DEF Told
    <3> QED
      BY <2>1, <2>3, <3>1 DEF DiskInv, Early, Output
  <2> QED
    BY <1>3, <2>2, <2>3 DEF ParseSpec
<1>4. CASE BuildRules
  <2>1. /\ res = 0 /\ DOMAIN disk = {} /\ parsed = spec /\ rules' = spec
        /\ errors' = resolve_rule_calls(spec)
        /\ base' = base /\ spec' = spec /\ disk' = disk
    BY <1>4 DEF BuildRules, DiskInv, Early
  <2>2. CASE errors' = <<>> /\ pc' = "open_header" /\ res' = res
    <3>1. resolve_rule_calls(spec)' = <<>>
      BY <2>1, <2>2
    <3> QED
      BY <2>1, <2>2, <3>1 DEF DiskInv, Early, Output, Late
  <2>3. CASE pc' = "cleanup_rules" /\ res' = 1
    <3>1. Told'
      BY <2>1, <2>3 DEF Told
    <3> QED
      BY <2>1, <2>3, <3>1 DEF DiskInv, Early, Output
  <2> QED
    BY <1>4, <2>2, <2>3 DEF BuildRules
<1>5. CASE OpenHeader
  <2>1. /\ res = 0 /\ DOMAIN disk = {} /\ rules = spec /\ resolve_rule_calls(spec) = <<>>
        /\ base' = base /\ spec' = spec /\ rules' = rules
    BY <1>5 DEF OpenHeader, DiskInv, Early, Output
  <2>2. CASE Store(HeaderName, Empty) /\ pc' = "open_source" /\ res' = res
    <3>1. DOMAIN disk' = {HeaderName} /\ disk'[HeaderName] = Empty
      BY <2>1, <2>2, StoreContent
    <3> QED
      BY <2>1, <2>2, <3>1, SameNames DEF DiskInv, Early, Output, Late
  <2>3. CASE pc' = "cleanup_outputs" /\ res' = 1 /\ disk' = disk
    <3>1. Told'
      BY <2>1, <2>3 DEF Told
    <3> QED
      BY <2>1, <2>3, <3>1 DEF DiskInv, Early, Output
  <2> QED
    BY <1>5, <2>2, <2>3 DEF OpenHeader
<1>6. CASE OpenSource
  <2>1. /\ res = 0 /\ DOMAIN disk = {HeaderName} /\ disk[HeaderName] = Empty
        /\ rules = spec /\ resolve_rule_calls(spec) = <<>>
        /\ base' = base /\ spec' = spec /\ rules' = rules
    BY <1>6 DEF OpenSource, DiskInv, Output
  <2>2. CASE Store(SourceName, Empty) /\ pc' = "generate" /\ res' = res
    <3>1. DOMAIN disk' = {HeaderName} \cup {SourceName}
      BY <2>1, <2>2, StoreContent
    <3>2. DOMAIN disk' = {HeaderName', SourceName'}
      BY <3>1, <2>1, SameNames
    <3> QED
      BY <2>1, <2>2, <3>2 DEF DiskInv, Early, Output, Late
  <2>3. CASE pc' = "cleanup_outputs" /\ res' = 1 /\ disk' = disk
    <3>1. Told'
      BY <2>1, <2>3, SameNames DEF Told
    <3> QED
      BY <2>1, <2>3, <3>1 DEF DiskInv, Early, Output
  <2> QED
    BY <1>6, <2>2, <2>3 DEF OpenSource
<1>7. CASE Generate
  <2>1. /\ res = 0 /\ DOMAIN disk = {HeaderName, SourceName}
        /\ rules = spec /\ resolve_rule_calls(spec) = <<>> /\ base \in Lengths
        /\ base' = base /\ spec' = spec /\ res' = res /\ pc' = "cleanup_outputs"
    BY <1>7 DEF Generate, DiskInv, Output
  <2>2. CASE base + 2 < OBUF_SIZE
    <3>1. HeaderName # SourceName
      BY <2>1, <2>2, NamesDiffer
    <3>2. /\ disk'[HeaderName] = Printed("header", spec)
          /\ disk'[SourceName] = Printed("source", spec)
      BY <3>1, <2>1, <1>7 DEF Generate
    <3>3. Told'
      BY <3>2, <2>1, <2>2, SameNames DEF Told
    <3> QED
      BY <2>1, <3>3 DEF DiskInv, Early, Output
  <2>3. CASE ~(base + 2 < OBUF_SIZE)
    <3>1. HeaderName = SourceName
      BY <2>1, <2>3, NamesDiffer
    <3>2. disk'[HeaderName] = Mixed
      BY <3>1, <2>1, <1>7 DEF Generate
    <3>3. Told'
      BY <3>2, <2>1, <2>3, SameNames DEF Told
    <3> QED
      BY <2>1, <3>3 DEF DiskInv, Early, Output
  <2> QED
    BY <2>2, <2>3
<1>8. CASE Overrun
  BY <1>8, SameNames DEF Overrun, DiskInv, Early, Output, Late
<1>9. CASE CleanupOutputs \/ CleanupRules \/ CleanupParse \/ CleanupFiles
  <2>1. pc \in Late /\ pc' \in Late /\ UNCHANGED <<base, spec, disk, res>>
    BY <1>9 DEF CleanupOutputs, CleanupRules, CleanupParse, CleanupFiles, Late
  <2>2. Told'
    BY <2>1, ToldSame DEF DiskInv
  <2> QED
    BY <2>1, <2>2 DEF DiskInv, Early, Output, Late
<1>10. CASE UNCHANGED vars
  <2>1. Told => Told'
    BY <1>10, ToldSame DEF vars
  <2> QED
    BY <1>10, <2>1, SameNames DEF vars, DiskInv, resolve_rule_calls
<1> QED
  BY <1>1, <1>2, <1>3, <1>4, <1>5, <1>6, <1>7, <1>8, <1>9, <1>10 DEF Next

(* For every argument and every failure, exit code 1 means that no file    *)
(* but an emptied header has changed, and exit code 0 that both have been  *)
(* written, or that the argument was too long and one has been spoiled.    *)
THEOREM ExitCodeTellsCorrect == Spec => []ExitCodeTells
<1>1. DiskInv => ExitCodeTells
  BY DEF DiskInv, ExitCodeTells, Told, Late
<1> QED
  BY <1>1, DiskInit, DiskNext, PTL DEF Spec
=============================================================================
