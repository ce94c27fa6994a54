----------------------------- MODULE Parsergen -----------------------------
(***************************************************************************)
(* The program parsergen: main of parsergen.c with the gotos of its error  *)
(* paths, and the files it writes.  The grammar file is a parsed           *)
(* specification or one that does not parse; what is made of it is in      *)
(* GrammarReader, what is printed from it in CGenerator.                   *)
(*                                                                         *)
(* fopen may fail for any file at any time.  A file name is the number of  *)
(* characters of the argument that are in it and what follows them.        *)
(***************************************************************************)
EXTENDS Integers, Sequences, FiniteSets

CONSTANTS
  Word,         \* the rule names but for case
  Specs,        \* the rules of the grammar files that parse
  Overruns(_),  \* a rule is too long for the buffer of print_function_bodies
  Lengths       \* of the argument, without its last four characters

(* A rule as collect_rule_data records it, with the rule_calls it adds. *)
RuleName == [word : Word, upper : BOOLEAN]

ASSUME SpecAssumption ==
  \A spec \in Specs :
    /\ spec # <<>>
    /\ \A i \in 1..Len(spec) : spec[i].name \in RuleName /\ spec[i].calls \in Seq(RuleName)
ASSUME LengthAssumption == Lengths \subseteq Nat

FNAME_BUF_SIZE == 1024
OBUF_SIZE      == 128

NoSpec == <<>>      \* the null parsed_spec, and the empty rule_records

VARIABLES
  pc,           \* the statement of main that is next
  base,         \* ops.output_base: how long it is
  spec,         \* what is in the grammar file
  parsed,       \* parsed_spec
  rules,        \* rule_records
  errors,       \* the rule names in the error list, or "syntax"
  held,         \* how often each resource was acquired and not released
  disk,         \* the files that have been opened for writing
  res

vars == <<pc, base, spec, parsed, rules, errors, held, disk, res>>

Resource == {"options", "input", "ib", "line_endings", "errors", "parsed_spec",
             "rule_records", "header_fname", "src_fname", "header_file", "src_file"}

Get(rs)  == held' = [r \in Resource |-> IF r \in rs THEN held[r] + 1 ELSE held[r]]
Free(rs) == held' = [r \in Resource |-> IF r \in rs THEN held[r] - 1 ELSE held[r]]
Goto(l)  == pc' = l

(* What is written to a file in the end. *)
Empty          == [kind |-> "empty"]
Printed(k, rs) == [kind |-> k, rules |-> rs]
Mixed          == [kind |-> "mixed"]

(* snprintf(obuf, 128, "%s.h", ops.output_base) keeps 127 characters. *)
OutputName(n, ext) ==
  IF n + 2 < OBUF_SIZE THEN <<n, ext>>
  ELSE IF n + 1 < OBUF_SIZE THEN <<n, ".">> ELSE <<OBUF_SIZE - 1, "">>

HeaderName == OutputName(base, ".h")
SourceName == OutputName(base, ".c")


Store(name, content) ==
  disk' = [f \in DOMAIN disk \cup {name} |-> IF f = name THEN content ELSE disk[f]]

-----------------------------------------------------------------------------
(* get_options: a name that is too long, or does not end in .peg in any    *)
(* mixture of cases, ends the program.                                     *)
get_options ==
  /\ pc = "get_options"
  /\ \E peg \in BOOLEAN :
       IF base + 4 < FNAME_BUF_SIZE - 4 /\ base > 0 /\ peg
       THEN Get({"options"}) /\ Goto("open_input") /\ UNCHANGED res
       ELSE Goto("exit") /\ res' = 1 /\ UNCHANGED held
  /\ UNCHANGED <<base, spec, parsed, rules, errors, disk>>

OpenInput ==
  /\ pc = "open_input"
  /\ \/ Get({"input"}) /\ Goto("parse") /\ UNCHANGED res
     \/ Goto("cleanup_files") /\ res' = 1 /\ UNCHANGED held
  /\ UNCHANGED <<base, spec, parsed, rules, errors, disk>>

(* input_buffer_create, parse_peg_spec, print_errors. *)
ParseSpec ==
  /\ pc = "parse"
  /\ parsed' = spec
  /\ IF spec = NoSpec
     THEN /\ Get({"ib", "errors", "line_endings"})
          /\ errors' = <<"syntax">>
          /\ res' = 1
          /\ Goto("cleanup_parse")
     ELSE /\ Get({"ib", "errors", "line_endings", "parsed_spec"})
          /\ Goto("rules")
          /\ UNCHANGED <<errors, res>>
  /\ UNCHANGED <<base, spec, rules, disk>>

(* resolve_rule_calls: an error for each call of a rule that is not there, *)
(* in the order of the calls.                                              *)
Names(rs) == {rs[i].name : i \in 1..Len(rs)}

UnknownIn(calls, rs) == SelectSeq(calls, LAMBDA name : name \notin Names(rs))

CallsUpTo(rs) ==
  LET f[i \in 0..Len(rs)] == IF i = 0 THEN <<>> ELSE f[i - 1] \o rs[i].calls
  IN  f[Len(rs)]

resolve_rule_calls(rs) == UnknownIn(CallsUpTo(rs), rs)

(* get_internal_representation and the check of the error list. *)
BuildRules_NoCheck ==
  /\ pc = "rules"
  /\ rules' = parsed
  /\ errors' = resolve_rule_calls(parsed)
  /\ Get({"rule_records"})
  /\ Goto("open_header") /\ UNCHANGED res
  /\ UNCHANGED <<base, spec, parsed, disk>>

BuildRules ==
  /\ pc = "rules"
  /\ rules' = parsed
  /\ errors' = resolve_rule_calls(parsed)
  /\ Get({"rule_records"})
  /\ IF errors' = <<>> THEN Goto("open_header") /\ UNCHANGED res
                       ELSE Goto("cleanup_rules") /\ res' = 1
  /\ UNCHANGED <<base, spec, parsed, disk>>

(* fopen(..., "w") leaves an empty file. *)
OpenHeader ==
  /\ pc = "open_header"
  /\ \/ /\ Get({"header_fname", "header_file"})
        /\ Store(HeaderName, Empty)
        /\ Goto("open_source") /\ UNCHANGED res
     \/ /\ Get({"header_fname"})
        /\ res' = 1
        /\ Goto("cleanup_outputs") /\ UNCHANGED disk
  /\ UNCHANGED <<base, spec, parsed, rules, errors>>

OpenSource_SkipsCleanup ==
  /\ pc = "open_source"
  /\ \/ /\ Get({"src_fname", "src_file"})
        /\ Store(SourceName, Empty)
        /\ Goto("generate") /\ UNCHANGED res
     \/ /\ Get({"src_fname"})
        /\ res' = 1
        /\ Goto("cleanup_rules") /\ UNCHANGED disk
  /\ UNCHANGED <<base, spec, parsed, rules, errors>>

OpenSource ==
  /\ pc = "open_source"
  /\ \/ /\ Get({"src_fname", "src_file"})
        /\ Store(SourceName, Empty)
        /\ Goto("generate") /\ UNCHANGED res
     \/ /\ Get({"src_fname"})
        /\ res' = 1
        /\ Goto("cleanup_outputs") /\ UNCHANGED disk
  /\ UNCHANGED <<base, spec, parsed, rules, errors>>

(* generate_c_parser writes to both streams; with one name for both files, *)
(* each overwrites what the other flushes.                                 *)
Generate ==
  /\ pc = "generate"
  /\ disk' = [f \in DOMAIN disk |->
                IF HeaderName = SourceName THEN Mixed
                ELSE IF f = HeaderName THEN Printed("header", rules)
                                       ELSE Printed("source", rules)]
  /\ Goto("cleanup_outputs")
  /\ UNCHANGED <<base, spec, parsed, rules, errors, held, res>>

(* print_function_bodies writes past its buffer on the C stack: the        *)
(* program may be stopped there, or go on as above.                        *)
Overrun ==
  /\ pc = "generate" /\ Overruns(rules)
  /\ Goto("crashed")
  /\ UNCHANGED <<base, spec, parsed, rules, errors, held, disk, res>>

-----------------------------------------------------------------------------
(* The labels at the end of main.  free and `if (f) fclose(f)' do nothing  *)
(* to a pointer that is still 0, so these four go by what is held.         *)
Outputs == {"header_fname", "src_fname", "header_file", "src_file"}

CleanupOutputs ==
  /\ pc = "cleanup_outputs"
  /\ Free({r \in Outputs : held[r] > 0})
  /\ Goto("cleanup_rules")
  /\ UNCHANGED <<base, spec, parsed, rules, errors, disk, res>>

CleanupRules ==
  /\ pc = "cleanup_rules"
  /\ Free({"rule_records"})
  /\ rules' = <<>>
  /\ Goto("cleanup_parse")
  /\ UNCHANGED <<base, spec, parsed, errors, disk, res>>

CleanupParse ==
  /\ pc = "cleanup_parse"
  /\ Free({"line_endings", "errors", "ib"} \cup
          IF parsed = NoSpec THEN {} ELSE {"parsed_spec"})
  /\ errors' = <<>>
  /\ parsed' = NoSpec
  /\ Goto("cleanup_files")
  /\ UNCHANGED <<base, spec, rules, disk, res>>

CleanupFiles ==
  /\ pc = "cleanup_files"
  /\ Free({"options"} \cup {r \in {"input"} : held[r] > 0})
  /\ Goto("exit")
  /\ UNCHANGED <<base, spec, parsed, rules, errors, disk, res>>

Init ==
  /\ pc = "get_options"
  /\ base \in Lengths
  /\ spec \in Specs \cup {NoSpec}
  /\ parsed = NoSpec
  /\ rules = <<>>
  /\ errors = <<>>
  /\ held = [r \in Resource |-> 0]
  /\ disk = [f \in {} |-> Empty]
  /\ res = 0

Next ==
  \/ get_options \/ OpenInput \/ ParseSpec \/ BuildRules
  \/ OpenHeader \/ OpenSource \/ Generate \/ Overrun
  \/ CleanupOutputs \/ CleanupRules \/ CleanupParse \/ CleanupFiles

Spec == Init /\ [][Next]_vars

-----------------------------------------------------------------------------
(* Properties *)

(* On every way through the gotos, whatever could not be opened or parsed, *)
(* all that main acquired is released once, and nothing that it has not    *)
(* acquired: its locals are uninitialised until then.                      *)
ReleasedOnce ==
  /\ \A r \in Resource : held[r] \in {0, 1}
  /\ pc = "exit" => \A r \in Resource : held[r] = 0

(* The exit code.  A failure leaves what earlier runs wrote as it was, but *)
(* for a header that was emptied before the source could not be opened; a  *)
(* success has written both files if the argument is no longer than the    *)
(* buffer for output names, and else one file that is neither.             *)
ExitCodeTells ==
  pc = "exit" =>
    IF res = 1 THEN /\ \A f \in DOMAIN disk : disk[f] = Empty
                    /\ DOMAIN disk \subseteq {HeaderName}
    ELSE IF base + 2 < OBUF_SIZE
         THEN /\ disk[HeaderName] = Printed("header", spec)
              /\ disk[SourceName] = Printed("source", spec)
              /\ resolve_rule_calls(spec) = <<>>
         ELSE disk[HeaderName] = Mixed
=============================================================================
