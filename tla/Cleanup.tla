-------------------------------- MODULE Cleanup --------------------------------
(***************************************************************************)
(* Speech cleanup (internal/cleanup): rules are validated once, by New,    *)
(* and then applied in their order to each utterance, with a trace.        *)
(*                                                                         *)
(* A text is a sequence of tokens: pieces of words, and spaces.  Pieces    *)
(* that stand side by side are one longer word ("ну" at the head of        *)
(* "нужно"), which is all the rules can tell about characters.             *)
(***************************************************************************)
EXTENDS Naturals, Sequences, FiniteSetsExt, SequencesExt

CONSTANTS
  Tokens,    \* pieces of words, and spaces
  RuleLists  \* what New is called with

Spaces == {" ", "tab"}
Texts  == Seq(Tokens)

Kinds    == {"trim_space", "collapse_space", "remove_prefix_phrase",
             "remove_suffix_phrase", "replace_phrase"}
Patterned == Kinds \ {"trim_space", "collapse_space"}

(* Rule; Description is for the reader only.                               *)
Rules == [id : STRING, kind : STRING, pattern : Texts, replacement : Texts]

ASSUME CleanerConstants ==
  /\ Spaces \subseteq Tokens
  /\ RuleLists \subseteq Seq(Rules)

VARIABLES
  given,    \* the rules New was called with
  cleaner,  \* what it returned: "none" before, "error", or "ready"
  result    \* the Result of the utterance; <<>> before

cleanerVars == <<given, cleaner, result>>

CleanerInit ==
  /\ given \in RuleLists
  /\ cleaner = "none"
  /\ result = <<>>

-----------------------------------------------------------------------------
(* validate.go                                                             *)

(* Mutation of DuplicateID: neighbours only.                               *)
DuplicateNeighbour(rules) ==
  \E k \in DOMAIN rules : k > 1 /\ rules[k - 1].id = rules[k].id

DuplicateID(rules) ==
  \E j, k \in DOMAIN rules : j < k /\ rules[j].id = rules[k].id

(* Mutation of RuleError: a phrase may be empty.                           *)
RuleErrorPhraseless(r) ==
  \/ r.id = ""
  \/ r.kind \notin Kinds
  \/ r.replacement # <<>> /\ r.kind # "replace_phrase"

RuleError(r) ==
  \/ r.id = ""
  \/ r.kind \notin Kinds
  \/ r.pattern = <<>> /\ r.kind \in Patterned
  \/ r.replacement # <<>> /\ r.kind # "replace_phrase"

New ==
  /\ cleaner = "none"
  /\ cleaner' = IF DuplicateID(given) \/ \E k \in DOMAIN given : RuleError(given[k])
                THEN "error" ELSE "ready"
  /\ UNCHANGED <<given, result>>

-----------------------------------------------------------------------------
(* The operations of package strings.                                      *)

Body(s) == {k \in DOMAIN s : s[k] \notin Spaces}

IsBlank(s) == Body(s) = {}

TrimSpace(s) == IF IsBlank(s) THEN <<>> ELSE SubSeq(s, Min(Body(s)), Max(Body(s)))

(* strings.Fields: what is read is a list of words and one begun.          *)
Flush(acc) == IF acc.word = <<>> THEN acc.words ELSE Append(acc.words, acc.word)

Scan(acc, x) ==
  IF x \in Spaces THEN [words |-> Flush(acc), word |-> <<>>]
                  ELSE [words |-> acc.words, word |-> Append(acc.word, x)]

Scanned(s) ==
  LET upto[k \in 0..Len(s)] ==
        IF k = 0 THEN [words |-> <<>>, word |-> <<>>] ELSE Scan(upto[k - 1], s[k])
  IN  upto

Fields(s) == Flush(Scanned(s)[Len(s)])

(* strings.Join, with one space between                                    *)
Joined(words) ==
  LET upto[k \in 0..Len(words)] ==
        IF k = 0 THEN <<>>
        ELSE IF k = 1 THEN words[1] ELSE upto[k - 1] \o <<" ">> \o words[k]
  IN  upto

Join(words) == Joined(words)[Len(words)]

CollapseWhitespace(s) == Join(Fields(s))

(* strings.ReplaceAll, with a pattern that is not empty: leftmost matches  *)
(* that do not overlap.                                                    *)
Replacing(s, pattern, new) ==
  LET At(k) == IsPrefix(pattern, SubSeq(s, k, Len(s)))
      upto[k \in 0..Len(s)] ==
        IF k = 0 THEN [out |-> <<>>, next |-> 1]
        ELSE LET acc == upto[k - 1] IN
             IF k < acc.next THEN acc
             ELSE IF At(k) THEN [out |-> acc.out \o new, next |-> k + Len(pattern)]
             ELSE [out |-> Append(acc.out, s[k]), next |-> k + 1]
  IN  upto

ReplaceEach(s, pattern, new) == Replacing(s, pattern, new)[Len(s)].out

-----------------------------------------------------------------------------
(* cleanup.go                                                              *)

(* Mutation of HasPrefixPhrase: any prefix will do.                        *)
HasPrefixLetters(s, phrase) == IsPrefix(phrase, s)

HasPrefixPhrase(s, phrase) ==
  /\ IsPrefix(phrase, s)
  /\ Len(s) = Len(phrase) \/ s[Len(phrase) + 1] \in Spaces

HasSuffixPhrase(s, phrase) ==
  /\ IsSuffix(phrase, s)
  /\ Len(s) = Len(phrase) \/ s[Len(s) - Len(phrase)] \in Spaces

ApplyRule(r, s) ==
  CASE r.kind = "trim_space"     -> TrimSpace(s)
    [] r.kind = "collapse_space" -> CollapseWhitespace(s)
    [] r.kind = "remove_prefix_phrase" /\ HasPrefixPhrase(s, r.pattern) ->
         SubSeq(s, Len(r.pattern) + 1, Len(s))
    [] r.kind = "remove_suffix_phrase" /\ HasSuffixPhrase(s, r.pattern) ->
         SubSeq(s, 1, Len(s) - Len(r.pattern))
    [] r.kind = "replace_phrase" -> ReplaceEach(s, r.pattern, r.replacement)
    [] OTHER -> s

(* AppliedRule                                                             *)
Applied(id, before, after) == [id |-> id, before |-> before, after |-> after]

(* One round of the loop, and what a rule leaves in the trace.             *)
Round(acc, r) ==
  LET after == ApplyRule(r, acc.current) IN
  [current |-> after,
   trace   |-> IF after = acc.current THEN acc.trace
               ELSE Append(acc.trace, Applied(r.id, acc.current, after))]

(* Mutation of Fallback: none.                                             *)
FallbackNever(input, acc) == acc

Fallback(input, acc) ==
  IF acc.current # <<>> \/ IsBlank(input) THEN acc
  ELSE LET original == CollapseWhitespace(TrimSpace(input)) IN
       [current |-> original,
        trace   |-> Append(acc.trace, Applied("fallback_original", acc.current, original))]

Rounds(rules, input) ==
  LET upto[k \in 0..Len(rules)] ==
        IF k = 0 THEN [current |-> input, trace |-> <<>>] ELSE Round(upto[k - 1], rules[k])
  IN  upto

CleanWithTrace(rules, input) ==
  LET acc == Fallback(input, Rounds(rules, input)[Len(rules)])
  IN  [original |-> input, cleaned |-> acc.current, applied |-> acc.trace]

-----------------------------------------------------------------------------
(* defaults.go                                                             *)

Rule(id, kind, pattern) ==
  [id |-> id, kind |-> kind, pattern |-> pattern, replacement |-> <<>>]

Leading ==
  << <<"okey_hermes",   <<"okey", " ", "hermes">> >>,
     <<"hey_hermes",    <<"hey", " ", "hermes">> >>,
     <<"listen_hermes", <<"listen", " ", "hermes">> >>,
     <<"hermes",        <<"hermes">> >>,
     <<"filler_nu",     <<"nu">> >>,
     <<"filler_ee",     <<"ee">> >>,
     <<"filler_em",     <<"em">> >> >>

(* The text is trimmed and collapsed at first and after each removal.      *)
Tidy(when) == <<Rule("trim_space_" \o when, "trim_space", <<>>),
                Rule("collapse_space_" \o when, "collapse_space", <<>>)>>

Stripping(p) ==
  <<Rule("remove_prefix_" \o p[1], "remove_prefix_phrase", p[2])>> \o Tidy("after_" \o p[1])

DefaultRules ==
  Tidy("initial")
    \o [k \in 1..(3 * Len(Leading)) |->
          Stripping(Leading[1 + ((k - 1) \div 3)])[1 + ((k - 1) % 3)]]
    \o <<Rule("remove_suffix_please", "remove_suffix_phrase", <<"please">>)>>
    \o Tidy("final")

-----------------------------------------------------------------------------
(***************************************************************************)
(* Only rules that can be applied are ever run: New lets no list pass that *)
(* holds an unknown kind or a phrase to look for that is empty, which any  *)
(* text would begin with.                                                  *)
(***************************************************************************)
CleanerTypeOK ==
  /\ cleaner \in {"none", "error", "ready"}
  /\ cleaner = "ready" =>
       \A k \in DOMAIN given :
         given[k].kind \in Kinds /\ (given[k].kind \in Patterned => given[k].pattern # <<>>)
  /\ result # <<>> => cleaner = "ready"

(***************************************************************************)
(* "CleanWithTrace returns ... before/after snapshots for each rule that   *)
(* changed text" (README.md:61): the trace is a replay.  Each entry starts *)
(* where the one before it ended, the rules named come in their order and  *)
(* at most once, and a rule whose turn it is between two entries is named  *)
(* by the second if and only if it changes the text.  Only the fallback    *)
(* makes something of nothing, whatever the ids of the rules are, and it   *)
(* comes last.                                                             *)
(***************************************************************************)
TraceReplays ==
  result # <<>> =>
    LET t == result.applied
        Text(k) == IF k = 1 THEN result.original ELSE t[k - 1].after
        By(k) == IF k \in DOMAIN t /\ t[k].before # <<>>
                 THEN CHOOSE j \in DOMAIN given : given[j].id = t[k].id
                 ELSE IF k = 0 THEN 0 ELSE Len(given) + 1
    IN  /\ result.cleaned = Text(Len(t) + 1)
        /\ \A k \in DOMAIN t :
             /\ t[k].before = Text(k) /\ t[k].after # Text(k)
             /\ By(k - 1) < By(k)
             /\ t[k].before = <<>> =>
                  /\ k = Len(t) /\ t[k].id = "fallback_original"
                  /\ t[k].after = CollapseWhitespace(result.original)
        /\ \A k \in 1..(Len(t) + 1), j \in DOMAIN given :
             By(k - 1) < j /\ j <= By(k) =>
               ApplyRule(given[j], Text(k)) = IF j = By(k) THEN Text(k + 1) ELSE Text(k)

(***************************************************************************)
(* What the default rules do to a sentence, told in words: strip, once     *)
(* each and in this order, the wake phrases and fillers it begins with,    *)
(* then a final "please"; and nothing at all if no word would be left.     *)
(* However it is spaced, no word is ever cut and none but these is lost.   *)
(***************************************************************************)
Strip(words, phrase) ==
  IF IsPrefix(phrase, words) THEN SubSeq(words, Len(phrase) + 1, Len(words)) ELSE words

Stripped(words) ==
  LET upto[k \in 0..Len(Leading)] ==
        IF k = 0 THEN words ELSE Strip(upto[k - 1], Fields(Leading[k][2]))
  IN  upto

ByWords(words) ==
  LET rest == Stripped(words)[Len(Leading)]
      left == IF rest # <<>> /\ Last(rest) = <<"please">> THEN Front(rest) ELSE rest
  IN  IF left = <<>> THEN words ELSE left

CleanedByWords ==
  result # <<>> /\ given = DefaultRules =>
    /\ Fields(result.cleaned) = ByWords(Fields(result.original))
    /\ result.cleaned = CollapseWhitespace(result.cleaned)
=============================================================================
