------------------------------- MODULE MCDevText -------------------------------
(***************************************************************************)
(* The default rules, and other lists of rules, right and wrong, on every  *)
(* short text, spaced in any way, and on every longer sentence of words.   *)
(* Requests of every shape, good or bad, with one of two texts, through an *)
(* edge with every kind of default device.                                 *)
(***************************************************************************)
EXTENDS DevText

CONSTANTS MaxTokens, MaxWords

Pieces == {"okey", "hermes", "nu", "em", "please", "x"}

Sentence(words) ==
  [k \in 1..(2 * Len(words) - 1) |-> IF k % 2 = 1 THEN words[(k + 1) \div 2] ELSE " "]

MCTokens == Pieces \cup {"hey", "listen", "ee"} \cup Spaces

Longer == UNION {[1..n -> Pieces] : n \in 3..MaxWords}

Said ==
  UNION {[1..n -> Pieces \cup Spaces] : n \in 0..MaxTokens}
    \cup {Sentence(w) : w \in Longer}

MCEmpty   == <<>>
MCBlanks  == {<<>>, <<" ">>}
MCDevices == {<<"phone">>, <<"panel">>}
MCInputs  == {s \in Said : ~IsBlank(s)}

Plain(input) == [NoObject("object") EXCEPT !.device = <<"phone">>, !.input = input]

Shapes ==
  LET texts   == {<<"hermes">>, <<"x">>} \cup MCBlanks \cup {Mistyped}
      devices == MCDevices \cup MCBlanks \cup {Mistyped}
  IN  [body : Objects, device : devices, folded : {MCEmpty}, input : texts, text : texts,
       metadata : Metadatas, unknown : BOOLEAN]
        \cup [body : Objects, device : {MCEmpty}, folded : devices, input : texts, text : texts,
              metadata : Metadatas, unknown : BOOLEAN]
        \cup {NoObject(body) : body \in Bodies \ Objects}

MCRequests == {Plain(input) : input \in MCInputs} \cup Shapes

Replace(id, pattern, new) ==
  [id |-> id, kind |-> "replace_phrase", pattern |-> pattern, replacement |-> new]

MCRuleLists ==
  { DefaultRules,
    <<Replace("r1", <<"x", "x">>, <<"nu">>), Replace("r2", <<"nu">>, <<>>)>>,
    <<Rule("r1", "remove_suffix_phrase", <<"x">>), Rule("r2", "trim_space", <<>>),
      Rule("r1", "remove_suffix_phrase", <<"nu">>)>>,
    <<Rule("r1", "remove_prefix_phrase", <<>>)>>,
    <<Replace("r1", <<"x">>, <<>>), [Rule("r2", "trim_space", <<>>) EXCEPT !.replacement = <<"x">>]>>,
    <<Rule("fallback_original", "remove_prefix_phrase", <<"x">>), Rule("r1", "trim_space", <<>>)>>,
    <<Rule("", "trim_space", <<>>)>>,
    <<Rule("r1", "lower_case", <<>>)>> }

(* Other rules and a default device are not tried at once, nor either of   *)
(* them with what it makes no difference to.                               *)
MCInit ==
  /\ Init
  /\ given = DefaultRules \/ request \notin Shapes
  /\ DefaultDeviceID = MCEmpty \/ request \in Shapes

MCSpec == MCInit /\ [][Next]_vars
=============================================================================
