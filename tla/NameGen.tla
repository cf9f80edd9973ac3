------------------------------ MODULE NameGen ------------------------------
(***************************************************************************)
(* wd-domgen: names made of words, prefixes and suffixes                   *)
(* (combinator.rs), of a word's mutations (mutator.rs) and of both         *)
(* (generator.rs), and what a filter leaves of them (filter.rs).           *)
(*                                                                         *)
(* A name is a sequence of tokens in lower case, the last one its TLD;     *)
(* what a mutation makes of a token is given by Variants.                  *)
(***************************************************************************)
EXTENDS Naturals, Sequences, FiniteSets, Sift

CONSTANTS
  Token,
  TokenLength,  \* TokenLength[t]: its characters
  TokenRank,    \* TokenRank[t]: its place in the order of strings
  Variants,     \* Variants[kind][t]: the mutations of t that are not empty, in order
  Initials,     \* Initials[words]: the token of the words' first letters
  CombinatorConfigs,       \* the CombinatorConfigs
  Generators,   \* the GeneratorConfigs: keywords, tlds, max_results
  Filters,      \* the FilterConfigs
  NotAscii      \* tokens with a character that an ASCII label has not

ASSUME NameGenAssumption ==
  /\ {TokenLength, TokenRank} \subseteq [Token -> Nat]
  /\ \A t, u \in Token : TokenRank[t] = TokenRank[u] => t = u
  /\ CombinatorConfigs \subseteq [words : Seq(Token), prefixes : Seq(Token), suffixes : Seq(Token),
                       tlds : Seq(Token), bare : BOOLEAN, sep : Seq(Token), max : Nat]
  /\ Generators \subseteq [keywords : Seq(Token), tlds : Seq(Token), max : Nat]
  /\ Filters \subseteq [min : Nat, max : Nat, ascii : BOOLEAN, dedup : BOOLEAN,
                        blocked : SUBSET Seq(Token), blockedTokens : SUBSET Token]

VARIABLES
  made,      \* how the names at hand were made
  generated  \* the names

genVars == <<made, generated>>

LabelOf(name) == SubSeq(name, 1, Len(name) - 1)
LengthOf(label) == Total([i \in DOMAIN label |-> TokenLength[label[i]]])

\* Of equal names the first stays.
FirstOnes(names) == Sift(names, FirstPlaces(names))

Truncated(s, max) == SubSeq(s, 1, IF max < Len(s) THEN max ELSE Len(s))

-----------------------------------------------------------------------------
(* combinator.rs *)

\* Two parts with the separator between them.
Parted(c, one, two) == <<one>> \o c.sep \o <<two>>

\* The labels made of one word.
AroundWord(c, w) ==
  LET prefixed == [i \in DOMAIN c.prefixes |-> Parted(c, c.prefixes[i], w)]
  IN (IF c.bare THEN <<<<w>>>> ELSE <<>>)
     \o prefixed
     \o [k \in DOMAIN c.suffixes |-> Parted(c, w, c.suffixes[k])]
     \o Joined([i \in DOMAIN c.prefixes |->
                 [k \in DOMAIN c.suffixes |-> prefixed[i] \o c.sep \o <<c.suffixes[k]>>]])

\* Two words, in both orders.
WordPairs(c) ==
  Joined([i \in DOMAIN c.words |->
    Joined([n \in 1..(Len(c.words) - i) |->
      <<Parted(c, c.words[i], c.words[i + n]), Parted(c, c.words[i + n], c.words[i])>>])])

\* expand_combinations, push_if_valid
ExpandCombinations(c) ==
  LET labels == Joined([i \in DOMAIN c.words |-> AroundWord(c, c.words[i])]) \o WordPairs(c)
      valid == Sift(labels, {i \in DOMAIN labels : LengthOf(labels[i]) \in 1..c.max})
  IN FirstOnes(Joined([i \in DOMAIN c.tlds |->
                        [k \in DOMAIN valid |-> valid[k] \o <<c.tlds[i]>>]]))

-----------------------------------------------------------------------------
(* mutator.rs *)

MutationKinds == {"leet_speak", "vowel_substitution", "hyphenation", "vowel_removal",
                  "consonant_doubling", "char_swap", "char_drop", "common_suffix", "homoglyph"}

DefaultKinds == <<"leet_speak", "vowel_substitution", "hyphenation", "char_swap", "vowel_removal">>

\* mutate_domain: kinds and their variants in order until there are enough, then
\* sorted.
MutateDomain(t, kinds, max) ==
  LET all == Joined([i \in DOMAIN kinds |-> Variants[kinds[i]][t]])
      found == Truncated(FirstOnes(Sift(all, {i \in DOMAIN all : all[i] # t})), max)
      before(v) == {u \in Items(found) : TokenRank[u] < TokenRank[v]}
  IN [k \in DOMAIN found |-> CHOOSE v \in Items(found) : Cardinality(before(v)) = k - 1]

-----------------------------------------------------------------------------
(* generator.rs *)

DefaultPrefixes == <<"get", "my">>
DefaultSuffixes == <<"hub">>
MaxMutations == 20

\* GeneratorEngine::generate: what comes last is cut off first.
Generate(g) ==
  LET combined == ExpandCombinations(
                    [words |-> g.keywords, prefixes |-> DefaultPrefixes,
                     suffixes |-> DefaultSuffixes, tlds |-> g.tlds, bare |-> TRUE,
                     sep |-> <<>>, max |-> 63])
      abbreviated == IF Len(g.keywords) < 2 THEN <<>>
                     ELSE [i \in DOMAIN g.tlds |-> <<Initials[g.keywords], g.tlds[i]>>]
      variants == IF g.keywords = <<>> THEN <<>>
                  ELSE MutateDomain(g.keywords[1], DefaultKinds, MaxMutations)
      mutated == Joined([k \in DOMAIN variants |->
                          [i \in DOMAIN g.tlds |-> <<variants[k], g.tlds[i]>>]])
      all == combined \o abbreviated \o mutated
  IN Truncated(all, g.max)

-----------------------------------------------------------------------------
(* filter.rs *)

\* DomainFilter::filter: a name counts as seen also when it is then rejected.
FilterNames(f, names) ==
  LET seen == IF f.dedup THEN FirstOnes(names) ELSE names
      Passes(name) ==
        /\ LengthOf(LabelOf(name)) \in f.min..f.max
        /\ f.ascii => /\ Items(LabelOf(name)) \cap NotAscii = {}
                      /\ "-" \notin {Head(name), name[Len(name) - 1]}
        /\ LabelOf(name) \notin f.blocked
        /\ Items(LabelOf(name)) \cap f.blockedTokens = {}
  IN Sift(seen, {i \in DOMAIN seen : Passes(seen[i])})

-----------------------------------------------------------------------------

GenInit == made = [by |-> "nothing"] /\ generated = <<>>

\* Each call starts from nothing.
Expand(c) ==
  /\ made.by = "nothing"
  /\ made' = [by |-> "combinator", config |-> c]
  /\ generated' = ExpandCombinations(c)

MakeNames(g) ==
  /\ made.by = "nothing"
  /\ made' = [by |-> "generator", config |-> g]
  /\ generated' = Generate(g)

Filter(f) ==
  /\ made' = [by |-> "filter", config |-> f]
  /\ generated' = FilterNames(f, generated)

GenNext ==
  \/ \E c \in CombinatorConfigs : Expand(c)
  \/ \E g \in Generators : MakeNames(g)
  \/ \E f \in Filters : Filter(f)

GenSpec == GenInit /\ [][GenNext]_genVars

-----------------------------------------------------------------------------
(* Property *)

\* Every word alone, with every prefix, every suffix and both, and every two
\* words in either order, under every TLD, is there once if it is neither
\* empty nor too long, and nothing else is.
CombinationsAreAll ==
  made.by = "combinator" =>
    LET c == made.config
        before == {<<>>} \cup {<<p>> \o c.sep : p \in Items(c.prefixes)}
        after == {<<>>} \cup {c.sep \o <<s>> : s \in Items(c.suffixes)}
        around == {p \o <<w>> \o s : p \in before, w \in Items(c.words), s \in after}
        bare == {<<w>> : w \in Items(c.words)}
        pairs == {<<c.words[ij[1]]>> \o c.sep \o <<c.words[ij[2]]>> :
                    ij \in {x \in (DOMAIN c.words) \X (DOMAIN c.words) : x[1] # x[2]}}
        labels == (IF c.bare THEN around ELSE around \ bare) \cup pairs
    IN /\ Items(generated) = {l \o <<tld>> : l \in {k \in labels : LengthOf(k) \in 1..c.max},
                                             tld \in Items(c.tlds)}
       /\ Cardinality(Items(generated)) = Len(generated)
=============================================================================
