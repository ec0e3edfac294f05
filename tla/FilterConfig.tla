---------------------------- MODULE FilterConfig -----------------------------
(***************************************************************************)
(* filter_chain_parse, src/src/FilterConfig.cxx: the value of an output's *)
(* "filters" setting is a comma-separated list of filter template names;  *)
(* each non-empty name is looked up among the audio_filter configuration  *)
(* blocks, instantiated, and appended to the chain, and the first name    *)
(* that fails ends the parse.  A configuration block is a record          *)
(* [name, plugin, ok]: its "name" value (NoName when it has none), its    *)
(* "plugin" value, and whether filter_configured_new succeeds on it.      *)
(***************************************************************************)
EXTENDS Naturals, Sequences

CONSTANT NoName

\* filter_plugin_config (lines 43-65): the index of the first block named
\* n, or 0 when a block without a name comes first ("filter configuration
\* without 'name'") or no block has that name ("filter template not
\* found").
RECURSIVE FilterPluginConfig(_, _, _)
FilterPluginConfig(n, blocks, i) ==
  CASE i > Len(blocks)          -> 0
    [] blocks[i].name = NoName  -> 0
    [] blocks[i].name = n       -> i
    [] OTHER                    -> FilterPluginConfig(n, blocks, i + 1)

\* filter_chain_append_new (lines 67-87): look the template up,
\* instantiate it, append it under its plugin name.
FilterChainAppendNew(chain, n, blocks) ==
  LET at == FilterPluginConfig(n, blocks, 1)
  IN IF at = 0 \/ ~blocks[at].ok THEN [ok |-> FALSE, chain |-> chain]
     ELSE [ok |-> TRUE, chain |-> Append(chain, blocks[at].plugin)]

\* The end of the name starting at i: std::find(spec, end, ',').
Comma(s, i) ==
  LET hits == {j \in i..Len(s) : s[j] = ","}
  IN IF hits = {} THEN Len(s) + 1
     ELSE CHOOSE j \in hits : \A k \in hits : j <= k

RECURSIVE ParseFromNoEmptySkip(_, _, _, _)
ParseFromNoEmptySkip(s, i, chain, blocks) ==
  LET c    == Comma(s, i)
      step == FilterChainAppendNew(chain, SubSeq(s, i, c - 1), blocks)
  IN IF ~step.ok THEN step
     ELSE IF c = Len(s) + 1 THEN step
     ELSE ParseFromNoEmptySkip(s, c + 1, step.chain, blocks)

\* The loop of filter_chain_parse (lines 94-107) from position i: an
\* empty name (comma > spec fails) is skipped; a failing name returns
\* false with the filters appended so far left in the chain.
RECURSIVE ParseFrom(_, _, _, _)
ParseFrom(s, i, chain, blocks) ==
  LET c    == Comma(s, i)
      step == IF c > i THEN FilterChainAppendNew(chain, SubSeq(s, i, c - 1), blocks)
              ELSE [ok |-> TRUE, chain |-> chain]
  IN IF ~step.ok THEN step
     ELSE IF c = Len(s) + 1 THEN step
     ELSE ParseFrom(s, c + 1, step.chain, blocks)

\* filter_chain_parse (lines 89-110) on an empty chain.
FilterChainParse(s, blocks) == ParseFrom(s, 1, <<>>, blocks)
====
