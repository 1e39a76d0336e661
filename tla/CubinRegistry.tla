--------------------------- MODULE CubinRegistry ---------------------------
(***************************************************************************)
(* The registry of device code (redshow/src/redshow.cpp): the modules a    *)
(* trace can be related to, the cache of modules that were loaded and not  *)
(* used yet, and the way from an address to a function.                    *)
(***************************************************************************)
EXTENDS Integers, Sequences, FiniteSets

CONSTANTS
  Cubins, Mods,  \* cubin_id and mod_id
  SymbolPcs,     \* pcs of the symbols of <<cubin, mod>>, in the order of the table; 0 if not a function
  Broken         \* cubins that analyze_cubin cannot read

ASSUME RegistryAssumption ==
  /\ SymbolPcs \in [Cubins \X Mods -> Seq(Nat)]
  /\ Broken \subseteq Cubins

VARIABLES
  cubin_map,       \* cubin_map: cubin -> mod -> symbols
  cubin_cache_map  \* cubin_cache_map, as the set of its <<cubin, mod>>

registry == <<cubin_map, cubin_cache_map>>

\* The symbols of a module, with their places in the table; the order of a sort
\* by pc is the order of the pcs.
Symbols(c, m) == {[index |-> i, pc |-> SymbolPcs[<<c, m>>][i]] : i \in DOMAIN SymbolPcs[<<c, m>>]}

\* SymbolVector::transform_pc: the symbols that may be in front of the upper
\* bound, none if pc is below all of them.
transform_pc(symbols, pc) ==
  {s \in symbols : s.pc <= pc /\ \A q \in symbols : q.pc <= pc => q.pc <= s.pc}

Registered(c, m) == c \in DOMAIN cubin_map /\ m \in DOMAIN cubin_map[c]

\* Mutant: a cubin that is there is not looked into.
DuplicateCubin(c, m) == c \in DOMAIN cubin_map

\* redshow_cubin_register refuses a module that is there.
Duplicate(c, m) == Registered(c, m)

Extended(f, x, y) == [z \in DOMAIN f \cup {x} |-> IF z = x THEN y ELSE f[z]]

\* The result of redshow_cubin_register, which reads the file before it takes
\* the lock of the map.
RegisterResult(c, m) ==
  IF c \in Broken THEN "FAILED" ELSE IF Duplicate(c, m) THEN "DUPLICATE" ELSE "SUCCESS"

redshow_cubin_register(c, m) ==
  cubin_map' = IF RegisterResult(c, m) # "SUCCESS" THEN cubin_map
               ELSE Extended(cubin_map, c,
                      Extended(IF c \in DOMAIN cubin_map THEN cubin_map[c] ELSE <<>>, m, Symbols(c, m)))

\* redshow_cubin_cache_register; a module that is there is refused.
redshow_cubin_cache_register(c, m) ==
  cubin_cache_map' = cubin_cache_map \cup {<<c, m>>}

\* redshow_cubin_unregister; the cubin goes with its last module, the cache stays.
redshow_cubin_unregister(c, m) ==
  /\ c \in DOMAIN cubin_map
  /\ LET left == DOMAIN cubin_map[c] \ {m}
     IN cubin_map' = IF left = {} THEN [d \in DOMAIN cubin_map \ {c} |-> cubin_map[d]]
                     ELSE [cubin_map EXCEPT ![c] = [n \in left |-> @[n]]]

=============================================================================
