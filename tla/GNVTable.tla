------------------------------ MODULE GNVTable ------------------------------
(***************************************************************************)
(* The "___Global_Native_Value" table of japi/cache.c: the Lua-side table  *)
(* that keeps a Lua table or function alive while Java holds a handle on   *)
(* it.  GNV[type][addr] = {object, count}.  An entry is held here as its   *)
(* count; the object is the one at the address, which the entry pins.      *)
(* Addresses of different Lua types never coincide, so the per-type tables *)
(* are held as one.                                                        *)
(*                                                                         *)
(* A Lua table tells a light userdata from a number, so the key of an      *)
(* entry is its type and its value.                                        *)
(***************************************************************************)
EXTENDS Integers

LightUserdata(a) == <<"lightuserdata", a>>
Number(a)        == <<"number", a>>

NoEntries == [k \in {} |-> 0]

\* hasNativeValue: does an entry exist under the light userdata key?
HasNativeValue(gnv, a) == LightUserdata(a) \in DOMAIN gnv

\* (Fault_ operators are the plausible mistakes the properties of the modules
\* that use this one are tried against; nothing uses them.)
Fault_CopyValueToGNV(gnv, a) ==
  LET k == LightUserdata(a)
  IN  [x \in DOMAIN gnv \cup {k} |->
         IF x # k THEN gnv[x] ELSE IF k \in DOMAIN gnv THEN gnv[k] + 1 ELSE 0]

\* copyValueToGNV for a table or a function: one more reference.
CopyValueToGNV(gnv, a) ==
  LET k == LightUserdata(a)
  IN  [x \in DOMAIN gnv \cup {k} |->
         IF x # k THEN gnv[x] ELSE IF k \in DOMAIN gnv THEN gnv[k] + 1 ELSE 1]

Fault_RemoveKey(a) == LightUserdata(a)

\* The key removeValueFromGNV looks up: lua_pushnumber, not
\* lua_pushlightuserdata.
RemoveKey(a) == Number(a)

\* What removeValueFromGNV returns: -1 when the lookup finds nothing,
\* otherwise the references that are left.
RefsAfterRemove(gnv, a) ==
  IF RemoveKey(a) \notin DOMAIN gnv THEN -1
  ELSE IF gnv[RemoveKey(a)] > 1 THEN gnv[RemoveKey(a)] - 1 ELSE 0

\* The table after removeValueFromGNV: the count one lower, or the entry
\* under the light userdata key cleared.
RemoveValueFromGNV(gnv, a) ==
  CASE RefsAfterRemove(gnv, a) < 0 -> gnv
    [] RefsAfterRemove(gnv, a) > 0 -> [gnv EXCEPT ![RemoveKey(a)] = @ - 1]
    [] OTHER -> [k \in DOMAIN gnv \ {LightUserdata(a)} |-> gnv[k]]
=============================================================================
