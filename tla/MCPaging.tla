------------------------------ MODULE MCPaging ------------------------------
(***************************************************************************)
(* The page tables as they are checked and proved about; TableLimit is the *)
(* bound of the addresses that callers map.                                *)
(***************************************************************************)
CONSTANTS F, Processors, Attrs, TableLimit, Lens, Shifts, MaxCalls

VARIABLES GbPageSupport, mem, todo, call, calls

PG == INSTANCE Paging WITH Limit <- TableLimit

ASSUME PagingAssumption == PG!PagingConstants

PagingSpec == PG!Spec
PagingFairSpec == PG!FairSpec

-----------------------------------------------------------------------------
(* create_mapping and destroy_mapping neither leak a table, nor free one in *)
(* use, nor free one twice, and every huge page has an aligned address.     *)
TablesExact == PG!TablesExact

(* After create_mapping each page of the range has its frame and attributes. *)
CreateMaps == PG!CreateMaps

(* After destroy_mapping of a range that was mapped no page of it is mapped. *)
DestroyUnmaps == PG!DestroyUnmaps

(* A page outside the range is never redirected, and is mapped as before when *)
(* the call returns, except that create_mapping drops the rest of a huge page *)
(* of which it maps a part.                                                   *)
OutsideKept == PG!OutsideKept

(* A call of create_mapping or destroy_mapping returns: the pieces of a huge *)
(* page that is cut make the progress destroy_mapping waits for.             *)
MappingReturns == PG!CallsReturn
=============================================================================
