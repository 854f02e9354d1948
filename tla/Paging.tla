------------------------------- MODULE Paging -------------------------------
(***************************************************************************)
(* The arithmetic of a paged listing: utils/pagination.ts and the OFFSET   *)
(* of Game.find.                                                           *)
(***************************************************************************)
EXTENDS Integers

CONSTANTS
  Limit,   \* games to a page
  MaxPage  \* MAX_PAGE, the highest page an address can name

ASSUME PagingConstants ==
  /\ Limit \in Nat \ {0}
  /\ MaxPage \in Nat \ {0}

(* What ?page= says: NoPage if it is not there, BadPage if it is there and *)
(* is no page's spelling ("01", "x").                                      *)
NoPage == 0
BadPage == -1

(* parsePageParam *)
ParsePage(given) == IF given < 1 THEN 1 ELSE IF given > MaxPage THEN MaxPage ELSE given

TotalPages_OneTooMany(total) == total \div Limit + 1

(* totalPages: Math.ceil, and at least one *)
TotalPages(total) == IF total = 0 THEN 1 ELSE (total + Limit - 1) \div Limit

IsPageBeyondTotal(page, total) == page > 1 /\ (page - 1) * Limit >= total

Offset_NextPage(page) == page * Limit

(* Game.find's OFFSET *)
Offset(page) == (page - 1) * Limit

(* paginationUrls and views/pagination.ejs: is there a next page to name? *)
HasNext(page, total) == page < TotalPages(total)
=============================================================================
