------------------------------ MODULE MCWorkbook ------------------------------
(* Two runs that share one workbook or use one each, with one container    *)
(* each, which comes back with nothing, a gain, or a debt larger than the  *)
(* borrow.                                                                 *)
EXTENDS Workbook

MCBookAmounts == {-1, 2}
MCLoanAmounts == {0, 1}
MCValues      == {-1, 2}
===============================================================================
