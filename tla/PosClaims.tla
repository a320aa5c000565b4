----------------------------- MODULE PosClaims -----------------------------
(* What the design says of the summary of a shift. *)
EXTENDS MCPosOrders

\* design.md:1360, Property 22: "For any closed shift, the shift summary's
\* total_sales should equal the sum of all paid order totals within that shift".
\* The join counts an order's total once for each of its payments rows.
TotalSalesAreTotals ==
    \A s \in DOMAIN shifts : shifts[s].status = "closed" => TotalSales(s) = SalesOf(s)
============================================================================
