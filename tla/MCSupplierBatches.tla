------------------------- MODULE MCSupplierBatches -------------------------
EXTENDS SupplierBatches
CONSTANTS l1, l2, b1, b2
=============================================================================
