------------------------------ MODULE AllocAction -----------------------------
(* The kinds of recorded operations and their tables (AllocAction.hpp).    *)

AllocOp == {"New", "Delete", "NewArray", "DeleteArray", "Malloc", "Free",
            "CudaHostMalloc", "CudaDeviceMalloc", "CudaManagedMalloc", "CudaFree",
            "Unknown"}

kAllocOpIsAllocation ==
    [op \in AllocOp |-> op \in {"New", "NewArray", "Malloc", "CudaHostMalloc",
                                "CudaDeviceMalloc", "CudaManagedMalloc"}]

kAllocOpIsCpp ==
    [op \in AllocOp |-> op \in {"New", "Delete", "NewArray", "DeleteArray"}]

(* The operation that ends what another began; Malloc is its own.          *)
kAllocOpFreeFunction ==
    [op \in AllocOp |->
        CASE op = "New"      -> "Delete"
          [] op = "NewArray" -> "DeleteArray"
          [] op = "Malloc"   -> "Malloc"
          [] op \in {"CudaHostMalloc", "CudaDeviceMalloc", "CudaManagedMalloc"} -> "CudaFree"
          [] OTHER           -> "Unknown"]
===============================================================================
