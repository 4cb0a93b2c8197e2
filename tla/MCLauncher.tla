----------------------------- MODULE MCLauncher -----------------------------
(* Instances of Launcher for TLC.                                          *)
EXTENDS Launcher

Config(stage, driver3, spdk) ==
  [DEMO_MAX_STAGE |-> stage, STAGE3_DRIVER |-> driver3, SPDK_SETUP |-> spdk]

AllConfigs ==
  {Config("3", "vfio-pci", TRUE), Config("3", "uio_pci_generic", TRUE),
   Config("3", "kernel", TRUE), Config("3", "vfio-pci", FALSE),
   Config("1", "vfio-pci", TRUE), Config("unset", "vfio-pci", TRUE)}
=============================================================================
