------------------------------ MODULE MCStartup -------------------------------
(* Startup for TLC: compositors that offer enough, too much and too little. *)
EXTENDS Startup

MCGlobalLists ==
  {<<"wl_compositor", "wl_shm", "wl_seat", "xdg_wm_base", "unknown">>,
   <<"wl_output", "xdg_wm_base", "wl_seat", "wl_compositor", "wl_shm">>,
   <<"wl_shm", "wl_seat", "xdg_wm_base", "unknown", "wl_seat", "wl_compositor">>,
   <<"wl_compositor", "wl_seat", "wl_output", "wl_shm", "unknown">>}

\* A seat with everything, and that of a machine without a keyboard.
MCCapabilities == {Devices, {"wl_pointer"}}

=============================================================================
