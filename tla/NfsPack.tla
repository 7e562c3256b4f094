------------------------------- MODULE NfsPack ------------------------------
(* The class protPacker of rfc1813/pack.py: the shape in which pack_t(data) *)
(* writes each type t, one definition for the types of each procedure.      *)
(* Every method first refuses an attribute that is None with a TypeError;   *)
(* objects here have all theirs.                                            *)
EXTENDS Xdr, NfsConst

pack_scalars ==
  [short |-> Alias("int"), string |-> String(Unlimited), ulong |-> Alias("uint"),
   opaque |-> Opaque(Unlimited), int |-> Word, ushort |-> Alias("uint"),
   unsigned |-> Alias("uint"), long |-> Alias("int"), uhyper |-> Hyper, char |-> Alias("int"),
   uchar |-> Alias("uint"), hyper |-> Hyper, uint |-> Word, bool |-> Bool,
   uint64 |-> Alias("uhyper"), uint32 |-> Alias("uint"), filename3 |-> String(Unlimited),
   nfspath3 |-> String(Unlimited), fileid3 |-> Alias("uint64"), cookie3 |-> Alias("uint64"),
   cookieverf3 |-> Fopaque(NFS3_COOKIEVERFSIZE), createverf3 |-> Fopaque(NFS3_CREATEVERFSIZE),
   writeverf3 |-> Fopaque(NFS3_WRITEVERFSIZE), uid3 |-> Alias("uint32"),
   gid3 |-> Alias("uint32"), size3 |-> Alias("uint64"), offset3 |-> Alias("uint64"),
   mode3 |-> Alias("uint32"), count3 |-> Alias("uint32"), nfsstat3 |-> Enum(nfsstat3),
   ftype3 |-> Enum(ftype3)]

pack_attributes ==
  [specdata3    |-> Struct(<< <<"specdata1", "uint32">>, <<"specdata2", "uint32">> >>),
   nfs_fh3      |-> Struct(<< <<"data", "nfs_fh3_data">> >>),
   nfs_fh3_data |-> Opaque(NFS3_FHSIZE),
   nfstime3     |-> Struct(<< <<"seconds", "uint32">>, <<"nseconds", "uint32">> >>),
   fattr3       |-> Struct(<< <<"ftype", "ftype3">>, <<"mode", "mode3">>, <<"nlink", "uint32">>,
                            <<"uid", "uid3">>, <<"gid", "gid3">>, <<"size", "size3">>,
                            <<"used", "size3">>, <<"rdev", "specdata3">>, <<"fsid", "uint64">>,
                            <<"fileid", "fileid3">>, <<"atime", "nfstime3">>,
                            <<"mtime", "nfstime3">>, <<"ctime", "nfstime3">> >>),
   post_op_attr |-> Union("attributes_follow", "bool", (TRUE :> <<"attributes", "fattr3">>)
                            @@ (FALSE :> Void), BadSwitch),
   wcc_attr     |-> Struct(<< <<"size", "size3">>, <<"mtime", "nfstime3">>,
                            <<"ctime", "nfstime3">> >>),
   pre_op_attr  |-> Union("attributes_follow", "bool", (TRUE :> <<"attributes", "wcc_attr">>)
                            @@ (FALSE :> Void), BadSwitch),
   wcc_data     |-> Struct(<< <<"before", "pre_op_attr">>, <<"after", "post_op_attr">> >>),
   post_op_fh3  |-> Union("handle_follows", "bool", (TRUE :> <<"handle", "nfs_fh3">>)
                            @@ (FALSE :> Void), BadSwitch)
  ]

pack_sattr ==
  [time_how   |-> Enum(time_how),
   set_mode3  |-> Union("set_it", "bool", (TRUE :> <<"mode", "mode3">>), Void),
   set_uid3   |-> Union("set_it", "bool", (TRUE :> <<"uid", "uid3">>), Void),
   set_gid3   |-> Union("set_it", "bool", (TRUE :> <<"gid", "gid3">>), Void),
   set_size3  |-> Union("set_it", "bool", (TRUE :> <<"size", "size3">>), Void),
   set_atime  |-> Union("set_it", "time_how", (SET_TO_CLIENT_TIME :> <<"atime", "nfstime3">>), Void),
   set_mtime  |-> Union("set_it", "time_how", (SET_TO_CLIENT_TIME :> <<"mtime", "nfstime3">>), Void),
   sattr3     |-> Struct(<< <<"mode", "set_mode3">>, <<"uid", "set_uid3">>, <<"gid", "set_gid3">>,
                          <<"size", "set_size3">>, <<"atime", "set_atime">>,
                          <<"mtime", "set_mtime">> >>),
   diropargs3 |-> Struct(<< <<"dir", "nfs_fh3">>, <<"name", "filename3">> >>)
  ]

pack_GETATTR ==
  [GETATTR3args  |-> Struct(<< <<"object", "nfs_fh3">> >>),
   GETATTR3resok |-> Struct(<< <<"obj_attributes", "fattr3">> >>),
   GETATTR3res   |-> Union("status", "nfsstat3", (NFS3_OK :> <<"resok", "GETATTR3resok">>), Void)
  ]

pack_SETATTR ==
  [sattrguard3     |-> Union("check", "bool", (TRUE :> <<"obj_ctime", "nfstime3">>)
                            @@ (FALSE :> Void), BadSwitch),
   SETATTR3args    |-> Struct(<< <<"object", "nfs_fh3">>, <<"new_attributes", "sattr3">>,
                               <<"guard", "sattrguard3">> >>),
   SETATTR3resok   |-> Struct(<< <<"obj_wcc", "wcc_data">> >>),
   SETATTR3resfail |-> Struct(<< <<"obj_wcc", "wcc_data">> >>),
   SETATTR3res     |-> Union("status", "nfsstat3", (NFS3_OK :> <<"resok", "SETATTR3resok">>), <<"resfail", "SETATTR3resfail">>)
  ]

pack_LOOKUP ==
  [LOOKUP3args    |-> Struct(<< <<"what", "diropargs3">> >>),
   LOOKUP3resok   |-> Struct(<< <<"object", "nfs_fh3">>, <<"obj_attributes", "post_op_attr">>,
                              <<"dir_attributes", "post_op_attr">> >>),
   LOOKUP3resfail |-> Struct(<< <<"dir_attributes", "post_op_attr">> >>),
   LOOKUP3res     |-> Union("status", "nfsstat3", (NFS3_OK :> <<"resok", "LOOKUP3resok">>), <<"resfail", "LOOKUP3resfail">>)
  ]

pack_ACCESS ==
  [ACCESS3args    |-> Struct(<< <<"object", "nfs_fh3">>, <<"access", "uint32">> >>),
   ACCESS3resok   |-> Struct(<< <<"obj_attributes", "post_op_attr">>, <<"access", "uint32">> >>),
   ACCESS3resfail |-> Struct(<< <<"obj_attributes", "post_op_attr">> >>),
   ACCESS3res     |-> Union("status", "nfsstat3", (NFS3_OK :> <<"resok", "ACCESS3resok">>), <<"resfail", "ACCESS3resfail">>)
  ]

pack_READLINK ==
  [READLINK3args    |-> Struct(<< <<"symlink", "nfs_fh3">> >>),
   READLINK3resok   |-> Struct(<< <<"symlink_attributes", "post_op_attr">>,
                                <<"data", "nfspath3">> >>),
   READLINK3resfail |-> Struct(<< <<"symlink_attributes", "post_op_attr">> >>),
   READLINK3res     |-> Union("status", "nfsstat3", (NFS3_OK :> <<"resok", "READLINK3resok">>), <<"resfail", "READLINK3resfail">>)
  ]

pack_READ ==
  [READ3args       |-> Struct(<< <<"file", "nfs_fh3">>, <<"offset", "offset3">>,
                            <<"count", "count3">> >>),
   READ3resok      |-> Struct(<< <<"file_attributes", "post_op_attr">>, <<"count", "count3">>,
                               <<"eof", "bool">>, <<"data", "READ3resok_data">> >>),
   READ3resok_data |-> Opaque(Unlimited),
   READ3resfail    |-> Struct(<< <<"file_attributes", "post_op_attr">> >>),
   READ3res        |-> Union("status", "nfsstat3", (NFS3_OK :> <<"resok", "READ3resok">>), <<"resfail", "READ3resfail">>)
  ]

pack_WRITE ==
  [stable_how      |-> Enum(stable_how),
   WRITE3args      |-> Struct(<< <<"file", "nfs_fh3">>, <<"offset", "offset3">>,
                               <<"count", "count3">>, <<"stable", "stable_how">>,
                               <<"data", "WRITE3args_data">> >>),
   WRITE3args_data |-> Opaque(Unlimited),
   WRITE3resok     |-> Struct(<< <<"file_wcc", "wcc_data">>, <<"count", "count3">>,
                               <<"committed", "stable_how">>, <<"verf", "writeverf3">> >>),
   WRITE3resfail   |-> Struct(<< <<"file_wcc", "wcc_data">> >>),
   WRITE3res       |-> Union("status", "nfsstat3", (NFS3_OK :> <<"resok", "WRITE3resok">>), <<"resfail", "WRITE3resfail">>)
  ]

pack_CREATE ==
  [createmode3    |-> Enum(createmode3),
   createhow3     |-> Union("mode", "createmode3", (UNCHECKED :> <<"obj_attributes", "sattr3">>)
                              @@ (GUARDED :> <<"obj_attributes", "sattr3">>)
                              @@ (EXCLUSIVE :> <<"verf", "createverf3">>), BadSwitch),
   CREATE3args    |-> Struct(<< <<"where", "diropargs3">>, <<"how", "createhow3">> >>),
   CREATE3resok   |-> Struct(<< <<"obj", "post_op_fh3">>, <<"obj_attributes", "post_op_attr">>,
                              <<"dir_wcc", "wcc_data">> >>),
   CREATE3resfail |-> Struct(<< <<"dir_wcc", "wcc_data">> >>),
   CREATE3res     |-> Union("status", "nfsstat3", (NFS3_OK :> <<"resok", "CREATE3resok">>), <<"resfail", "CREATE3resfail">>)
  ]

pack_MKDIR ==
  [MKDIR3args    |-> Struct(<< <<"where", "diropargs3">>, <<"attributes", "sattr3">> >>),
   MKDIR3resok   |-> Struct(<< <<"obj", "post_op_fh3">>, <<"obj_attributes", "post_op_attr">>,
                             <<"dir_wcc", "wcc_data">> >>),
   MKDIR3resfail |-> Struct(<< <<"dir_wcc", "wcc_data">> >>),
   MKDIR3res     |-> Union("status", "nfsstat3", (NFS3_OK :> <<"resok", "MKDIR3resok">>), <<"resfail", "MKDIR3resfail">>)
  ]

pack_SYMLINK ==
  [symlinkdata3    |-> Struct(<< <<"symlink_attributes", "sattr3">>,
                            <<"symlink_data", "nfspath3">> >>),
   SYMLINK3args    |-> Struct(<< <<"where", "diropargs3">>, <<"symlink", "symlinkdata3">> >>),
   SYMLINK3resok   |-> Struct(<< <<"obj", "post_op_fh3">>, <<"obj_attributes", "post_op_attr">>,
                               <<"dir_wcc", "wcc_data">> >>),
   SYMLINK3resfail |-> Struct(<< <<"dir_wcc", "wcc_data">> >>),
   SYMLINK3res     |-> Union("status", "nfsstat3", (NFS3_OK :> <<"resok", "SYMLINK3resok">>), <<"resfail", "SYMLINK3resfail">>)
  ]

pack_MKNOD ==
  [devicedata3   |-> Struct(<< <<"dev_attributes", "sattr3">>, <<"spec", "specdata3">> >>),
   mknoddata3    |-> Union("ftype", "ftype3", (NF3CHR :> <<"device", "devicedata3">>)
                             @@ (NF3BLK :> <<"device", "devicedata3">>)
                             @@ (NF3SOCK :> <<"pipe_attributes", "sattr3">>)
                             @@ (NF3FIFO :> <<"pipe_attributes", "sattr3">>), Void),
   MKNOD3args    |-> Struct(<< <<"where", "diropargs3">>, <<"what", "mknoddata3">> >>),
   MKNOD3resok   |-> Struct(<< <<"obj", "post_op_fh3">>, <<"obj_attributes", "post_op_attr">>,
                             <<"dir_wcc", "wcc_data">> >>),
   MKNOD3resfail |-> Struct(<< <<"dir_wcc", "wcc_data">> >>),
   MKNOD3res     |-> Union("status", "nfsstat3", (NFS3_OK :> <<"resok", "MKNOD3resok">>), <<"resfail", "MKNOD3resfail">>)
  ]

pack_REMOVE ==
  [REMOVE3args    |-> Struct(<< <<"object", "diropargs3">> >>),
   REMOVE3resok   |-> Struct(<< <<"dir_wcc", "wcc_data">> >>),
   REMOVE3resfail |-> Struct(<< <<"dir_wcc", "wcc_data">> >>),
   REMOVE3res     |-> Union("status", "nfsstat3", (NFS3_OK :> <<"resok", "REMOVE3resok">>), <<"resfail", "REMOVE3resfail">>)
  ]

pack_RMDIR ==
  [RMDIR3args    |-> Struct(<< <<"object", "diropargs3">> >>),
   RMDIR3resok   |-> Struct(<< <<"dir_wcc", "wcc_data">> >>),
   RMDIR3resfail |-> Struct(<< <<"dir_wcc", "wcc_data">> >>),
   RMDIR3res     |-> Union("status", "nfsstat3", (NFS3_OK :> <<"resok", "RMDIR3resok">>), <<"resfail", "RMDIR3resfail">>)
  ]

pack_RENAME ==
  [RENAME3args    |-> Struct(<< <<"xfrom", "diropargs3">>, <<"xto", "diropargs3">> >>),
   RENAME3resok   |-> Struct(<< <<"fromdir_wcc", "wcc_data">>, <<"todir_wcc", "wcc_data">> >>),
   RENAME3resfail |-> Struct(<< <<"fromdir_wcc", "wcc_data">>, <<"todir_wcc", "wcc_data">> >>),
   RENAME3res     |-> Union("status", "nfsstat3", (NFS3_OK :> <<"resok", "RENAME3resok">>), <<"resfail", "RENAME3resfail">>)
  ]

pack_LINK ==
  [LINK3args    |-> Struct(<< <<"file", "nfs_fh3">>, <<"link", "diropargs3">> >>),
   LINK3resok   |-> Struct(<< <<"file_attributes", "post_op_attr">>,
                            <<"linkdir_wcc", "wcc_data">> >>),
   LINK3resfail |-> Struct(<< <<"file_attributes", "post_op_attr">>,
                            <<"linkdir_wcc", "wcc_data">> >>),
   LINK3res     |-> Union("status", "nfsstat3", (NFS3_OK :> <<"resok", "LINK3resok">>), <<"resfail", "LINK3resfail">>)
  ]

pack_READDIR ==
  [READDIR3args     |-> Struct(<< <<"dir", "nfs_fh3">>, <<"cookie", "cookie3">>,
                             <<"cookieverf", "cookieverf3">>, <<"count", "count3">> >>),
   entry3           |-> Struct(<< <<"fileid", "fileid3">>, <<"name", "filename3">>,
                                <<"cookie", "cookie3">>, <<"nextentry", "entry3_nextentry">> >>),
   entry3_nextentry |-> Array(1, "entry3"),
   dirlist3         |-> Struct(<< <<"entries", "dirlist3_entries">>, <<"eof", "bool">> >>),
   dirlist3_entries |-> Array(1, "entry3"),
   READDIR3resok    |-> Struct(<< <<"dir_attributes", "post_op_attr">>,
                                <<"cookieverf", "cookieverf3">>, <<"reply", "dirlist3">> >>),
   READDIR3resfail  |-> Struct(<< <<"dir_attributes", "post_op_attr">> >>),
   READDIR3res      |-> Union("status", "nfsstat3", (NFS3_OK :> <<"resok", "READDIR3resok">>), <<"resfail", "READDIR3resfail">>)
  ]

pack_READDIRPLUS ==
  [READDIRPLUS3args     |-> Struct(<< <<"dir", "nfs_fh3">>, <<"cookie", "cookie3">>,
                                 <<"cookieverf", "cookieverf3">>, <<"dircount", "count3">>,
                                 <<"maxcount", "count3">> >>),
   entryplus3           |-> Struct(<< <<"fileid", "fileid3">>, <<"name", "filename3">>,
                                    <<"cookie", "cookie3">>, <<"name_attributes", "post_op_attr">>,
                                    <<"name_handle", "post_op_fh3">>,
                                    <<"nextentry", "entryplus3_nextentry">> >>),
   entryplus3_nextentry |-> Array(1, "entryplus3"),
   dirlistplus3         |-> Struct(<< <<"entries", "dirlistplus3_entries">>, <<"eof", "bool">> >>),
   dirlistplus3_entries |-> Array(1, "entryplus3"),
   READDIRPLUS3resok    |-> Struct(<< <<"dir_attributes", "post_op_attr">>,
                                    <<"cookieverf", "cookieverf3">>,
                                    <<"reply", "dirlistplus3">> >>),
   READDIRPLUS3resfail  |-> Struct(<< <<"dir_attributes", "post_op_attr">> >>),
   READDIRPLUS3res      |-> Union("status", "nfsstat3", (NFS3_OK :> <<"resok", "READDIRPLUS3resok">>), <<"resfail", "READDIRPLUS3resfail">>)
  ]

pack_FSSTAT ==
  [FSSTAT3args    |-> Struct(<< <<"fsroot", "nfs_fh3">> >>),
   FSSTAT3resok   |-> Struct(<< <<"obj_attributes", "post_op_attr">>, <<"tbytes", "size3">>,
                              <<"fbytes", "size3">>, <<"abytes", "size3">>, <<"tfiles", "size3">>,
                              <<"ffiles", "size3">>, <<"afiles", "size3">>,
                              <<"invarsec", "uint32">> >>),
   FSSTAT3resfail |-> Struct(<< <<"obj_attributes", "post_op_attr">> >>),
   FSSTAT3res     |-> Union("status", "nfsstat3", (NFS3_OK :> <<"resok", "FSSTAT3resok">>), <<"resfail", "FSSTAT3resfail">>)
  ]

pack_FSINFO ==
  [FSINFO3args    |-> Struct(<< <<"fsroot", "nfs_fh3">> >>),
   FSINFO3resok   |-> Struct(<< <<"obj_attributes", "post_op_attr">>, <<"rtmax", "uint32">>,
                              <<"rtpref", "uint32">>, <<"rtmult", "uint32">>,
                              <<"wtmax", "uint32">>, <<"wtpref", "uint32">>,
                              <<"wtmult", "uint32">>, <<"dtpref", "uint32">>,
                              <<"maxfilesize", "size3">>, <<"time_delta", "nfstime3">>,
                              <<"properties", "uint32">> >>),
   FSINFO3resfail |-> Struct(<< <<"obj_attributes", "post_op_attr">> >>),
   FSINFO3res     |-> Union("status", "nfsstat3", (NFS3_OK :> <<"resok", "FSINFO3resok">>), <<"resfail", "FSINFO3resfail">>)
  ]

pack_PATHCONF ==
  [PATHCONF3args    |-> Struct(<< <<"object", "nfs_fh3">> >>),
   PATHCONF3resok   |-> Struct(<< <<"obj_attributes", "post_op_attr">>, <<"linkmax", "uint32">>,
                                <<"name_max", "uint32">>, <<"no_trunc", "bool">>,
                                <<"chown_restricted", "bool">>, <<"case_insensitive", "bool">>,
                                <<"case_preserving", "bool">> >>),
   PATHCONF3resfail |-> Struct(<< <<"obj_attributes", "post_op_attr">> >>),
   PATHCONF3res     |-> Union("status", "nfsstat3", (NFS3_OK :> <<"resok", "PATHCONF3resok">>), <<"resfail", "PATHCONF3resfail">>)
  ]

pack_COMMIT ==
  [COMMIT3args    |-> Struct(<< <<"file", "nfs_fh3">>, <<"offset", "offset3">>,
                           <<"count", "count3">> >>),
   COMMIT3resok   |-> Struct(<< <<"file_wcc", "wcc_data">>, <<"verf", "writeverf3">> >>),
   COMMIT3resfail |-> Struct(<< <<"file_wcc", "wcc_data">> >>),
   COMMIT3res     |-> Union("status", "nfsstat3", (NFS3_OK :> <<"resok", "COMMIT3resok">>), <<"resfail", "COMMIT3resfail">>)
  ]

pack_MNT ==
  [fhandle3                  |-> Opaque(FHSIZE3),
   dirpath3                  |-> String(MNTPATHLEN3),
   name3                     |-> String(MNTNAMLEN3),
   mountstat3                |-> Enum(mountstat3),
   mountres3_ok              |-> Struct(<< <<"fhandle", "fhandle3">>,
                                         <<"auth_flavors", "mountres3_ok_auth_flavors">> >>),
   mountres3_ok_auth_flavors |-> Array(Unlimited, "uint"),
   mountres3                 |-> Union("fhs_status", "mountstat3", (MNT3_OK :> <<"mountinfo", "mountres3_ok">>), Void)
  ]

pack_DUMP ==
  [mount3         |-> Struct(<< <<"ml_hostname", "name3">>, <<"ml_directory", "dirpath3">>,
                           <<"ml_next", "mount3_ml_next">> >>),
   mount3_ml_next |-> Array(1, "mount3"),
   mountopt3      |-> Array(1, "mount3")
  ]

pack_EXPORT ==
  [groups3            |-> Struct(<< <<"gr_name", "name3">>, <<"gr_next", "groups3_gr_next">> >>),
   groups3_gr_next    |-> Array(1, "groups3"),
   exports3           |-> Struct(<< <<"ex_dir", "dirpath3">>,
                                  <<"ex_groups", "exports3_ex_groups">>,
                                  <<"ex_next", "exports3_ex_next">> >>),
   exports3_ex_groups |-> Array(1, "groups3"),
   exports3_ex_next   |-> Array(1, "exports3"),
   exportsopt3        |-> Array(1, "exports3")
  ]

protPacker ==
  pack_scalars @@ pack_attributes @@ pack_sattr @@ pack_GETATTR @@ pack_SETATTR @@ pack_LOOKUP
  @@ pack_ACCESS @@ pack_READLINK @@ pack_READ @@ pack_WRITE @@ pack_CREATE @@ pack_MKDIR @@
  pack_SYMLINK @@ pack_MKNOD @@ pack_REMOVE @@ pack_RMDIR @@ pack_RENAME @@ pack_LINK @@
  pack_READDIR @@ pack_READDIRPLUS @@ pack_FSSTAT @@ pack_FSINFO @@ pack_PATHCONF @@
  pack_COMMIT @@ pack_MNT @@ pack_DUMP @@ pack_EXPORT
=============================================================================
